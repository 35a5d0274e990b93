----------------------- MODULE LocalSchedulerProofs -----------------------
(***************************************************************************)
(* What holds of LocalScheduler for any number of loops and commands, any  *)
(* set of tasks and any bounds.  Four invariants, each with one lemma per  *)
(* action or group of actions:                                             *)
(*   ShapeInv  the types, and the task and list a caller must have in hand *)
(*   SlotInv   every slot on record, in a list read or being written, has  *)
(*             its task; the mutex holds inside one process                *)
(*   HoldInv   a working caller that was not robbed owns its session       *)
(*   InUseInv  what is held is held by a caller that will give it back     *)
(***************************************************************************)
EXTENDS LocalScheduler, TLAPS

USE CallersApart, BoundsAreNat

\* What a caller's record needs besides its type: the task it works on, and
\* for a run command that it neither fires nor sleeps.
Shaped(c, r) ==
    /\ r \in CallerStates
    /\ r.pc \in {"start", "run", "check", "fail", "settle"} => r.task \in TaskIds
    /\ r.pc \in {"put", "save", "save_crons"} => r.saw \in Crons
    /\ r.pc \in FiringPcs => r.due > 0
    /\ r.pc = "fail" => r.result = "error"
    /\ c \in RunCommands =>
         /\ r.pc \notin {"fire", "put", "save"} /\ r.back = "off"
         /\ r.pc \in {"look", "create"} => r.task \in TaskIds

ShapeInv ==
    /\ TypeOK
    /\ \A c \in Callers : Shaped(c, caller[c])
    /\ \A t \in TaskIds : task[t].status = "absent" => task[t].slot = 0

\* A caller at rest is shaped.
LEMMA RestShaped == \A c \in Callers : Shaped(c, Rest) /\ Rest \in CallerStates
  BY DEF Shaped, Rest, Waiting, CallerStates, Pcs, FiringPcs, Results

\* A caller that moves to a shaped record.
LEMMA Moves ==
  ASSUME ShapeInv, NEW c \in Callers, NEW r, Shaped(c, r), Become(c, r)
  PROVE  /\ caller' \in [Callers -> CallerStates]
         /\ \A d \in Callers : Shaped(d, caller'[d])
         /\ caller'[c] = r
         /\ \A d \in Callers \ {c} : caller'[d] = caller[d]
  <1> USE DEF ShapeInv, TypeOK, Become
  <1>1. r \in CallerStates
    BY DEF Shaped
  <1>2. caller' = [caller EXCEPT ![c] = r] /\ caller \in [Callers -> CallerStates]
    OBVIOUS
  <1> HIDE DEF ShapeInv, TypeOK, Become
  <1>3. \A d \in Callers : Shaped(d, caller[d])
    BY DEF ShapeInv
  <1> QED  BY <1>1, <1>2, <1>3

\* The rows and flags besides the callers.
RestOK ==
    /\ slot \in 0..MaxSlot /\ cron \in Crons
    /\ task \in [TaskIds -> TaskRows]
    /\ \A t \in TaskIds : task[t].status = "absent" => task[t].slot = 0
    /\ lease \in [Kinds -> Sessions]
    /\ mark \in Procs \cup {Nobody}
    /\ mutex \in [Procs -> Callers \cup {Nobody}]
    /\ up \in BOOLEAN /\ editor \in Crons \cup {Nobody}
    /\ left \in 0..MaxEvents /\ raced \in BOOLEAN /\ robbed \in SUBSET Callers
    /\ unseen \in SUBSET (1..MaxSlot) /\ leftover \in BOOLEAN

LEMMA CallerStep ==
  ASSUME ShapeInv, NEW c \in Callers, NEW r, Shaped(c, r), Become(c, r), RestOK'
  PROVE  ShapeInv'
  <1>1. /\ caller' \in [Callers -> CallerStates]
        /\ \A d \in Callers : Shaped(d, caller'[d])
    BY Moves
  <1> QED  BY <1>1 DEF ShapeInv, TypeOK, RestOK

\* What is known of a caller in hand.
LEMMA InvParts ==
  ASSUME ShapeInv, NEW c \in Callers
  PROVE  RestOK /\ Shaped(c, caller[c]) /\ caller[c] \in CallerStates
  BY DEF ShapeInv, TypeOK, RestOK, Shaped

\* A caller between two cycles is shaped.
LEMMA WaitingShape ==
  ASSUME NEW c \in Callers, NEW b \in {"off", "sleep"},
         NEW hb \in Procs \cup {Nobody}, c \in RunCommands => b = "off"
  PROVE  Shaped(c, Waiting(b, hb))
  BY DEF Waiting, Shaped, CallerStates, Pcs, FiringPcs, Results

\* A save of the row from an older copy writes a process or nobody.
LEMMA RestoresOK ==
  ASSUME RestOK, NEW p \in Procs \cup {Nobody}, Restores(p)
  PROVE  mark' \in Procs \cup {Nobody} /\ leftover' \in BOOLEAN
  BY DEF RestOK, Restores

\* One field of a caller at rest is set: its next step.
LEMMA RestAt ==
  ASSUME NEW c \in Callers, NEW p \in {"fire", "clear"}, c \notin RunCommands
  PROVE  Shaped(c, [Rest EXCEPT !.pc = p])
  BY DEF Rest, Waiting, Shaped, CallerStates, Pcs, FiringPcs, Results

\* What a caller is when it has returned.
LEMMA ReturnRecord ==
  ASSUME ShapeInv, NEW c \in Callers, Return(c)
  PROVE  \E r : Shaped(c, r) /\ Become(c, r)
  <1>1. Shaped(c, caller[c]) /\ caller[c] \in CallerStates
    BY InvParts
  <1>2. CASE Marked(c)
    <2>1. c \notin RunCommands
      BY <1>2 DEF Marked
    <2>2. Shaped(c, [Rest EXCEPT !.pc = "clear"])
      BY <2>1, RestAt
    <2>3. Become(c, [Rest EXCEPT !.pc = "clear"])
      BY <1>2 DEF Return
    <2> QED  BY <2>2, <2>3
  <1>3. CASE ~Marked(c) /\ caller[c].back = "off"
    <2>1. Become(c, Rest)
      BY <1>3 DEF Return
    <2> QED  BY <2>1, RestShaped
  <1>4. CASE ~Marked(c) /\ caller[c].back # "off"
    <2>1. Become(c, Waiting("sleep", caller[c].hb))
      BY <1>4 DEF Return
    <2>2. caller[c].hb \in Procs \cup {Nobody} /\ c \notin RunCommands
      BY <1>1, <1>4 DEF CallerStates, Shaped
    <2>3. Shaped(c, Waiting("sleep", caller[c].hb))
      BY <2>2, WaitingShape
    <2> QED  BY <2>1, <2>3
  <1> QED  BY <1>2, <1>3, <1>4

\* A caller that returns, with the tasks as its last step left them.
LEMMA ReturnShape ==
  ASSUME ShapeInv, NEW c \in Callers, Return(c),
         UNCHANGED <<cronVars, mark, leftover, up>>, left' \in 0..MaxEvents,
         task' \in [TaskIds -> TaskRows],
         \A t \in TaskIds : task'[t].status = "absent" => task'[t].slot = 0
  PROVE  ShapeInv'
  <1>1. RestOK
    BY InvParts
  <1>2. PICK r : Shaped(c, r) /\ Become(c, r)
    BY ReturnRecord
  <1>3. lease' \in [Kinds -> Sessions] /\ robbed' \in SUBSET Callers
    BY <1>1 DEF Return, Freed, RestOK, Sessions, NoSession
  <1>4. RestOK'
    BY <1>1, <1>3 DEF RestOK, cronVars
  <1> QED  BY <1>2, <1>4, CallerStep

\* One task row is written.
LEMMA TaskWritten ==
  ASSUME RestOK, NEW t \in TaskIds, NEW n \in TaskRows,
         n.status = "absent" => n.slot = 0, task' = [task EXCEPT ![t] = n]
  PROVE  /\ task' \in [TaskIds -> TaskRows]
         /\ \A u \in TaskIds : task'[u].status = "absent" => task'[u].slot = 0
         /\ task'[t] = n /\ \A u \in TaskIds \ {t} : task'[u] = task[u]
  <1>1. /\ task \in [TaskIds -> TaskRows]
        /\ \A u \in TaskIds : task[u].status = "absent" => task[u].slot = 0
    BY DEF RestOK
  <1> HIDE DEF RestOK
  <1> QED  BY <1>1

\* One lemma per action: the caller moves to a shaped record, the rows keep
\* their types.
LEMMA FireReadShape == ASSUME ShapeInv, NEW c \in Callers, FireRead(c) PROVE ShapeInv'
  <1>1. RestOK /\ Shaped(c, caller[c]) /\ caller[c] \in CallerStates
    BY InvParts
  <1>2. PICK p \in {"save", "put"} :
          Become(c, [caller[c] EXCEPT !.pc = p, !.saw = cron, !.due = slot,
                                      !.task = Nobody])
    BY DEF FireRead
  <1> DEFINE r == [caller[c] EXCEPT !.pc = p, !.saw = cron, !.due = slot,
                                    !.task = Nobody]
  <1>3. slot > 0 /\ slot \in 1..MaxSlot
    BY <1>1 DEF FireRead, Due, RestOK, Crons
  <1>4. Shaped(c, r)
    <2>1. c \notin RunCommands
      BY <1>1 DEF FireRead, MayFire, At, Shaped
    <2>2. p \in Pcs /\ cron \in Crons /\ slot \in 0..MaxSlot /\ slot > 0
      BY <1>1, <1>3 DEF Pcs, FiringPcs, RestOK
    <2>3. r \in CallerStates /\ r.pc = p /\ r.saw = cron /\ r.due = slot
      BY <1>1, <2>2 DEF CallerStates
    <2> QED  BY <2>1, <2>2, <2>3 DEF Shaped, FiringPcs
  <1>5. left' \in 0..MaxEvents
    BY <1>1 DEF FireRead, Event, RestOK
  <1>6. unseen' \in SUBSET (1..MaxSlot)
    BY <1>1, <1>3 DEF FireRead, RestOK
  <1>7. mutex' \in [Procs -> Callers \cup {Nobody}] /\ raced' \in BOOLEAN
    BY <1>1 DEF FireRead, RestOK
  <1>8. RestOK'
    BY <1>1, <1>5, <1>6, <1>7 DEF FireRead, RestOK, leaseVars
  <1> QED  BY <1>2, <1>4, <1>8, CallerStep

\* A tick that enqueued nothing returns to its wait, a cycle that woke goes on.
LEMMA NothingShape ==
  ASSUME ShapeInv, NEW c \in Callers, c \notin RunCommands
  PROVE  Shaped(c, AfterNothing(c))
  <1> DEFINE p == IF c \in CronLoops \/ caller[c].back = "sleep"
                  THEN caller[c].back ELSE "look"
  <1> DEFINE r == [caller[c] EXCEPT !.pc = p, !.saw = Nobody, !.due = 0]
  <1>1. RestOK /\ Shaped(c, caller[c]) /\ caller[c] \in CallerStates
    BY InvParts
  <1>2. p \in {"off", "sleep", "look"}
    BY <1>1 DEF CallerStates
  <1>3. AfterNothing(c) = r
    BY DEF AfterNothing
  <1> HIDE DEF p
  <1>4. r \in CallerStates
    <2>1. 0 \in 0..MaxSlot /\ p \in Pcs /\ Nobody \in Crons \cup {Nobody}
      BY <1>2 DEF Pcs
    <2> QED  BY <1>1, <2>1 DEF CallerStates
  <1>5. r.pc = p
    BY <1>1 DEF CallerStates
  <1> QED  BY <1>2, <1>3, <1>4, <1>5 DEF Shaped, FiringPcs

LEMMA FireRefusedShape == ASSUME ShapeInv, NEW c \in Callers, FireRefused(c) PROVE ShapeInv'
  <1>1. RestOK /\ Shaped(c, caller[c]) /\ caller[c] \in CallerStates
    BY InvParts
  <1>2. Shaped(c, AfterNothing(c)) /\ Become(c, AfterNothing(c))
    BY <1>1, NothingShape DEF FireRefused, Shaped, At
  <1>3. left' \in 0..MaxEvents
    BY <1>1 DEF FireRefused, Event, RestOK
  <1>4. mutex' \in [Procs -> Callers \cup {Nobody}]
    BY <1>1 DEF FireRefused, Unlock, RestOK
  <1>5. RestOK'
    BY <1>1, <1>3, <1>4 DEF FireRefused, RestOK, leaseVars
  <1> QED  BY <1>2, <1>5, CallerStep

\* Where a caller goes on it has its task, if it has one at all.
LEMMA ResumesShape ==
  ASSUME ShapeInv, NEW c \in Callers
  PROVE  /\ Resumes(c) \in {"idle", "run", "settle"}
         /\ Resumes(c) # "idle" => caller[c].task \in TaskIds
  BY InvParts DEF Resumes, CallerStates

LEMMA SaveCronsShape == ASSUME ShapeInv, NEW c \in Callers, SaveCrons(c) PROVE ShapeInv'
  <1> DEFINE p == Resumes(c)
  <1> DEFINE r == [caller[c] EXCEPT !.pc = p, !.saw = Nobody]
  <1>1. RestOK /\ Shaped(c, caller[c]) /\ caller[c] \in CallerStates
    BY InvParts
  <1>2. /\ p \in {"idle", "run", "settle"}
        /\ p # "idle" => caller[c].task \in TaskIds
    BY ResumesShape
  <1>3. Become(c, r)
    BY DEF SaveCrons
  <1> HIDE DEF p
  <1>4. Shaped(c, r)
    BY <1>1, <1>2 DEF SaveCrons, Shaped, CallerStates, Pcs, FiringPcs, At
  <1>5. left' \in 0..MaxEvents
    BY <1>1 DEF SaveCrons, Event, RestOK
  <1>6. cron' \in Crons
    BY <1>1 DEF SaveCrons, RestOK, Shaped, At
  <1>7. RestOK'
    BY <1>1, <1>5, <1>6 DEF SaveCrons, RestOK, leaseVars
  <1> QED  BY <1>3, <1>4, <1>7, CallerStep

\* A caller that has stored what it had to in the row, or has not to.
LEMMA GoesOnShape ==
  ASSUME ShapeInv, NEW c \in Callers, GoesOn(c), RestOK' PROVE ShapeInv'
  <1> DEFINE p == Resumes(c)
  <1>1. RestOK /\ Shaped(c, caller[c]) /\ caller[c] \in CallerStates
    BY InvParts
  <1>2. CASE /\ c \in Cycles
             /\ Become(c, [caller[c] EXCEPT !.pc = "save_crons", !.row = Nobody,
                                            !.saw = cron])
    <2>1. cron \in Crons /\ c \notin RunCommands
      BY <1>1, <1>2 DEF RestOK, Cycles
    <2>2. Shaped(c, [caller[c] EXCEPT !.pc = "save_crons", !.row = Nobody, !.saw = cron])
      BY <1>1, <2>1 DEF Shaped, CallerStates, Pcs, FiringPcs
    <2> QED  BY <1>2, <2>2, CallerStep
  <1>3. CASE Become(c, [caller[c] EXCEPT !.pc = p, !.row = Nobody])
    <2>1. /\ p \in {"idle", "run", "settle"}
          /\ p # "idle" => caller[c].task \in TaskIds
      BY ResumesShape
    <2> DEFINE r == [caller[c] EXCEPT !.pc = p, !.row = Nobody]
    <2> HIDE DEF p
    <2>2. /\ r \in CallerStates /\ r.pc = p /\ r.task = caller[c].task
          /\ r.back = caller[c].back
      BY <1>1, <2>1 DEF CallerStates, Pcs
    <2>3. Shaped(c, r)
      BY <1>1, <2>1, <2>2 DEF Shaped, FiringPcs
    <2> QED  BY <1>3, <2>3, CallerStep
  <1> QED  BY <1>2, <1>3 DEF GoesOn, ReadsCrons

\* The heartbeat row is read.
LEMMA RowReadShape ==
  ASSUME ShapeInv, NEW c \in Callers
  PROVE  /\ Shaped(c, RowRead(c)) /\ RowRead(c) \in CallerStates
         /\ RowRead(c).pc = "row"
  <1>1. RestOK /\ Shaped(c, caller[c]) /\ caller[c] \in CallerStates
    BY InvParts
  <1>2. RowRead(c) \in CallerStates /\ RowRead(c).pc = "row"
        /\ RowRead(c).back = caller[c].back
    BY <1>1 DEF RowRead, CallerStates, Pcs, RestOK
  <1> QED  BY <1>1, <1>2 DEF Shaped, FiringPcs

LEMMA ClearSessionShape ==
  ASSUME ShapeInv, NEW c \in Callers, ClearSession(c) PROVE ShapeInv'
  <1>1. RestOK
    BY InvParts
  <1>2. RestOK'
    BY <1>1 DEF ClearSession, RestOK, cronVars, leaseVars, Event
  <1> QED  BY <1>2, RowReadShape, CallerStep DEF ClearSession

\* A session that is stored as this caller's.
LEMMA RefreshedOK ==
  ASSUME RestOK, NEW c \in Callers PROVE Refreshed(c) \in [Kinds -> Sessions]
  BY DEF Refreshed, RestOK, Sessions

LEMMA IdleSessionShape ==
  ASSUME ShapeInv, NEW c \in Callers, IdleSession(c) PROVE ShapeInv'
  <1> DEFINE r == [RowRead(c) EXCEPT !.result = "ended"]
  <1>1. RestOK
    BY InvParts
  <1>2. Shaped(c, RowRead(c)) /\ RowRead(c) \in CallerStates /\ RowRead(c).pc = "row"
    BY RowReadShape
  <1>3. Shaped(c, r)
    BY <1>2 DEF Shaped, CallerStates, Results, FiringPcs
  <1>4. lease' \in [Kinds -> Sessions]
    BY <1>1, RefreshedOK DEF IdleSession, RestOK
  <1>5. RestOK'
    BY <1>1, <1>4 DEF IdleSession, RestOK, cronVars
  <1> QED  BY <1>3, <1>5, CallerStep DEF IdleSession

LEMMA RowSaveShape == ASSUME ShapeInv, NEW c \in Callers, RowSave(c) PROVE ShapeInv'
  <1>1. RestOK /\ caller[c] \in CallerStates
    BY InvParts
  <1>2. mark' \in Procs \cup {Nobody} /\ leftover' \in BOOLEAN
    BY <1>1, RestoresOK DEF RowSave, CallerStates
  <1>3. RestOK'
    BY <1>1, <1>2 DEF RowSave, RestOK, cronVars, leaseVars
  <1> QED  BY <1>3, GoesOnShape DEF RowSave

LEMMA ClearShape == ASSUME ShapeInv, NEW c \in Callers, Clear(c) PROVE ShapeInv'
  <1>1. RestOK
    BY InvParts
  <1>2. mark' \in Procs \cup {Nobody} /\ leftover' \in BOOLEAN
    BY <1>1 DEF Clear, RestOK
  <1>3. left' \in 0..MaxEvents
    BY <1>1 DEF Clear, Event, RestOK
  <1>4. RestOK'
    BY <1>1, <1>2, <1>3 DEF Clear, RestOK, cronVars, leaseVars
  <1> QED  BY <1>4, RestShaped, CallerStep DEF Clear

LEMMA StartShape == ASSUME ShapeInv, NEW c \in Callers, Start(c) PROVE ShapeInv'
  <1> DEFINE r == [caller[c] EXCEPT !.pc = "run"]
  <1>1. RestOK /\ Shaped(c, caller[c]) /\ caller[c] \in CallerStates
    BY InvParts
  <1>2. caller[c].task \in TaskIds /\ caller[c].tries \in 0..MaxRetries
    BY <1>1 DEF Start, Shaped, At, CallerStates
  <1>3. task[caller[c].task] \in TaskRows
    BY <1>1, <1>2 DEF RestOK
  <1>4. [task[caller[c].task] EXCEPT !.status = "in_progress",
                                     !.retries = caller[c].tries] \in TaskRows
    BY <1>2, <1>3 DEF TaskRows, Statuses
  <1>5. [task[caller[c].task] EXCEPT !.status = "in_progress",
                       !.retries = caller[c].tries].status # "absent"
    BY <1>1, <1>2 DEF RestOK, TaskRows
  <1>6. task' = [task EXCEPT ![caller[c].task] =
           [task[caller[c].task] EXCEPT !.status = "in_progress",
                                        !.retries = caller[c].tries]]
    BY DEF Start
  <1>7. /\ task' \in [TaskIds -> TaskRows]
        /\ \A u \in TaskIds : task'[u].status = "absent" => task'[u].slot = 0
    BY <1>1, <1>2, <1>4, <1>5, <1>6, TaskWritten
  <1>8. Shaped(c, r)
    BY <1>1 DEF Start, Shaped, CallerStates, Pcs, FiringPcs, At
  <1>9. Become(c, r)
    BY DEF Start, Goto
  <1>10. RestOK'
    BY <1>1, <1>7 DEF Start, RestOK, cronVars, leaseVars
  <1> QED  BY <1>8, <1>9, <1>10, CallerStep

LEMMA HeartLookShape == ASSUME ShapeInv, NEW c \in Callers, HeartLook(c) PROVE ShapeInv'
  <1> DEFINE r == [Waiting("sleep", mark) EXCEPT !.pc = "plan"]
  <1>1. RestOK
    BY InvParts
  <1>2. c \notin RunCommands /\ mark \in Procs \cup {Nobody}
    BY <1>1 DEF HeartLook, RestOK
  <1>3. Shaped(c, Waiting("sleep", mark))
    BY <1>2, WaitingShape
  <1>4. Shaped(c, r)
    BY <1>2, <1>3 DEF Waiting, Shaped, CallerStates, Pcs, FiringPcs
  <1>5. RestOK'
    BY <1>1 DEF HeartLook, RestOK, cronVars, leaseVars
  <1> QED  BY <1>4, <1>5, CallerStep DEF HeartLook

LEMMA HeartPlanShape == ASSUME ShapeInv, NEW c \in Callers, HeartPlan(c) PROVE ShapeInv'
  <1>1. RestOK /\ Shaped(c, caller[c]) /\ caller[c] \in CallerStates
    BY InvParts
  <1>2. Shaped(c, [caller[c] EXCEPT !.pc = "sleep"])
    BY <1>1 DEF HeartPlan, Shaped, CallerStates, Pcs, FiringPcs, At
  <1>3. mark' \in Procs \cup {Nobody} /\ leftover' \in BOOLEAN
    <2>1. CASE Restores(caller[c].hb)
      BY <1>1, <2>1, RestoresOK DEF CallerStates
    <2>2. CASE UNCHANGED <<mark, leftover>>
      BY <1>1, <2>2 DEF RestOK
    <2> QED  BY <2>1, <2>2 DEF HeartPlan
  <1>4. RestOK'
    BY <1>1, <1>3 DEF HeartPlan, RestOK, cronVars, leaseVars
  <1> QED  BY <1>2, <1>4, CallerStep DEF HeartPlan, Goto

LEMMA HeartSkipsShape == ASSUME ShapeInv, NEW c \in Callers, HeartSkips(c) PROVE ShapeInv'
  <1>1. RestOK /\ caller[c] \in CallerStates
    BY InvParts
  <1>2. mark' \in Procs \cup {Nobody} /\ leftover' \in BOOLEAN
    BY <1>1, RestoresOK DEF HeartSkips, CallerStates
  <1>3. RestOK'
    BY <1>1, <1>2 DEF HeartSkips, RestOK, cronVars, leaseVars, Event
  <1> QED  BY <1>3, RestShaped, CallerStep DEF HeartSkips

LEMMA FirePcShape ==
  ASSUME NEW c \in Callers, c \notin RunCommands
  PROVE  Shaped(c, [Rest EXCEPT !.pc = "fire"]) /\ Shaped(c, Rest)
  BY RestAt, RestShaped

LEMMA HeartWakeShape == ASSUME ShapeInv, NEW c \in Callers, HeartWake(c) PROVE ShapeInv'
  <1>1. RestOK /\ Shaped(c, caller[c]) /\ caller[c] \in CallerStates
    BY InvParts
  <1>2. Shaped(c, [Rest EXCEPT !.pc = "fire"]) /\ Shaped(c, Rest)
    BY FirePcShape DEF HeartWake
  <1>3. RestOK'
    BY <1>1 DEF HeartWake, RestOK, cronVars, leaseVars, Procs
  <1>4. Become(c, Rest) \/ Become(c, [Rest EXCEPT !.pc = "fire"])
    BY DEF HeartWake
  <1> QED  BY <1>2, <1>3, <1>4, CallerStep

LEMMA WakeCallShape == ASSUME ShapeInv, NEW c \in Callers, WakeCall(c) PROVE ShapeInv'
  <1>1. RestOK /\ Shaped(c, caller[c]) /\ caller[c] \in CallerStates
    BY InvParts
  <1>2. Shaped(c, [Rest EXCEPT !.pc = "fire"])
    BY FirePcShape DEF WakeCall
  <1>3. Become(c, [Rest EXCEPT !.pc = "fire"])
    BY DEF WakeCall
  <1>4. left' \in 0..MaxEvents
    BY <1>1 DEF WakeCall, Event, RestOK
  <1>5. mark' \in Procs \cup {Nobody}
    BY DEF WakeCall, Procs
  <1>6. RestOK'
    BY <1>1, <1>4, <1>5 DEF WakeCall, RestOK, cronVars, leaseVars
  <1> QED  BY <1>2, <1>3, <1>6, CallerStep

LEMMA RunCallShape == ASSUME ShapeInv, NEW c \in Callers, RunCall(c) PROVE ShapeInv'
  <1>1. RestOK /\ Shaped(c, caller[c]) /\ caller[c] \in CallerStates
    BY InvParts
  <1>2. PICK t \in Pending :
          Become(c, [Rest EXCEPT !.pc = "look", !.hb = mark, !.task = t,
                                 !.tries = task[t].retries])
    BY DEF RunCall
  <1>3. t \in TaskIds /\ task[t].retries \in 0..MaxRetries
    BY <1>1, <1>2 DEF Pending, RestOK, TaskRows
  <1> DEFINE r == [Rest EXCEPT !.pc = "look", !.hb = mark, !.task = t,
                               !.tries = task[t].retries]
  <1>4. Shaped(c, r)
    <2>1. Rest \in CallerStates /\ Rest.back = "off"
      BY RestShaped DEF Rest, Waiting
    <2>2. mark \in Procs \cup {Nobody}
      BY <1>1 DEF RestOK
    <2>3. r \in CallerStates /\ r.pc = "look" /\ r.task = t /\ r.back = "off"
      BY <1>3, <2>1, <2>2 DEF CallerStates, Pcs
    <2> QED  BY <1>3, <2>3 DEF Shaped, FiringPcs
  <1>5. RestOK'
    BY <1>1 DEF RunCall, RestOK, cronVars, leaseVars, Event
  <1> QED  BY <1>2, <1>4, <1>5, CallerStep

LEMMA FireNoneShape == ASSUME ShapeInv, NEW c \in Callers, FireNone(c) PROVE ShapeInv'
  <1> DEFINE r == [caller[c] EXCEPT !.pc = "look"]
  <1>1. RestOK /\ Shaped(c, caller[c]) /\ caller[c] \in CallerStates
    BY InvParts
  <1>2. Shaped(c, r)
    BY <1>1 DEF FireNone, Shaped, CallerStates, Pcs, FiringPcs, At
  <1>3. Become(c, r)
    BY DEF FireNone, Goto
  <1>4. left' \in 0..MaxEvents
    BY <1>1 DEF FireNone, Event, RestOK
  <1>5. RestOK'
    BY <1>1, <1>4 DEF FireNone, RestOK, cronVars, leaseVars
  <1> QED  BY <1>2, <1>3, <1>5, CallerStep

LEMMA IdleStartShape == ASSUME ShapeInv, NEW c \in Callers, IdleStart(c) PROVE ShapeInv'
  <1> DEFINE r == [caller[c] EXCEPT !.pc = "idle"]
  <1>1. RestOK /\ Shaped(c, caller[c]) /\ caller[c] \in CallerStates
    BY InvParts
  <1>2. Shaped(c, r)
    BY <1>1 DEF IdleStart, Shaped, CallerStates, Pcs, FiringPcs, At
  <1>3. Become(c, r)
    BY DEF IdleStart, Goto
  <1>4. RestOK'
    BY <1>1 DEF IdleStart, RestOK, cronVars, leaseVars
  <1> QED  BY <1>2, <1>3, <1>4, CallerStep

LEMMA FailLeaseShape == ASSUME ShapeInv, NEW c \in Callers, FailLease(c) PROVE ShapeInv'
  <1> DEFINE r == [caller[c] EXCEPT !.pc = "settle"]
  <1>1. RestOK /\ Shaped(c, caller[c]) /\ caller[c] \in CallerStates
    BY InvParts
  <1>2. Shaped(c, r)
    BY <1>1 DEF FailLease, Shaped, CallerStates, Pcs, FiringPcs, At
  <1>3. Become(c, r)
    BY DEF FailLease, Goto
  <1>4. RestOK'
    BY <1>1 DEF FailLease, RestOK, cronVars, leaseVars, Freed, Sessions, NoSession
  <1> QED  BY <1>2, <1>3, <1>4, CallerStep

\* A task to be created is one that does not exist.
LEMMA FreshIsUnused == ASSUME Unused # {} PROVE FreshTask \in Unused
  BY DEF FreshTask

LEMMA FirePutShape == ASSUME ShapeInv, NEW c \in Callers, FirePut(c) PROVE ShapeInv'
  <1> DEFINE r == [caller[c] EXCEPT !.pc = "save", !.task = FreshTask]
  <1> DEFINE n == [status |-> "pending", slot |-> caller[c].due, retries |-> 0]
  <1>1. RestOK /\ Shaped(c, caller[c]) /\ caller[c] \in CallerStates
    BY InvParts
  <1>2. FreshTask \in TaskIds
    BY FreshIsUnused DEF FirePut, Unused
  <1>3. Shaped(c, r)
    BY <1>1, <1>2 DEF FirePut, Shaped, CallerStates, Pcs, FiringPcs, At
  <1>4. Become(c, r)
    BY DEF FirePut
  <1>5. n \in TaskRows /\ n.status # "absent"
    BY <1>1 DEF CallerStates, TaskRows, Statuses
  <1>6. task' = [task EXCEPT ![FreshTask] = n]
    BY DEF FirePut
  <1>7. /\ task' \in [TaskIds -> TaskRows]
        /\ \A u \in TaskIds : task'[u].status = "absent" => task'[u].slot = 0
    <2> HIDE DEF n
    <2> QED  BY <1>1, <1>2, <1>5, <1>6, TaskWritten
  <1>8. RestOK'
    BY <1>1, <1>7 DEF FirePut, RestOK, cronVars, leaseVars
  <1> QED  BY <1>3, <1>4, <1>8, CallerStep

LEMMA FireSaveShape == ASSUME ShapeInv, NEW c \in Callers, FireSave(c) PROVE ShapeInv'
  <1> DEFINE r == [caller[c] EXCEPT !.pc = "look", !.saw = Nobody, !.due = 0,
                                    !.task = Nobody]
  <1>1. RestOK /\ Shaped(c, caller[c]) /\ caller[c] \in CallerStates
    BY InvParts
  <1>2. c \notin RunCommands /\ caller[c].saw \in Crons
    BY <1>1 DEF FireSave, At, Shaped
  <1>3. Shaped(c, AfterNothing(c))
    BY <1>2, NothingShape
  <1>4. Shaped(c, r)
    <2>1. 0 \in 0..MaxSlot
      OBVIOUS
    <2>2. r \in CallerStates /\ r.pc = "look"
      BY <1>1, <2>1 DEF CallerStates, Pcs
    <2> QED  BY <1>2, <2>2 DEF Shaped, FiringPcs
  <1>5. Become(c, r) \/ Become(c, AfterNothing(c))
    BY DEF FireSave
  <1>6. cron' \in Crons
    <2>1. cron \in Crons
      BY <1>1 DEF RestOK
    <2> QED  BY <1>1, <1>2, <2>1 DEF FireSave, Crons, CallerStates
  <1>7. mutex' \in [Procs -> Callers \cup {Nobody}] /\ left' \in 0..MaxEvents
    <2>1. mutex' \in [Procs -> Callers \cup {Nobody}]
      BY <1>1 DEF FireSave, Unlock, RestOK
    <2>2. left' \in 0..MaxEvents
      BY <1>1 DEF FireSave, Event, RestOK
    <2> QED  BY <2>1, <2>2
  <1>8. RestOK'
    BY <1>1, <1>6, <1>7 DEF FireSave, RestOK, leaseVars
  <1> HIDE DEF r
  <1> QED  BY <1>3, <1>4, <1>5, <1>8, CallerStep

\* A caller takes the session of its kind.
LEMMA TakenShape ==
  ASSUME ShapeInv, NEW c \in Callers, At(c, "create"), Taken(c),
         UNCHANGED <<cronVars, task, mark, leftover, up, left>>
  PROVE  ShapeInv'
  <1> DEFINE p == IF c \in RunCommands THEN "start" ELSE "next"
  <1> DEFINE r == [caller[c] EXCEPT !.pc = p]
  <1>1. RestOK /\ Shaped(c, caller[c]) /\ caller[c] \in CallerStates
    BY InvParts
  <1>2. Become(c, r)
    BY DEF Taken, Goto
  <1>3. p \in Pcs /\ p \in {"start", "next"} /\ (p = "start" <=> c \in RunCommands)
    BY DEF Pcs
  <1> HIDE DEF p
  <1>4. r \in CallerStates /\ r.pc = p /\ r.back = caller[c].back
        /\ r.task = caller[c].task
    BY <1>1, <1>3 DEF CallerStates
  <1>5. Shaped(c, r)
    BY <1>1, <1>3, <1>4 DEF Shaped, FiringPcs, At
  <1>6. [by |-> c, stale |-> FALSE] \in Sessions /\ KindOf(c) \in Kinds
    BY DEF Sessions, KindOf, Kinds
  <1>7. lease' \in [Kinds -> Sessions] /\ robbed' \in SUBSET Callers
    <2>1. lease \in [Kinds -> Sessions] /\ robbed \in SUBSET Callers
      BY <1>1 DEF RestOK
    <2> QED  BY <1>6, <2>1 DEF Taken, Rob
  <1>8. RestOK'
    BY <1>1, <1>7 DEF RestOK, cronVars, Taken
  <1> HIDE DEF r
  <1> QED  BY <1>2, <1>5, <1>8, CallerStep

LEMMA CreateShape == ASSUME ShapeInv, NEW c \in Callers, Create(c) PROVE ShapeInv'
  <1>1. RestOK
    BY InvParts
  <1>2. CASE Taken(c)
    BY <1>2, TakenShape DEF Create
  <1>3. CASE Return(c)
    <2>1. UNCHANGED <<cronVars, task, mark, leftover, up, left>>
      BY DEF Create
    <2> QED  BY <1>1, <1>3, <2>1, ReturnShape DEF RestOK
  <1> QED  BY <1>2, <1>3 DEF Create

LEMMA LookShape == ASSUME ShapeInv, NEW c \in Callers, Look(c) PROVE ShapeInv'
  <1> DEFINE r == [caller[c] EXCEPT !.pc = "create"]
  <1>1. RestOK /\ Shaped(c, caller[c]) /\ caller[c] \in CallerStates
    BY InvParts
  <1>2. Shaped(c, r)
    BY <1>1 DEF Look, Shaped, CallerStates, Pcs, FiringPcs, At
  <1>3. UNCHANGED <<cronVars, task, mark, leftover, up, left>>
    BY DEF Look
  <1>4. CASE Return(c)
    BY <1>1, <1>3, <1>4, ReturnShape DEF RestOK
  <1>5. CASE Goto(c, "create") /\ UNCHANGED leaseVars
    <2>1. RestOK'
      BY <1>1, <1>3, <1>5 DEF RestOK, cronVars, leaseVars
    <2> QED  BY <1>2, <1>5, <2>1, CallerStep DEF Goto
  <1>6. ASSUME NEW k \in Kinds, lease' = [lease EXCEPT ![k] = NoSession],
               Rob(k), Goto(c, "create")
        PROVE  ShapeInv'
    <2>1. lease' \in [Kinds -> Sessions] /\ robbed' \in SUBSET Callers
      BY <1>1, <1>6 DEF RestOK, Sessions, NoSession, Rob
    <2>2. RestOK'
      BY <1>1, <1>3, <1>6, <2>1 DEF RestOK, cronVars
    <2> QED  BY <1>2, <1>6, <2>2, CallerStep DEF Goto
  <1> QED  BY <1>4, <1>5, <1>6 DEF Look

LEMMA NextTaskShape == ASSUME ShapeInv, NEW c \in Callers, NextTask(c) PROVE ShapeInv'
  <1>1. RestOK /\ Shaped(c, caller[c]) /\ caller[c] \in CallerStates
    BY InvParts
  <1>2. PICK t \in Pending \ caller[c].seen :
          Become(c, [caller[c] EXCEPT !.pc = "start", !.task = t,
                                      !.tries = task[t].retries,
                                      !.seen = @ \cup {t}])
    BY DEF NextTask
  <1> DEFINE r == [caller[c] EXCEPT !.pc = "start", !.task = t,
                                    !.tries = task[t].retries,
                                    !.seen = @ \cup {t}]
  <1>3. t \in TaskIds /\ task[t].retries \in 0..MaxRetries
    BY <1>1, <1>2 DEF Pending, RestOK, TaskRows
  <1>4. r \in CallerStates /\ r.pc = "start" /\ r.task = t /\ r.back = caller[c].back
    BY <1>1, <1>3 DEF CallerStates, Pcs
  <1>5. Shaped(c, r)
    BY <1>1, <1>3, <1>4 DEF Shaped, FiringPcs
  <1>6. RestOK'
    BY <1>1 DEF NextTask, RestOK, cronVars, leaseVars
  <1> QED  BY <1>2, <1>5, <1>6, CallerStep

LEMMA EndShape ==
  ASSUME ShapeInv, NEW c \in Callers, CycleEnds(c) \/ IdleEnds(c)
  PROVE  ShapeInv'
  <1>1. RestOK
    BY InvParts
  <1>2. Return(c) /\ UNCHANGED <<cronVars, task, mark, leftover, up, left>>
    BY DEF CycleEnds, IdleEnds
  <1> QED  BY <1>1, <1>2, ReturnShape DEF RestOK

LEMMA RunEndsShape == ASSUME ShapeInv, NEW c \in Callers, RunEnds(c) PROVE ShapeInv'
  <1>1. RestOK /\ Shaped(c, caller[c]) /\ caller[c] \in CallerStates
    BY InvParts
  <1>2. PICK x \in Results : Become(c, [caller[c] EXCEPT !.pc = "check", !.result = x])
    BY DEF RunEnds, Results
  <1>3. Shaped(c, [caller[c] EXCEPT !.pc = "check", !.result = x])
    BY <1>1, <1>2 DEF RunEnds, Shaped, CallerStates, Pcs, FiringPcs, At
  <1>4. lease' \in [Kinds -> Sessions]
    BY <1>1, RefreshedOK DEF RunEnds, RestOK
  <1>5. mark' \in Procs \cup {Nobody} /\ leftover' \in BOOLEAN
    <2>1. CASE Restores(caller[c].hb)
      BY <1>1, <2>1, RestoresOK DEF CallerStates
    <2>2. CASE UNCHANGED <<mark, leftover>>
      BY <1>1, <2>2 DEF RestOK
    <2> QED  BY <2>1, <2>2 DEF RunEnds
  <1>6. RestOK'
    BY <1>1, <1>4, <1>5 DEF RunEnds, RestOK, cronVars
  <1> QED  BY <1>2, <1>3, <1>6, CallerStep

\* After a task, with the task rows as that task's settling left them.
LEMMA AfterTaskShape ==
  ASSUME ShapeInv, NEW c \in Callers, NEW over \in BOOLEAN, AfterTask(c, over),
         c \in RunCommands => over,
         UNCHANGED <<cronVars, mark, leftover, up, left>>,
         task' \in [TaskIds -> TaskRows],
         \A t \in TaskIds : task'[t].status = "absent" => task'[t].slot = 0
  PROVE  ShapeInv'
  <1> DEFINE r == [caller[c] EXCEPT !.pc = "next", !.task = Nobody,
                                    !.tries = 0, !.result = "none"]
  <1>1. RestOK /\ Shaped(c, caller[c]) /\ caller[c] \in CallerStates
    BY InvParts
  <1>2. CASE over
    <2>1. Return(c)
      BY <1>2 DEF AfterTask
    <2>2. left' \in 0..MaxEvents
      BY <1>1 DEF RestOK
    <2> QED  BY <2>1, <2>2, ReturnShape
  <1>3. CASE ~over
    <2>1. Become(c, r) /\ UNCHANGED leaseVars
      BY <1>3 DEF AfterTask
    <2>2. r \in CallerStates /\ r.pc = "next"
      <3>1. 0 \in 0..MaxRetries
        OBVIOUS
      <3> QED  BY <1>1, <3>1 DEF CallerStates, Pcs, Results
    <2>3. Shaped(c, r)
      BY <1>3, <2>2 DEF Shaped, FiringPcs
    <2>4. RestOK'
      BY <1>1, <2>1 DEF RestOK, cronVars, leaseVars
    <2> QED  BY <2>1, <2>3, <2>4, CallerStep
  <1> QED  BY <1>2, <1>3

LEMMA HandledShape == ASSUME ShapeInv, NEW c \in Callers, Handled(c) PROVE ShapeInv'
  <1>1. RestOK
    BY InvParts
  <1>2. /\ AfterTask(c, c \in RunCommands)
        /\ UNCHANGED <<cronVars, task, mark, leftover, up, left>>
    BY DEF Handled
  <1>3. /\ task' \in [TaskIds -> TaskRows]
        /\ \A t \in TaskIds : task'[t].status = "absent" => task'[t].slot = 0
    BY <1>1, <1>2 DEF RestOK
  <1>4. (c \in RunCommands) \in BOOLEAN
    OBVIOUS
  <1> QED  BY <1>2, <1>3, <1>4, AfterTaskShape

LEMMA NotHandledShape == ASSUME ShapeInv, NEW c \in Callers, NotHandled(c) PROVE ShapeInv'
  <1>1. RestOK /\ Shaped(c, caller[c]) /\ caller[c] \in CallerStates
    BY InvParts
  <1>2. RestOK'
    BY <1>1 DEF NotHandled, RestOK, cronVars, leaseVars
  <1>3. At(c, "check")
    BY DEF NotHandled
  <1>4. CASE GoesOn(c)
    BY <1>2, <1>4, GoesOnShape
  <1>5. CASE Goto(c, "fail") /\ caller[c].result = "error"
    <2>1. Shaped(c, [caller[c] EXCEPT !.pc = "fail"])
      BY <1>1, <1>3, <1>5 DEF Shaped, CallerStates, Pcs, FiringPcs, At
    <2> QED  BY <1>2, <1>5, <2>1, CallerStep DEF Goto
  <1>6. CASE Become(c, RowRead(c))
    BY <1>2, <1>6, RowReadShape, CallerStep
  <1> QED  BY <1>4, <1>5, <1>6 DEF NotHandled

\* What a run, an agent or a person leaves of a task is a row with its slot.
LEMMA ClosedRow ==
  ASSUME NEW t \in TaskRows
  PROVE  /\ Closed(t) \in TaskRows /\ Closed(t).status = "closed"
         /\ Closed(t).slot = t.slot
  <1>1. 0 \in 0..MaxRetries
    OBVIOUS
  <1> QED  BY <1>1 DEF Closed, TaskRows, Statuses

LEMMA SettledRow ==
  ASSUME ShapeInv, NEW c \in Callers, NEW t \in TaskRows, NEW n \in Settled(c, t)
  PROVE  n \in TaskRows /\ n.status # "absent" /\ n.slot = t.slot
  <1>1. caller[c].tries \in 0..MaxRetries
    BY InvParts DEF CallerStates
  <1>2. caller[c].tries < MaxRetries => caller[c].tries + 1 \in 0..MaxRetries
    BY <1>1
  <1>4. \/ n = Closed(t)
        \/ n = [t EXCEPT !.status = "pending", !.retries = caller[c].tries]
        \/ /\ caller[c].tries < MaxRetries
           /\ n = [t EXCEPT !.status = "pending", !.retries = caller[c].tries + 1]
        \/ n = [t EXCEPT !.status = "awaiting", !.retries = caller[c].tries]
    BY DEF Settled
  <1>5. ASSUME NEW k \in 0..MaxRetries, NEW s \in {"pending", "awaiting"},
               n = [t EXCEPT !.status = s, !.retries = k]
        PROVE  n \in TaskRows /\ n.status # "absent" /\ n.slot = t.slot
    BY <1>5 DEF TaskRows, Statuses
  <1>6. CASE n = Closed(t)
    BY <1>6, ClosedRow
  <1>7. CASE n # Closed(t)
    BY <1>1, <1>2, <1>4, <1>5, <1>7
  <1> QED  BY <1>6, <1>7

LEMMA SettleShape == ASSUME ShapeInv, NEW c \in Callers, Settle(c) PROVE ShapeInv'
  <1>1. RestOK /\ Shaped(c, caller[c])
    BY InvParts
  <1>2. caller[c].task \in TaskIds
    BY <1>1 DEF Settle, Shaped, At
  <1>3. task[caller[c].task] \in TaskRows
    BY <1>1, <1>2 DEF RestOK
  <1>4. PICK n \in Settled(c, task[caller[c].task]) :
           task' = [task EXCEPT ![caller[c].task] = n]
    BY DEF Settle
  <1>5. n \in TaskRows /\ n.status # "absent"
    BY <1>3, <1>4, SettledRow
  <1>6. /\ task' \in [TaskIds -> TaskRows]
        /\ \A u \in TaskIds : task'[u].status = "absent" => task'[u].slot = 0
    BY <1>1, <1>2, <1>4, <1>5, TaskWritten
  <1>7. /\ AfterTask(c, c \in RunCommands \/ caller[c].result = "error")
        /\ UNCHANGED <<cronVars, mark, leftover, up, left>>
    BY DEF Settle
  <1>8. (c \in RunCommands \/ caller[c].result = "error") \in BOOLEAN
    OBVIOUS
  <1> QED  BY <1>6, <1>7, <1>8, AfterTaskShape

LEMMA AgentReportsShape ==
  ASSUME ShapeInv, NEW c \in Callers, AgentReports(c) PROVE ShapeInv'
  <1> DEFINE t == caller[c].task
  <1>1. RestOK /\ Shaped(c, caller[c])
    BY InvParts
  <1>2. t \in TaskIds
    BY <1>1 DEF AgentReports, Shaped, At
  <1>3. task[t] \in TaskRows
    BY <1>1, <1>2 DEF RestOK
  <1>4. \/ task' = [task EXCEPT ![t] = Closed(task[t])]
        \/ task' = [task EXCEPT ![t] = [task[t] EXCEPT !.status = "awaiting"]]
    BY DEF AgentReports
  <1>5. /\ [task[t] EXCEPT !.status = "awaiting"] \in TaskRows
        /\ [task[t] EXCEPT !.status = "awaiting"].status # "absent"
    BY <1>3 DEF TaskRows, Statuses
  <1>6. Closed(task[t]) \in TaskRows /\ Closed(task[t]).status # "absent"
    BY <1>3, ClosedRow
  <1> HIDE DEF t
  <1>7. /\ task' \in [TaskIds -> TaskRows]
        /\ \A u \in TaskIds : task'[u].status = "absent" => task'[u].slot = 0
    BY <1>1, <1>2, <1>4, <1>5, <1>6, TaskWritten
  <1> QED  BY <1>7 DEF AgentReports, ShapeInv, TypeOK, cronVars, leaseVars

\* The steps of time and of people leave the callers alone.
LEMMA OutsideShape ==
  ASSUME ShapeInv, RestOK', UNCHANGED caller PROVE ShapeInv'
  BY DEF ShapeInv, TypeOK, RestOK

\* Time, people, and the starts of the two servers.
LEMMA EnvironmentShape ==
  ASSUME ShapeInv,
         \/ Tick \/ (\E k \in Kinds : Age(k)) \/ PersonAdds \/ PersonCancels
         \/ EditRead \/ EditSave \/ SchedulerStarts \/ ServerStarts
  PROVE  ShapeInv'
  <1>1. RestOK
    BY DEF ShapeInv, TypeOK, RestOK
  <1>2. CASE Tick
    BY <1>1, <1>2, OutsideShape DEF Tick, RestOK, cronVars, leaseVars
  <1>3. ASSUME NEW k \in Kinds, Age(k) PROVE ShapeInv'
    <2>1. lease' \in [Kinds -> Sessions]
      BY <1>1, <1>3 DEF Age, RestOK, Sessions
    <2>2. left' \in 0..MaxEvents
      BY <1>1, <1>3 DEF Age, Event, RestOK
    <2>3. RestOK' /\ UNCHANGED caller
      BY <1>1, <1>3, <2>1, <2>2 DEF Age, RestOK, cronVars
    <2> QED  BY <2>3, OutsideShape
  <1>4. CASE PersonAdds
    <2> DEFINE n == [NoTask EXCEPT !.status = "pending"]
    <2>1. FreshTask \in TaskIds
      BY <1>4, FreshIsUnused DEF PersonAdds, Unused
    <2>2. n \in TaskRows /\ n.status # "absent"
      BY DEF NoTask, TaskRows, Statuses
    <2>3. task' = [task EXCEPT ![FreshTask] = n]
      BY <1>4 DEF PersonAdds
    <2> HIDE DEF n
    <2>4. /\ task' \in [TaskIds -> TaskRows]
          /\ \A u \in TaskIds : task'[u].status = "absent" => task'[u].slot = 0
      BY <1>1, <2>1, <2>2, <2>3, TaskWritten
    <2>5. RestOK' /\ UNCHANGED caller
      BY <1>1, <1>4, <2>4 DEF PersonAdds, RestOK, cronVars, leaseVars, Event
    <2> QED  BY <2>5, OutsideShape
  <1>5. CASE PersonCancels
    <2>1. PICK t \in TaskIds : task' = [task EXCEPT ![t] = Closed(task[t])]
      BY <1>5 DEF PersonCancels
    <2>2. Closed(task[t]) \in TaskRows /\ Closed(task[t]).status # "absent"
      BY <1>1, ClosedRow DEF RestOK
    <2>3. /\ task' \in [TaskIds -> TaskRows]
          /\ \A u \in TaskIds : task'[u].status = "absent" => task'[u].slot = 0
      BY <1>1, <2>1, <2>2, TaskWritten
    <2>4. RestOK' /\ UNCHANGED caller
      BY <1>1, <1>5, <2>3 DEF PersonCancels, RestOK, cronVars, leaseVars, Event
    <2> QED  BY <2>4, OutsideShape
  <1>6. CASE EditRead
    BY <1>1, <1>6, OutsideShape DEF EditRead, RestOK, leaseVars, Event
  <1>7. CASE EditSave
    <2>1. editor \in Crons
      BY <1>1, <1>7 DEF EditSave, RestOK
    <2>2. cron' \in Crons
      BY <1>7, <2>1 DEF EditSave, Crons
    <2>3. RestOK' /\ UNCHANGED caller
      BY <1>1, <1>7, <2>2 DEF EditSave, RestOK, leaseVars
    <2> QED  BY <2>3, OutsideShape
  <1>8. CASE SchedulerStarts
    BY <1>1, <1>8, OutsideShape DEF SchedulerStarts, RestOK, cronVars, leaseVars
  <1>9. CASE ServerStarts
    <2>1. lease' \in [Kinds -> Sessions] /\ robbed' \in SUBSET Callers
      BY <1>1, <1>9 DEF ServerStarts, RestOK, Sessions, NoSession
    <2>2. RestOK' /\ UNCHANGED caller
      BY <1>1, <1>9, <2>1 DEF ServerStarts, RestOK, cronVars, Event
    <2> QED  BY <2>2, OutsideShape
  <1> QED  BY <1>2, <1>3, <1>4, <1>5, <1>6, <1>7, <1>8, <1>9

\* The dead callers are at rest.
LEMMA WithoutShape ==
  ASSUME NEW c \in Callers, NEW r, Shaped(c, r), NEW p
  PROVE  Shaped(c, Without(r, p))
  BY DEF Shaped, Without, CallerStates

LEMMA CrashShape == ASSUME ShapeInv, NEW p \in Procs, Crash(p) PROVE ShapeInv'
  <1> DEFINE dead == {c \in Callers : ProcOf(c) = p}
  <1>1. RestOK /\ \A c \in Callers : Shaped(c, caller[c])
    BY DEF ShapeInv, TypeOK, RestOK
  <1>2. caller' = [c \in Callers |-> IF c \in dead THEN Rest ELSE Without(caller[c], p)]
    BY DEF Crash
  <1>3. lease' \in [Kinds -> Sessions]
    <2>1. lease' = [k \in Kinds |-> IF lease[k].by \in dead
                                    THEN [lease[k] EXCEPT !.by = Gone] ELSE lease[k]]
      BY DEF Crash
    <2>2. lease \in [Kinds -> Sessions]
      BY <1>1 DEF RestOK
    <2> HIDE DEF dead
    <2> QED  BY <2>1, <2>2 DEF Sessions
  <1>4. left' \in 0..MaxEvents
    BY <1>1 DEF Crash, Event, RestOK
  <1>5. /\ mutex' \in [Procs -> Callers \cup {Nobody}]
        /\ mark' \in Procs \cup {Nobody} /\ leftover' \in BOOLEAN
        /\ up' \in BOOLEAN /\ robbed' \in SUBSET Callers
    BY <1>1 DEF Crash, RestOK
  <1>6. RestOK'
    BY <1>1, <1>3, <1>4, <1>5 DEF Crash, RestOK
  <1> HIDE DEF dead
  <1>7. \A c \in Callers : Shaped(c, caller'[c])
    BY <1>1, <1>2, RestShaped, WithoutShape
  <1>8. caller' \in [Callers -> CallerStates]
    BY <1>2, <1>7 DEF Shaped
  <1> QED  BY <1>6, <1>7, <1>8 DEF ShapeInv, TypeOK, RestOK

\* The first state, and every step.
LEMMA InitShape == Init => ShapeInv
  <1> SUFFICES ASSUME Init PROVE ShapeInv
    OBVIOUS
  <1>1. /\ 0 \in 0..MaxSlot /\ 0 \in 0..MaxRetries /\ MaxEvents \in 0..MaxEvents
        /\ NoTask \in TaskRows /\ NoSession \in Sessions
    BY DEF NoTask, TaskRows, Statuses, NoSession, Sessions
  <1>2. TypeOK
    BY <1>1, RestShaped DEF Init, TypeOK, Crons
  <1> QED  BY <1>2, RestShaped DEF Init, ShapeInv, NoTask

LEMMA NextShape == ASSUME ShapeInv, [Next]_vars PROVE ShapeInv'
  <1>1. ASSUME NEW c \in Callers,
               \/ HeartLook(c) \/ HeartPlan(c) \/ HeartWake(c) \/ HeartSkips(c)
               \/ WakeCall(c) \/ RunCall(c)
               \/ AgentReports(c) \/ ClearSession(c) \/ Fire(c)
        PROVE  ShapeInv'
    BY <1>1, HeartLookShape, HeartPlanShape, HeartWakeShape, HeartSkipsShape,
       WakeCallShape, RunCallShape, AgentReportsShape, ClearSessionShape,
       FireReadShape, FireNoneShape DEF Fire
  <1>2. ASSUME NEW c \in Callers, Step(c) PROVE ShapeInv'
    BY <1>2, FirePutShape, FireRefusedShape, FireSaveShape, LookShape, CreateShape,
       NextTaskShape, EndShape, IdleStartShape, StartShape, RunEndsShape,
       HandledShape, NotHandledShape, SaveCronsShape, FailLeaseShape, SettleShape,
       IdleSessionShape, RowSaveShape, ClearShape DEF Step
  <1>3. CASE UNCHANGED vars
    BY <1>3 DEF vars, ShapeInv, TypeOK
  <1> QED  BY <1>1, <1>2, <1>3, EnvironmentShape, CrashShape DEF Next

\* Every record and row keeps its type: a caller that settles a task has one,
\* and the retries of a task stay within MaxRetries.
THEOREM TypeCorrect == Spec => []TypeOK
  <1>1. ShapeInv => TypeOK
    BY DEF ShapeInv
  <1> QED  BY <1>1, InitShape, NextShape, PTL DEF Spec

-----------------------------------------------------------------------------
(* The slots of the cron. *)

\* A slot that some task has, or no slot at all.
HasTask(s) == s = 0 \/ \E t \in TaskIds : task[t].slot = s

\* What a caller inside fireDueCrons, or about to write the cron list back,
\* holds in its hands: a list whose slot has its task, and the slot it fires.
SlotRow(c) ==
    /\ caller[c].pc \in {"put", "save", "save_crons"} => HasTask(caller[c].saw.lastRun)
    /\ caller[c].pc = "save" => HasTask(caller[c].due)
    /\ caller[c].pc = "put" =>
         raced \/ caller[c].due \in unseen \/ ~HasTask(caller[c].due)
    /\ Firing(c) => mutex[ProcOf(c)] = c

OneProcess ==
    raced \/ \A c, d \in Callers : Firing(c) /\ Firing(d) => ProcOf(c) = ProcOf(d)

SlotInv ==
    /\ ShapeInv
    /\ HasTask(cron.lastRun)
    /\ editor # Nobody => HasTask(editor.lastRun)
    /\ \A c \in Callers : SlotRow(c)
    /\ OneProcess
    /\ SlotOnce

SlotsKept == \A t \in TaskIds : task'[t].slot = task[t].slot

\* Which slots have a task depends on the slots alone.
LEMMA HasKept == SlotsKept => \A s \in Nat : HasTask(s)' <=> HasTask(s)
  BY DEF SlotsKept, HasTask

\* The slots a caller or an editor holds are numbers.
LEMMA SlotsAreNat ==
  ASSUME ShapeInv, NEW c \in Callers
  PROVE  /\ cron.lastRun \in Nat /\ caller[c].due \in Nat
         /\ caller[c].saw # Nobody => caller[c].saw.lastRun \in Nat
         /\ editor # Nobody => editor.lastRun \in Nat
         /\ slot \in Nat
  <1>1. RestOK /\ caller[c] \in CallerStates
    BY InvParts
  <1> QED  BY <1>1 DEF RestOK, CallerStates, Crons

\* A caller that stays where it is with its mutex, or is outside the places the
\* invariant is about.
Quiet(d) ==
    \/ /\ caller'[d].pc = caller[d].pc /\ caller'[d].saw = caller[d].saw
       /\ caller'[d].due = caller[d].due
       /\ Firing(d) => mutex'[ProcOf(d)] = mutex[ProcOf(d)]
    \/ caller'[d].pc \notin {"put", "save", "save_crons"}

\* A step that changes no task's slot, and makes no caller begin to fire.
LEMMA SlotStep ==
  ASSUME SlotInv, ShapeInv', SlotsKept, UNCHANGED <<raced, unseen>>,
         HasTask(cron'.lastRun), editor' # Nobody => HasTask(editor'.lastRun),
         \A d \in Callers : Quiet(d)
  PROVE  SlotInv'
  <1>1. \A s \in Nat : HasTask(s)' <=> HasTask(s)
    BY HasKept
  <1>2. ASSUME NEW d \in Callers PROVE SlotRow(d)'
    <2>1. CASE caller'[d].pc \notin {"put", "save", "save_crons"}
      BY <2>1 DEF SlotRow, Firing, FiringPcs
    <2>2. CASE /\ caller'[d].pc = caller[d].pc /\ caller'[d].saw = caller[d].saw
               /\ caller'[d].due = caller[d].due
               /\ Firing(d) => mutex'[ProcOf(d)] = mutex[ProcOf(d)]
      <3>1. SlotRow(d) /\ Shaped(d, caller[d]) /\ ShapeInv
        BY DEF SlotInv, ShapeInv
      <3>2. caller[d].due \in Nat
        BY <3>1, SlotsAreNat
      <3>3. caller[d].pc \in {"put", "save", "save_crons"} => caller[d].saw.lastRun \in Nat
        BY <3>1, SlotsAreNat DEF Shaped, Crons
      <3>4. HasTask(caller[d].due)' <=> HasTask(caller[d].due)
        BY <1>1, <2>2, <3>2
      <3>5. caller[d].pc \in {"put", "save", "save_crons"} =>
              (HasTask(caller[d].saw.lastRun)' <=> HasTask(caller[d].saw.lastRun))
        BY <1>1, <2>2, <3>3
      <3> QED  BY <2>2, <3>1, <3>4, <3>5 DEF SlotRow, Firing
    <2> QED  BY <2>1, <2>2 DEF Quiet
  <1>3. \A d \in Callers : Firing(d)' => Firing(d)
    BY DEF Quiet, Firing, FiringPcs
  <1>4. OneProcess'
    BY <1>3 DEF SlotInv, OneProcess, ProcOf
  <1>5. SlotOnce'
    BY DEF SlotInv, SlotsKept, SlotOnce
  <1>6. HasTask(cron.lastRun)' /\ (editor' # Nobody => HasTask(editor.lastRun)')
    <2>1. cron'.lastRun \in Nat /\ (editor' # Nobody => editor'.lastRun \in Nat)
      BY DEF ShapeInv, TypeOK, Crons
    <2> QED  BY <1>1, <2>1
  <1> QED  BY <1>2, <1>4, <1>5, <1>6 DEF SlotInv

\* The part every step that leaves the cron list and its readers alone shares.
LEMMA QuietStep ==
  ASSUME SlotInv, ShapeInv', SlotsKept, UNCHANGED <<cron, editor, raced, unseen>>,
         \A d \in Callers : Quiet(d)
  PROVE  SlotInv'
  BY SlotStep DEF SlotInv

\* One caller moves to a place outside, the mutexes are as they were.
LEMMA QuietMove ==
  ASSUME SlotInv, ShapeInv', SlotsKept, UNCHANGED <<cron, editor, raced, unseen, mutex>>,
         NEW c \in Callers, NEW r, Become(c, r),
         r.pc \notin {"put", "save", "save_crons"}
  PROVE  SlotInv'
  <1>1. \A d \in Callers : Quiet(d)
    <2>1. caller \in [Callers -> CallerStates]
      BY DEF SlotInv, ShapeInv, TypeOK
    <2> QED  BY <2>1 DEF Become, Quiet
  <1> QED  BY <1>1, QuietStep

\* Steps that write no task, or rewrite one with its slot, keep the slots.
LEMMA SameTasks == ASSUME UNCHANGED task PROVE SlotsKept
  BY DEF SlotsKept

LEMMA RowRewritten ==
  ASSUME ShapeInv, NEW t \in TaskIds, NEW n, n.slot = task[t].slot,
         task' = [task EXCEPT ![t] = n]
  PROVE  SlotsKept
  <1>1. task \in [TaskIds -> TaskRows]
    BY DEF ShapeInv, TypeOK
  <1> QED  BY <1>1 DEF SlotsKept

\* The places a caller is in after the steps that are not about the cron.
Places == {"off", "plan", "sleep", "fire", "look", "create", "next", "start", "run",
           "idle", "check", "row", "fail", "settle", "clear"}

MovesOn(c) == \E r : Become(c, r) /\ r.pc \in Places

\* A record with such a place will do.
LEMMA MovesTo ==
  ASSUME NEW c, NEW r, Become(c, r), r.pc \in Places PROVE MovesOn(c)
  BY DEF MovesOn

\* The place of a record whose place is rewritten.
LEMMA Rewrites ==
  ASSUME ShapeInv, NEW c \in Callers, NEW pc
  PROVE  [caller[c] EXCEPT !.pc = pc].pc = pc
  <1>1. caller[c] \in CallerStates
    BY InvParts
  <1> QED  BY <1>1 DEF CallerStates

\* A return, and what follows a task, lead to one of these places.
LEMMA ReturnPlace ==
  ASSUME ShapeInv, NEW c \in Callers, Return(c)
  PROVE  MovesOn(c)
  <1>1. /\ [Rest EXCEPT !.pc = "clear"].pc \in Places /\ Rest.pc \in Places
        /\ Waiting("sleep", caller[c].hb).pc \in Places
    BY DEF Rest, Waiting, Places
  <1>2. \/ Become(c, [Rest EXCEPT !.pc = "clear"]) \/ Become(c, Rest)
        \/ Become(c, Waiting("sleep", caller[c].hb))
    BY DEF Return
  <1> QED  BY <1>1, <1>2, MovesTo

LEMMA AfterTaskPlace ==
  ASSUME ShapeInv, NEW c \in Callers, NEW over \in BOOLEAN, AfterTask(c, over)
  PROVE  MovesOn(c)
  <1>1. CASE over
    BY <1>1, ReturnPlace DEF AfterTask
  <1>2. CASE ~over
    <2> DEFINE r == [caller[c] EXCEPT !.pc = "next", !.task = Nobody, !.tries = 0,
                                      !.result = "none"]
    <2>1. r.pc \in Places
      BY InvParts DEF CallerStates, Places
    <2> QED  BY <1>2, <2>1, MovesTo DEF AfterTask
  <1> QED  BY <1>1, <1>2

\* A caller that moves to one of these places leaves the cron's invariant alone.
LEMMA PlaceStep ==
  ASSUME SlotInv, ShapeInv', SlotsKept, UNCHANGED cronVars, NEW c \in Callers,
         MovesOn(c)
  PROVE  SlotInv'
  <1>1. PICK r : Become(c, r) /\ r.pc \in Places
    BY DEF MovesOn
  <1> QED  BY <1>1, QuietMove DEF cronVars, Places

\* One lemma per group of actions.
LEMMA EntrySlots ==
  ASSUME SlotInv, ShapeInv', NEW c \in Callers,
         \/ HeartLook(c) \/ HeartPlan(c) \/ HeartWake(c) \/ HeartSkips(c)
         \/ WakeCall(c) \/ RunCall(c) \/ Clear(c)
  PROVE  SlotInv'
  <1>1. UNCHANGED <<cronVars, task>>
    BY DEF HeartLook, HeartPlan, HeartWake, HeartSkips, WakeCall, RunCall, Clear
  <1>2. MovesOn(c)
    <2>1. Rest.pc \in Places
      BY DEF Waiting, Rest, Places
    <2>2. CASE HeartLook(c)
      <3>1. [Waiting("sleep", mark) EXCEPT !.pc = "plan"].pc \in Places
        BY DEF Waiting, Places
      <3> QED  BY <2>2, <3>1, MovesTo DEF HeartLook
    <2>3. CASE HeartPlan(c)
      <3>1. [caller[c] EXCEPT !.pc = "sleep"].pc \in Places
        BY Rewrites DEF SlotInv, Places
      <3> QED  BY <2>3, <3>1, MovesTo DEF HeartPlan, Goto
    <2>4. CASE HeartWake(c) \/ WakeCall(c)
      <3>1. Become(c, Rest) \/ Become(c, [Rest EXCEPT !.pc = "fire"])
        BY <2>4 DEF HeartWake, WakeCall
      <3>2. [Rest EXCEPT !.pc = "fire"].pc \in Places
        BY DEF Rest, Waiting, Places
      <3> QED  BY <2>1, <3>1, <3>2, MovesTo
    <2>5. CASE HeartSkips(c) \/ Clear(c)
      BY <2>1, <2>5, MovesTo DEF HeartSkips, Clear
    <2>6. CASE RunCall(c)
      <3>1. PICK t : Become(c, [Rest EXCEPT !.pc = "look", !.hb = mark, !.task = t,
                                            !.tries = task[t].retries])
        BY <2>6 DEF RunCall
      <3>2. [Rest EXCEPT !.pc = "look", !.hb = mark, !.task = t,
                         !.tries = task[t].retries].pc \in Places
        BY DEF Rest, Waiting, Places
      <3> QED  BY <3>1, <3>2, MovesTo
    <2> QED  BY <2>2, <2>3, <2>4, <2>5, <2>6
  <1> QED  BY <1>1, <1>2, SameTasks, PlaceStep

\* The heartbeat row is read, for a session to be stored or forgotten.
LEMMA RowReadPlace ==
  ASSUME ShapeInv, NEW c \in Callers, NEW r,
         r = RowRead(c) \/ r = [RowRead(c) EXCEPT !.result = "ended"], Become(c, r)
  PROVE  MovesOn(c)
  <1>1. RowRead(c).pc = "row" /\ [RowRead(c) EXCEPT !.result = "ended"].pc = "row"
    BY InvParts DEF RowRead, CallerStates
  <1> QED  BY <1>1, MovesTo DEF Places

LEMMA CycleSlots ==
  ASSUME SlotInv, ShapeInv', NEW c \in Callers,
         \/ FireNone(c) \/ Look(c) \/ Create(c) \/ NextTask(c) \/ CycleEnds(c)
         \/ IdleStart(c) \/ IdleEnds(c) \/ RunEnds(c) \/ Handled(c) \/ FailLease(c)
         \/ ClearSession(c) \/ IdleSession(c)
  PROVE  SlotInv'
  <1>0. ShapeInv
    BY DEF SlotInv
  <1>1. UNCHANGED <<cronVars, task>>
    BY DEF FireNone, Look, Create, NextTask, CycleEnds, IdleStart, IdleEnds,
           RunEnds, Handled, FailLease, ClearSession, IdleSession
  <1>2. ASSUME NEW pc \in Places, Goto(c, pc) PROVE MovesOn(c)
    <2> DEFINE r == [caller[c] EXCEPT !.pc = pc]
    <2>1. r.pc = pc
      BY <1>0, Rewrites
    <2>2. Become(c, r)
      BY <1>2 DEF Goto
    <2> HIDE DEF r
    <2> QED  BY <2>1, <2>2, MovesTo
  <1>3. ASSUME FireNone(c) \/ IdleStart(c) \/ FailLease(c) PROVE MovesOn(c)
    BY <1>2, <1>3 DEF FireNone, IdleStart, FailLease, Places
  <1>4. ASSUME Look(c) PROVE MovesOn(c)
    BY <1>0, <1>2, <1>4, ReturnPlace DEF Look, Places
  <1>5. ASSUME Create(c) PROVE MovesOn(c)
    <2>1. CASE Return(c)
      BY <1>0, <2>1, ReturnPlace
    <2>2. CASE Taken(c)
      <3>1. Goto(c, "start") \/ Goto(c, "next")
        BY <2>2 DEF Taken
      <3> QED  BY <1>2, <3>1 DEF Places
    <2> QED  BY <1>5, <2>1, <2>2 DEF Create
  <1>6. ASSUME NextTask(c) PROVE MovesOn(c)
    <2>1. PICK t : Become(c, [caller[c] EXCEPT !.pc = "start", !.task = t,
                                   !.tries = task[t].retries, !.seen = @ \cup {t}])
      BY <1>6 DEF NextTask
    <2>2. [caller[c] EXCEPT !.pc = "start", !.task = t, !.tries = task[t].retries,
                            !.seen = @ \cup {t}].pc = "start"
      BY <1>0, InvParts DEF CallerStates
    <2> QED  BY <2>1, <2>2, MovesTo DEF Places
  <1>7. ASSUME CycleEnds(c) \/ IdleEnds(c) PROVE MovesOn(c)
    BY <1>0, <1>7, ReturnPlace DEF CycleEnds, IdleEnds
  <1>8. ASSUME RunEnds(c) PROVE MovesOn(c)
    <2>1. PICK x : Become(c, [caller[c] EXCEPT !.pc = "check", !.result = x])
      BY <1>8 DEF RunEnds
    <2>2. [caller[c] EXCEPT !.pc = "check", !.result = x].pc = "check"
      BY <1>0, InvParts DEF CallerStates
    <2> QED  BY <2>1, <2>2, MovesTo DEF Places
  <1>9. ASSUME Handled(c) PROVE MovesOn(c)
    <2>1. AfterTask(c, c \in RunCommands) /\ (c \in RunCommands) \in BOOLEAN
      BY <1>9 DEF Handled
    <2> QED  BY <1>0, <2>1, AfterTaskPlace
  <1>10. ASSUME ClearSession(c) \/ IdleSession(c) PROVE MovesOn(c)
    BY <1>0, <1>10, RowReadPlace DEF ClearSession, IdleSession
  <1>11. MovesOn(c)
    BY <1>3, <1>4, <1>5, <1>6, <1>7, <1>8, <1>9, <1>10
  <1> QED  BY <1>1, <1>11, SameTasks, PlaceStep

LEMMA TaskSlots ==
  ASSUME SlotInv, ShapeInv', NEW c \in Callers,
         Start(c) \/ Settle(c) \/ AgentReports(c)
  PROVE  SlotInv'
  <1> DEFINE t == caller[c].task
  <1>1. ShapeInv /\ RestOK /\ Shaped(c, caller[c])
    BY InvParts DEF SlotInv
  <1>2. t \in TaskIds
    BY <1>1 DEF Start, Settle, AgentReports, At, Shaped
  <1>3. task[t] \in TaskRows
    BY <1>1, <1>2 DEF RestOK
  <1>4. UNCHANGED cronVars
    BY DEF Start, Settle, AgentReports
  <1>5. SlotsKept
    <2>1. CASE Start(c)
      <3> DEFINE n == [task[t] EXCEPT !.status = "in_progress",
                                      !.retries = caller[c].tries]
      <3>1. task' = [task EXCEPT ![t] = n]
        BY <2>1 DEF Start
      <3>2. n.slot = task[t].slot
        BY <1>3 DEF TaskRows
      <3> HIDE DEF n, t
      <3> QED  BY <1>1, <1>2, <3>1, <3>2, RowRewritten
    <2>2. CASE Settle(c)
      <3>1. PICK n \in Settled(c, task[t]) : task' = [task EXCEPT ![t] = n]
        BY <2>2 DEF Settle
      <3>2. n.slot = task[t].slot
        BY <1>1, <1>3, <3>1, SettledRow
      <3> HIDE DEF t
      <3> QED  BY <1>1, <1>2, <3>1, <3>2, RowRewritten
    <2>3. CASE AgentReports(c)
      <3>1. PICK n \in {Closed(task[t]), [task[t] EXCEPT !.status = "awaiting"]} :
              task' = [task EXCEPT ![t] = n]
        BY <2>3 DEF AgentReports
      <3>2. Closed(task[t]).slot = task[t].slot
        BY <1>3, ClosedRow
      <3>3. n.slot = task[t].slot
        BY <1>3, <3>1, <3>2 DEF TaskRows
      <3> HIDE DEF t
      <3> QED  BY <1>1, <1>2, <3>1, <3>3, RowRewritten
    <2> QED  BY <2>1, <2>2, <2>3
  <1>6. CASE AgentReports(c)
    <2>1. UNCHANGED <<caller, cron, editor, raced, unseen, mutex>>
      BY <1>6 DEF AgentReports, cronVars
    <2>2. \A d \in Callers : Quiet(d)
      BY <2>1 DEF Quiet
    <2> QED  BY <1>5, <2>1, <2>2, QuietStep
  <1>7. CASE Start(c)
    <2>1. MovesOn(c)
      <3>1. [caller[c] EXCEPT !.pc = "run"].pc = "run"
        BY <1>1, InvParts DEF CallerStates
      <3> QED  BY <1>7, <3>1, MovesTo DEF Start, Goto, Places
    <2> QED  BY <1>4, <1>5, <2>1, PlaceStep
  <1>8. CASE Settle(c)
    <2>1. AfterTask(c, c \in RunCommands \/ caller[c].result = "error")
      BY <1>8 DEF Settle
    <2>2. (c \in RunCommands \/ caller[c].result = "error") \in BOOLEAN
      OBVIOUS
    <2>3. MovesOn(c)
      BY <1>1, <2>1, <2>2, AfterTaskPlace
    <2> QED  BY <1>4, <1>5, <2>3, PlaceStep
  <1> QED  BY <1>6, <1>7, <1>8

\* The caller holds the list it just read: it still has the slot's task.
LEMMA GoesOnSlots ==
  ASSUME SlotInv, ShapeInv', NEW c \in Callers, GoesOn(c), UNCHANGED <<cronVars, task>>
  PROVE  SlotInv'
  <1>1. ShapeInv /\ caller[c] \in CallerStates /\ caller \in [Callers -> CallerStates]
    BY InvParts DEF SlotInv, ShapeInv, TypeOK
  <1>2. CASE Become(c, [caller[c] EXCEPT !.pc = Resumes(c), !.row = Nobody])
    <2>1. [caller[c] EXCEPT !.pc = Resumes(c), !.row = Nobody].pc \in Places
      BY <1>1, ResumesShape DEF CallerStates, Places
    <2>2. MovesOn(c)
      BY <1>2, <2>1, MovesTo
    <2> QED  BY <2>2, SameTasks, PlaceStep
  <1>3. CASE Become(c, [caller[c] EXCEPT !.pc = "save_crons", !.row = Nobody,
                                         !.saw = cron])
    <2> DEFINE r == [caller[c] EXCEPT !.pc = "save_crons", !.row = Nobody, !.saw = cron]
    <2>1. r.pc = "save_crons" /\ r.saw = cron
      BY <1>1 DEF CallerStates
    <2>2. caller' = [caller EXCEPT ![c] = r]
      BY <1>3 DEF Become
    <2> HIDE DEF r
    <2>3. caller'[c] = r /\ \A d \in Callers \ {c} : caller'[d] = caller[d]
      BY <1>1, <2>2
    <2>4. UNCHANGED <<cron, editor, raced, unseen, mutex, task>>
      BY DEF cronVars
    <2>5. \A d \in Callers : SlotRow(d)'
      <3>1. HasTask(cron.lastRun) /\ \A d \in Callers : SlotRow(d)
        BY DEF SlotInv
      <3>2. \A s : HasTask(s)' <=> HasTask(s)
        BY <2>4 DEF HasTask
      <3>3. SlotRow(c)'
        BY <2>1, <2>3, <2>4, <3>1, <3>2 DEF SlotRow, Firing, FiringPcs
      <3>4. ASSUME NEW d \in Callers \ {c} PROVE SlotRow(d)'
        BY <2>3, <2>4, <3>1 DEF SlotRow, Firing, HasTask
      <3> QED  BY <3>3, <3>4
    <2>6. OneProcess'
      <3>1. \A d \in Callers : Firing(d)' => Firing(d)
        BY <2>1, <2>3 DEF Firing, FiringPcs
      <3> QED  BY <2>4, <3>1 DEF SlotInv, OneProcess, ProcOf
    <2>7. SlotOnce' /\ HasTask(cron.lastRun)'
          /\ (editor' # Nobody => HasTask(editor.lastRun)')
      BY <2>4 DEF SlotInv, SlotOnce, HasTask
    <2> QED  BY <2>5, <2>6, <2>7 DEF SlotInv
  <1> QED  BY <1>2, <1>3 DEF GoesOn

LEMMA RowSaveSlots ==
  ASSUME SlotInv, ShapeInv', NEW c \in Callers, RowSave(c) PROVE SlotInv'
  BY GoesOnSlots DEF RowSave

LEMMA NotHandledSlots ==
  ASSUME SlotInv, ShapeInv', NEW c \in Callers, NotHandled(c) PROVE SlotInv'
  <1>1. UNCHANGED <<cronVars, task>> /\ ShapeInv
    BY DEF NotHandled, SlotInv
  <1>2. CASE GoesOn(c)
    BY <1>1, <1>2, GoesOnSlots
  <1>3. CASE Goto(c, "fail")
    <2>1. [caller[c] EXCEPT !.pc = "fail"].pc \in Places
      BY <1>1, Rewrites DEF Places
    <2>2. MovesOn(c)
      BY <1>3, <2>1, MovesTo DEF Goto
    <2> QED  BY <1>1, <2>2, SameTasks, PlaceStep
  <1>4. CASE Become(c, RowRead(c))
    <2>1. MovesOn(c)
      BY <1>1, <1>4, RowReadPlace
    <2> QED  BY <1>1, <2>1, SameTasks, PlaceStep
  <1> QED  BY <1>2, <1>3, <1>4 DEF NotHandled

\* The list written back has its task, however old it is.
LEMMA SaveCronsSlots ==
  ASSUME SlotInv, ShapeInv', NEW c \in Callers, SaveCrons(c) PROVE SlotInv'
  <1>1. /\ caller[c] \in CallerStates /\ caller \in [Callers -> CallerStates]
        /\ ShapeInv
    BY InvParts DEF SlotInv, ShapeInv, TypeOK
  <1>2. HasTask(caller[c].saw.lastRun) /\ HasTask(cron.lastRun)
    BY DEF SlotInv, SlotRow, SaveCrons, At
  <1>3. HasTask(cron'.lastRun)
    BY <1>2 DEF SaveCrons
  <1>4. editor' # Nobody => HasTask(editor'.lastRun)
    BY DEF SlotInv, SaveCrons
  <1>5. \A d \in Callers : Quiet(d)
    <2> DEFINE r == [caller[c] EXCEPT !.pc = Resumes(c), !.saw = Nobody]
    <2>1. r.pc \notin {"put", "save", "save_crons"}
      BY <1>1, ResumesShape DEF CallerStates
    <2>2. caller' = [caller EXCEPT ![c] = r] /\ mutex' = mutex
      BY DEF SaveCrons, Become
    <2> HIDE DEF r
    <2> QED  BY <1>1, <2>1, <2>2 DEF Quiet
  <1>6. SlotsKept /\ UNCHANGED <<raced, unseen>>
    BY SameTasks DEF SaveCrons
  <1> QED  BY <1>3, <1>4, <1>5, <1>6, SlotStep

\* The mutex of the process is held by nobody else.
LEMMA UnlockQuiet ==
  ASSUME SlotInv, NEW c \in Callers, Firing(c), Unlock(c),
         NEW r, Become(c, r), r.pc \notin {"put", "save", "save_crons"}
  PROVE  \A d \in Callers : Quiet(d)
  <1>1. caller \in [Callers -> CallerStates] /\ mutex \in [Procs -> Callers \cup {Nobody}]
    BY DEF SlotInv, ShapeInv, TypeOK
  <1>2. \A d \in Callers : ProcOf(d) \in Procs
    BY DEF ProcOf, Procs, Callers, Cycles, Loops
  <1>3. ASSUME NEW d \in Callers, d # c PROVE Quiet(d)
    <2>1. caller'[d] = caller[d]
      BY <1>1, <1>3 DEF Become
    <2>2. ASSUME Firing(d) PROVE mutex'[ProcOf(d)] = mutex[ProcOf(d)]
      <3>1. mutex[ProcOf(d)] = d /\ mutex[ProcOf(c)] = c
        BY <2>2 DEF SlotInv, SlotRow
      <3> QED  BY <1>1, <1>2, <1>3, <3>1 DEF Unlock
    <2> QED  BY <2>1, <2>2 DEF Quiet
  <1>4. Quiet(c)
    BY <1>1 DEF Become, Quiet
  <1> QED  BY <1>3, <1>4

\* A firing that enqueued nothing leads to one of these places.
LEMMA NothingPlace ==
  ASSUME ShapeInv, NEW c \in Callers PROVE AfterNothing(c).pc \in Places
  <1>1. caller[c] \in CallerStates
    BY InvParts
  <1> QED  BY <1>1 DEF AfterNothing, CallerStates, Places

\* A refused task leaves the slot as it was.
LEMMA FireRefusedSlots ==
  ASSUME SlotInv, ShapeInv', NEW c \in Callers, FireRefused(c) PROVE SlotInv'
  <1>1. AfterNothing(c).pc \in Places
    BY NothingPlace DEF SlotInv
  <1>2. Firing(c) /\ Unlock(c) /\ Become(c, AfterNothing(c))
    BY DEF FireRefused, Firing, FiringPcs, At
  <1>3. \A d \in Callers : Quiet(d)
    BY <1>1, <1>2, UnlockQuiet DEF Places
  <1>4. SlotsKept /\ UNCHANGED <<cron, editor, raced, unseen>>
    BY SameTasks DEF FireRefused
  <1> QED  BY <1>3, <1>4, QuietStep

\* The slot that is stored has its task.
LEMMA FireSaveSlots ==
  ASSUME SlotInv, ShapeInv', NEW c \in Callers, FireSave(c) PROVE SlotInv'
  <1> DEFINE q == [caller[c] EXCEPT !.pc = "look", !.saw = Nobody, !.due = 0,
                                    !.task = Nobody]
  <1>1. ShapeInv /\ Shaped(c, caller[c]) /\ caller[c] \in CallerStates
    BY InvParts DEF SlotInv
  <1>2. AfterNothing(c).pc \in Places
    BY <1>1, NothingPlace
  <1>3. q.pc \in Places
    BY <1>1 DEF CallerStates, Places
  <1>4. Become(c, AfterNothing(c)) \/ Become(c, q)
    BY DEF FireSave
  <1>5. Firing(c) /\ Unlock(c)
    BY DEF FireSave, Firing, FiringPcs, At
  <1> HIDE DEF q
  <1>6. \A d \in Callers : Quiet(d)
    BY <1>2, <1>3, <1>4, <1>5, UnlockQuiet DEF Places
  <1>7. HasTask(cron'.lastRun)
    <2>1. caller[c].saw \in Crons
      BY <1>1 DEF FireSave, At, Shaped
    <2>2. HasTask(caller[c].due) /\ HasTask(cron.lastRun)
      BY DEF SlotInv, SlotRow, FireSave, At
    <2> QED  BY <2>1, <2>2 DEF FireSave, Crons
  <1>8. SlotsKept /\ UNCHANGED <<editor, raced, unseen>>
    BY SameTasks DEF FireSave
  <1> QED  BY <1>6, <1>7, <1>8, SlotStep DEF SlotInv

\* A slot with a task is taken, archived or not.
LEMMA TakenHasTask ==
  ASSUME ShapeInv, NEW s \in Nat, s > 0 PROVE SlotTaken(s) <=> HasTask(s)
  BY DEF ShapeInv, SlotTaken, HasTask

\* The slot is put on the way only when no task has it or its lookup failed, and a
\* second process that fires is recorded in raced.
LEMMA FireReadSlots ==
  ASSUME SlotInv, ShapeInv', NEW c \in Callers, FireRead(c) PROVE SlotInv'
  <1>1. /\ ShapeInv /\ RestOK /\ caller[c] \in CallerStates
        /\ caller \in [Callers -> CallerStates]
        /\ mutex \in [Procs -> Callers \cup {Nobody}]
    BY InvParts DEF SlotInv, ShapeInv, TypeOK
  <1>2. \A d \in Callers : ProcOf(d) \in Procs /\ d # Nobody
    BY DEF ProcOf, Procs, Callers, Cycles, Loops
  <1>3. slot \in Nat /\ slot > 0
    BY <1>1 DEF FireRead, Due, RestOK, Crons
  <1>4. PICK p \in FiringPcs :
          /\ p = "save" => HasTask(slot)
          /\ p = "put" => slot \in unseen' \/ ~HasTask(slot)
          /\ unseen \subseteq unseen'
          /\ Become(c, [caller[c] EXCEPT !.pc = p, !.saw = cron, !.due = slot,
                                         !.task = Nobody])
    <2>1. SlotTaken(slot) <=> HasTask(slot)
      BY <1>1, <1>3, TakenHasTask
    <2>2. PICK found \in BOOLEAN :
            /\ IF found = SlotTaken(slot) THEN UNCHANGED <<left, unseen>>
               ELSE ~found /\ Event /\ unseen' = unseen \cup {slot}
            /\ Become(c, [caller[c] EXCEPT !.pc = IF found THEN "save" ELSE "put",
                                           !.saw = cron, !.due = slot, !.task = Nobody])
      BY DEF FireRead
    <2>3. SlotTaken(slot) \in BOOLEAN
      BY DEF SlotTaken
    <2> QED  BY <2>1, <2>2, <2>3 DEF FiringPcs
  <1> DEFINE r == [caller[c] EXCEPT !.pc = p, !.saw = cron, !.due = slot,
                                    !.task = Nobody]
  <1>5. r.pc = p /\ r.saw = cron /\ r.due = slot
    BY <1>1 DEF CallerStates
  <1>6. caller' = [caller EXCEPT ![c] = r]
    BY <1>4 DEF Become
  <1> HIDE DEF r
  <1>7. caller'[c] = r /\ \A d \in Callers \ {c} : caller'[d] = caller[d]
    BY <1>1, <1>6
  <1>8. /\ UNCHANGED <<cron, editor, task>> /\ mutex[ProcOf(c)] = Nobody
        /\ mutex' = [mutex EXCEPT ![ProcOf(c)] = c]
        /\ raced' = (raced \/ \E d \in Callers : Firing(d) /\ ProcOf(d) # ProcOf(c))
    BY DEF FireRead
  <1>9. \A s : HasTask(s)' <=> HasTask(s)
    BY <1>8 DEF HasTask
  <1>10. SlotRow(c)'
    BY <1>1, <1>2, <1>4, <1>5, <1>7, <1>8, <1>9
       DEF SlotInv, SlotRow, Firing, FiringPcs, ProcOf
  <1>11. ASSUME NEW d \in Callers, d # c PROVE SlotRow(d)'
    <2>1. SlotRow(d) /\ caller'[d] = caller[d]
      BY <1>7, <1>11 DEF SlotInv
    <2>2. ASSUME Firing(d) PROVE mutex'[ProcOf(d)] = d
      BY <1>1, <1>2, <1>8, <2>1, <2>2 DEF SlotRow
    <2> QED  BY <1>4, <1>8, <1>9, <2>1, <2>2 DEF SlotRow, Firing, HasTask, ProcOf
  <1>12. OneProcess'
    <2> SUFFICES ASSUME ~raced', NEW d \in Callers, NEW e \in Callers,
                        Firing(d)', Firing(e)'
                 PROVE  ProcOf(d) = ProcOf(e)
      BY DEF OneProcess, ProcOf
    <2>1. \A x \in Callers : Firing(x)' => x = c \/ Firing(x)
      BY <1>7 DEF Firing
    <2>2. \A x \in Callers : Firing(x) => ProcOf(x) = ProcOf(c)
      BY <1>8
    <2> QED  BY <2>1, <2>2
  <1>13. SlotOnce' /\ HasTask(cron.lastRun)'
         /\ (editor' # Nobody => HasTask(editor.lastRun)')
    BY <1>4, <1>8 DEF SlotInv, SlotOnce, HasTask
  <1> QED  BY <1>10, <1>11, <1>12, <1>13 DEF SlotInv

\* The new task gives the fired slot its task; nobody else was about to create
\* one, unless two processes raced, and no task had it, unless a lookup failed.
LEMMA FirePutSlots ==
  ASSUME SlotInv, ShapeInv', NEW c \in Callers, FirePut(c) PROVE SlotInv'
  <1> DEFINE n == [status |-> "pending", slot |-> caller[c].due, retries |-> 0]
  <1> DEFINE r == [caller[c] EXCEPT !.pc = "save", !.task = FreshTask]
  <1>1. /\ ShapeInv /\ RestOK /\ caller[c] \in CallerStates
        /\ caller \in [Callers -> CallerStates] /\ task \in [TaskIds -> TaskRows]
    BY InvParts DEF SlotInv, ShapeInv, TypeOK
  <1>2. FreshTask \in TaskIds /\ task[FreshTask].slot = 0
    BY <1>1, FreshIsUnused DEF FirePut, Unused, ShapeInv
  <1>3. /\ task'[FreshTask].slot = caller[c].due
        /\ \A t \in TaskIds \ {FreshTask} : task'[t] = task[t]
    BY <1>1, <1>2 DEF FirePut
  <1>4. r.pc = "save" /\ r.saw = caller[c].saw /\ r.due = caller[c].due
    BY <1>1 DEF CallerStates
  <1>5. caller'[c] = r /\ \A d \in Callers \ {c} : caller'[d] = caller[d]
    BY <1>1 DEF FirePut, Become
  <1> HIDE DEF r
  <1>6. UNCHANGED <<cron, editor, mutex, raced, unseen>> /\ caller[c].pc = "put"
    BY DEF FirePut, cronVars, At
  <1>7. \A s \in Nat : HasTask(s) => HasTask(s)'
    BY <1>2, <1>3 DEF HasTask
  <1>8. HasTask(caller[c].due)'
    BY <1>2, <1>3, <1>4, <1>5 DEF HasTask
  <1>9. Firing(c) /\ SlotRow(c)
    BY <1>6 DEF SlotInv, Firing, FiringPcs
  <1>10. raced \/ \A d \in Callers \ {c} : ~Firing(d)
    <2>1. ASSUME NEW d \in Callers, ~raced, Firing(d) PROVE d = c
      <3>1. ProcOf(d) = ProcOf(c)
        BY <1>9, <2>1 DEF SlotInv, OneProcess
      <3>2. mutex[ProcOf(d)] = d /\ mutex[ProcOf(c)] = c
        BY <1>9, <2>1 DEF SlotInv, SlotRow
      <3> QED  BY <3>1, <3>2
    <2> QED  BY <2>1
  <1>11. SlotRow(c)'
    <2>1. HasTask(caller[c].saw.lastRun)' /\ caller[c].saw = caller'[c].saw
      <3>1. HasTask(caller[c].saw.lastRun) /\ caller[c].saw \in Crons
        BY <1>1, <1>6, <1>9 DEF SlotRow, ShapeInv, Shaped
      <3> QED  BY <1>4, <1>5, <1>7, <3>1 DEF Crons
    <2>2. mutex'[ProcOf(c)] = c
      BY <1>6, <1>9 DEF SlotRow
    <2> QED  BY <1>4, <1>5, <1>8, <2>1, <2>2 DEF SlotRow, ProcOf
  <1>12. ASSUME NEW d \in Callers, d # c PROVE SlotRow(d)'
    <2>1. SlotRow(d) /\ Shaped(d, caller[d]) /\ caller'[d] = caller[d]
      BY <1>5, <1>12 DEF SlotInv, ShapeInv
    <2>2. caller[d].due \in Nat
          /\ (caller[d].pc \in {"put", "save", "save_crons"} =>
                caller[d].saw.lastRun \in Nat)
      BY <2>1 DEF Shaped, CallerStates, Crons
    <2>3. HasTask(caller[d].due) => HasTask(caller[d].due)'
      BY <1>7, <2>1, <2>2
    <2>4. caller[d].pc \in {"put", "save", "save_crons"} =>
            (HasTask(caller[d].saw.lastRun) => HasTask(caller[d].saw.lastRun)')
      BY <1>7, <2>1, <2>2
    <2>5. caller[d].pc = "put" => raced
      BY <1>10, <1>12 DEF Firing, FiringPcs
    <2> QED  BY <1>6, <2>1, <2>3, <2>4, <2>5 DEF SlotRow, Firing, ProcOf
  <1>13. OneProcess'
    <2>1. \A d \in Callers : Firing(d)' => Firing(d)
      BY <1>5, <1>9 DEF Firing
    <2> QED  BY <1>6, <2>1 DEF SlotInv, OneProcess, ProcOf
  <1>14. SlotOnce'
    <2>1. \/ raced \/ caller[c].due \in unseen
          \/ \A t \in TaskIds : task[t].slot # caller[c].due \/ caller[c].due = 0
      BY <1>6, <1>9 DEF SlotRow, HasTask
    <2>2. raced \/ \A t, u \in TaskIds :
                     task[t].slot > 0 /\ task[t].slot = task[u].slot =>
                        t = u \/ task[t].slot \in unseen
      BY DEF SlotInv, SlotOnce
    <2>3. ASSUME ~raced, NEW t \in TaskIds, NEW u \in TaskIds,
                 task'[t].slot > 0, task'[t].slot = task'[u].slot,
                 task'[t].slot \notin unseen
          PROVE  t = u
      <3>1. CASE t # FreshTask /\ u # FreshTask
        BY <1>3, <2>2, <2>3, <3>1
      <3>2. CASE t = FreshTask
        BY <1>3, <2>1, <2>3, <3>2
      <3>3. CASE u = FreshTask
        BY <1>3, <2>1, <2>3, <3>3
      <3> QED  BY <3>1, <3>2, <3>3
    <2> QED  BY <1>6, <2>3 DEF SlotOnce
  <1>15. HasTask(cron.lastRun)' /\ (editor' # Nobody => HasTask(editor.lastRun)')
    <2>1. cron.lastRun \in Nat /\ (editor # Nobody => editor.lastRun \in Nat)
      BY <1>1, SlotsAreNat
    <2>2. HasTask(cron.lastRun) => HasTask(cron.lastRun)'
      BY <1>6, <1>7, <2>1
    <2>3. editor # Nobody => (HasTask(editor.lastRun) => HasTask(editor.lastRun)')
      BY <1>6, <1>7, <2>1
    <2> QED  BY <1>6, <2>2, <2>3 DEF SlotInv
  <1> QED  BY <1>11, <1>12, <1>13, <1>14, <1>15 DEF SlotInv

\* A step of time or of people that leaves cron list, tasks' slots and callers.
LEMMA ApartSlots ==
  ASSUME SlotInv, ShapeInv', SlotsKept, UNCHANGED <<cronVars, caller>> PROVE SlotInv'
  <1>1. \A d \in Callers : Quiet(d)
    BY DEF Quiet, cronVars
  <1> QED  BY <1>1, QuietStep DEF cronVars

LEMMA EnvironmentSlots ==
  ASSUME SlotInv, ShapeInv',
         \/ Tick \/ (\E k \in Kinds : Age(k)) \/ PersonAdds \/ PersonCancels
         \/ EditRead \/ EditSave \/ SchedulerStarts \/ ServerStarts
  PROVE  SlotInv'
  <1>1. ShapeInv /\ task \in [TaskIds -> TaskRows] /\ HasTask(cron.lastRun)
    BY DEF SlotInv, ShapeInv, TypeOK
  <1>2. CASE Tick
    <2>1. \A d \in Callers : Quiet(d)
      BY <1>2 DEF Quiet, Tick
    <2> QED  BY <1>2, <2>1, SameTasks, QuietStep DEF Tick
  <1>3. CASE \/ \E k \in Kinds : Age(k)
             \/ SchedulerStarts \/ ServerStarts
    BY <1>3, SameTasks, ApartSlots DEF Age, SchedulerStarts, ServerStarts
  <1>4. CASE PersonAdds
    <2> DEFINE n == [NoTask EXCEPT !.status = "pending"]
    <2>1. FreshTask \in TaskIds /\ task[FreshTask].slot = 0
      BY <1>1, <1>4, FreshIsUnused DEF PersonAdds, Unused, ShapeInv
    <2>2. task' = [task EXCEPT ![FreshTask] = n] /\ n.slot = 0
      BY <1>4 DEF PersonAdds, NoTask
    <2> HIDE DEF n
    <2>3. SlotsKept
      BY <1>1, <2>1, <2>2, RowRewritten
    <2> QED  BY <1>4, <2>3, ApartSlots DEF PersonAdds
  <1>5. CASE PersonCancels
    <2>1. PICK t \in TaskIds : task' = [task EXCEPT ![t] = Closed(task[t])]
      BY <1>5 DEF PersonCancels
    <2>2. Closed(task[t]).slot = task[t].slot
      BY <1>1, ClosedRow
    <2>3. SlotsKept
      BY <1>1, <2>1, <2>2, RowRewritten
    <2> QED  BY <1>5, <2>3, ApartSlots DEF PersonCancels
  <1>6. CASE EditRead
    <2>1. \A d \in Callers : Quiet(d)
      BY <1>6 DEF Quiet, EditRead
    <2>2. HasTask(cron'.lastRun) /\ HasTask(editor'.lastRun)
      BY <1>1, <1>6 DEF EditRead
    <2> QED  BY <1>6, <2>1, <2>2, SameTasks, SlotStep DEF EditRead
  <1>7. CASE EditSave
    <2>1. \A d \in Callers : Quiet(d)
      BY <1>7 DEF Quiet, EditSave
    <2>2. editor \in Crons /\ HasTask(editor.lastRun)
      BY <1>7 DEF EditSave, SlotInv, ShapeInv, TypeOK
    <2>3. cron'.lastRun = editor.lastRun /\ editor' = Nobody
      BY <1>7, <2>2 DEF EditSave, Crons
    <2> QED  BY <1>7, <2>1, <2>2, <2>3, SameTasks, SlotStep DEF EditSave
  <1> QED  BY <1>2, <1>3, <1>4, <1>5, <1>6, <1>7

\* A dead process leaves no caller inside fireDueCrons.
LEMMA CrashSlots ==
  ASSUME SlotInv, ShapeInv', NEW p \in Procs, Crash(p) PROVE SlotInv'
  <1>1. /\ caller \in [Callers -> CallerStates]
        /\ mutex \in [Procs -> Callers \cup {Nobody}]
    BY DEF SlotInv, ShapeInv, TypeOK
  <1>2. \A d \in Callers : ProcOf(d) \in Procs
    BY DEF ProcOf, Procs, Callers, Cycles, Loops
  <1>3. ASSUME NEW d \in Callers PROVE Quiet(d)
    <2>1. CASE ProcOf(d) = p
      <3>1. caller'[d] = Rest
        BY <2>1 DEF Crash
      <3> QED  BY <3>1 DEF Quiet, Rest, Waiting
    <2>2. CASE ProcOf(d) # p
      <3>1. caller'[d] = Without(caller[d], p)
        BY <2>2 DEF Crash
      <3>2. /\ caller'[d].pc = caller[d].pc /\ caller'[d].saw = caller[d].saw
            /\ caller'[d].due = caller[d].due
        BY <1>1, <3>1 DEF Without, CallerStates
      <3>3. mutex'[ProcOf(d)] = mutex[ProcOf(d)]
        BY <1>1, <1>2, <2>2 DEF Crash
      <3> QED  BY <3>2, <3>3 DEF Quiet
    <2> QED  BY <2>1, <2>2
  <1> QED  BY <1>3, SameTasks, QuietStep DEF Crash

\* The first state, and every step.
LEMMA InitSlots == Init => SlotInv
  <1> SUFFICES ASSUME Init PROVE SlotInv
    OBVIOUS
  <1>1. ShapeInv
    BY InitShape
  <1>2. HasTask(cron.lastRun) /\ editor = Nobody
    BY DEF Init, HasTask
  <1>3. \A c \in Callers : caller[c].pc = "off"
    BY DEF Init, Rest, Waiting
  <1>4. SlotOnce
    BY DEF Init, SlotOnce, NoTask
  <1> QED  BY <1>1, <1>2, <1>3, <1>4 DEF SlotInv, SlotRow, OneProcess, Firing, FiringPcs

LEMMA NextSlots == ASSUME SlotInv, [Next]_vars PROVE SlotInv'
  <1>1. ShapeInv'
    BY NextShape DEF SlotInv
  <1>2. ASSUME NEW c \in Callers,
               \/ HeartLook(c) \/ HeartPlan(c) \/ HeartWake(c) \/ HeartSkips(c)
               \/ WakeCall(c) \/ RunCall(c)
               \/ AgentReports(c) \/ ClearSession(c) \/ Fire(c)
        PROVE  SlotInv'
    BY <1>1, <1>2, EntrySlots, TaskSlots, FireReadSlots, CycleSlots DEF Fire
  <1>3. ASSUME NEW c \in Callers, Step(c) PROVE SlotInv'
    BY <1>1, <1>3, FirePutSlots, FireRefusedSlots, FireSaveSlots, CycleSlots,
       TaskSlots, NotHandledSlots, SaveCronsSlots, RowSaveSlots, EntrySlots DEF Step
  <1>4. CASE UNCHANGED vars
    <2>1. UNCHANGED <<cronVars, caller>> /\ SlotsKept
      BY <1>4, SameTasks DEF vars, cronVars
    <2> QED  BY <1>1, <2>1, ApartSlots
  <1> QED  BY <1>1, <1>2, <1>3, <1>4, EnvironmentSlots, CrashSlots DEF Next

\* A calendar slot is enqueued at most once while no two processes fire crons
\* together and no lookup of its task failed: archived tasks, restarts, failed and
\* stale writes included.
THEOREM SlotEnqueuedOnce == Spec => []SlotOnce
  <1>1. SlotInv => SlotOnce
    BY DEF SlotInv
  <1> QED  BY <1>1, InitSlots, NextSlots, PTL DEF Spec

\* A slot counts as consumed only when its task exists: neither a crash nor an
\* error between the two writes, nor a stale write of the list, loses a slot.
THEOREM SlotNeverLost == Spec => []ConsumedHasTask
  <1>1. SlotInv => ConsumedHasTask
    <2> SUFFICES ASSUME SlotInv PROVE ConsumedHasTask
      OBVIOUS
    <2>1. HasTask(cron.lastRun) /\ cron.lastRun \in Nat
      BY DEF SlotInv, ShapeInv, TypeOK, Crons
    <2> QED  BY <2>1 DEF HasTask, ConsumedHasTask
  <1> QED  BY <1>1, InitSlots, NextSlots, PTL DEF Spec

-----------------------------------------------------------------------------
(* The session of a working caller. *)

\* A record of a caller that took the session of its kind and has not returned
\* it: from the creation to the release, or to the failure after an error.
Holds(r) ==
    \/ r.pc \in {"next", "start", "run", "idle", "check", "row", "save_crons"}
    \/ r.pc = "settle" /\ r.result # "error"

HoldInv ==
    /\ ShapeInv
    /\ \A c \in Callers : Holds(caller[c]) /\ c \notin robbed => lease[KindOf(c)].by = c

\* The owners of the sessions are as they were, and a caller that holds one
\* after the step held it before.
LEMMA OwnersKept ==
  ASSUME HoldInv, ShapeInv', NEW c \in Callers, NEW r, Become(c, r), UNCHANGED leaseVars,
         Holds(r) => Holds(caller[c])
  PROVE  HoldInv'
  <1>1. caller \in [Callers -> CallerStates]
    BY DEF HoldInv, ShapeInv, TypeOK
  <1>2. caller'[c] = r /\ \A d \in Callers \ {c} : caller'[d] = caller[d]
    BY <1>1 DEF Become
  <1>3. \A d \in Callers : Holds(caller'[d]) => Holds(caller[d])
    BY <1>2
  <1>4. \A d \in Callers : Holds(caller'[d]) /\ d \notin robbed' => lease'[KindOf(d)].by = d
    BY <1>3 DEF HoldInv, leaseVars
  <1> QED  BY <1>4 DEF HoldInv, Holds, KindOf

\* Every caller has a kind.
LEMMA KindIsKind == \A c : KindOf(c) \in Kinds
  BY DEF KindOf, Kinds

\* A return gives back the own session only.
LEMMA ReturnHold ==
  ASSUME HoldInv, ShapeInv', NEW c \in Callers, Return(c) PROVE HoldInv'
  <1>1. /\ ShapeInv /\ lease \in [Kinds -> Sessions]
        /\ caller \in [Callers -> CallerStates]
    BY DEF HoldInv, ShapeInv, TypeOK
  <1>2. lease' = Freed(c) /\ robbed' = robbed \ {c}
    BY DEF Return
  <1>3. PICK r : Become(c, r) /\ ~Holds(r)
    <2>1. /\ ~Holds([Rest EXCEPT !.pc = "clear"]) /\ ~Holds(Rest)
          /\ ~Holds(Waiting("sleep", caller[c].hb))
      BY DEF Rest, Waiting, Holds
    <2>2. \/ Become(c, [Rest EXCEPT !.pc = "clear"]) \/ Become(c, Rest)
          \/ Become(c, Waiting("sleep", caller[c].hb))
      BY DEF Return
    <2> QED  BY <2>1, <2>2
  <1>6. ~Holds(caller'[c]) /\ \A d \in Callers \ {c} : caller'[d] = caller[d]
    BY <1>1, <1>3 DEF Become
  <1>4. ASSUME NEW d \in Callers, d # c, Holds(caller'[d]), d \notin robbed'
        PROVE  lease'[KindOf(d)].by = d
    <2>1. lease[KindOf(d)].by = d
      BY <1>2, <1>4, <1>6 DEF HoldInv
    <2> QED  BY <1>2, <1>4, <2>1, KindIsKind DEF Freed
  <1>5. \A d \in Callers : Holds(caller'[d]) /\ d \notin robbed' => lease'[KindOf(d)].by = d
    BY <1>4, <1>6
  <1> QED  BY <1>5 DEF HoldInv, Holds, KindOf

\* One session gets a new owner, or none, and its old owner is robbed.
LEMMA RobHold ==
  ASSUME HoldInv, ShapeInv', NEW c \in Callers, NEW r, Become(c, r),
         NEW k \in Kinds, NEW s \in Sessions, lease' = [lease EXCEPT ![k] = s],
         Rob(k), Holds(r) => k = KindOf(c) /\ s.by = c
  PROVE  HoldInv'
  <1>1. /\ lease \in [Kinds -> Sessions] /\ caller \in [Callers -> CallerStates]
    BY DEF HoldInv, ShapeInv, TypeOK
  <1>2. caller'[c] = r /\ \A d \in Callers \ {c} : caller'[d] = caller[d]
    BY <1>1 DEF Become
  <1>3. ASSUME NEW d \in Callers, d # c, Holds(caller'[d]), d \notin robbed'
        PROVE  lease'[KindOf(d)].by = d
    <2>1. d \notin robbed /\ d # lease[k].by
      BY <1>3 DEF Rob
    <2>2. lease[KindOf(d)].by = d
      BY <1>2, <1>3, <2>1 DEF HoldInv
    <2>3. KindOf(d) # k
      BY <2>1, <2>2
    <2> QED  BY <1>1, <2>2, <2>3, KindIsKind
  <1>4. Holds(caller'[c]) => lease'[KindOf(c)].by = c
    BY <1>1, <1>2
  <1>5. \A d \in Callers : Holds(caller'[d]) /\ d \notin robbed' => lease'[KindOf(d)].by = d
    BY <1>3, <1>4
  <1> QED  BY <1>5 DEF HoldInv, Holds, KindOf

\* The lookup and the creation: whose session is replaced is robbed.
LEMMA LookHold == ASSUME HoldInv, ShapeInv', NEW c \in Callers, Look(c) PROVE HoldInv'
  <1>1. caller[c] \in CallerStates
    BY InvParts DEF HoldInv
  <1>2. ~Holds([caller[c] EXCEPT !.pc = "create"])
    BY <1>1 DEF CallerStates, Holds
  <1>3. CASE Return(c)
    BY <1>3, ReturnHold
  <1>4. CASE Goto(c, "create") /\ UNCHANGED leaseVars
    BY <1>2, <1>4, OwnersKept DEF Goto
  <1>5. ASSUME NEW k \in Kinds, lease' = [lease EXCEPT ![k] = NoSession], Rob(k),
               Goto(c, "create")
        PROVE  HoldInv'
    <2>1. NoSession \in Sessions
      BY DEF NoSession, Sessions
    <2> QED  BY <1>2, <1>5, <2>1, RobHold DEF Goto
  <1> QED  BY <1>3, <1>4, <1>5 DEF Look

LEMMA CreateHold == ASSUME HoldInv, ShapeInv', NEW c \in Callers, Create(c) PROVE HoldInv'
  <1> DEFINE s == [by |-> c, stale |-> FALSE]
  <1>1. CASE Return(c)
    BY <1>1, ReturnHold
  <1>2. CASE Taken(c)
    <2>1. PICK pc : Become(c, [caller[c] EXCEPT !.pc = pc])
      BY <1>2 DEF Taken, Goto
    <2>2. lease' = [lease EXCEPT ![KindOf(c)] = s] /\ Rob(KindOf(c))
      BY <1>2 DEF Taken
    <2>3. s \in Sessions /\ s.by = c
      BY DEF Sessions
    <2> HIDE DEF s
    <2> QED  BY <2>1, <2>2, <2>3, KindIsKind, RobHold
  <1> QED  BY <1>1, <1>2 DEF Create

\* Nobody, or the caller itself, owns the session that a result makes active.
LEMMA RefreshHold ==
  ASSUME HoldInv, ShapeInv', NEW c \in Callers, NEW r, Become(c, r), Holds(caller[c]),
         lease' \in {Refreshed(c), lease}, robbed' = robbed
  PROVE  HoldInv'
  <1>1. lease \in [Kinds -> Sessions] /\ caller \in [Callers -> CallerStates]
    BY DEF HoldInv, ShapeInv, TypeOK
  <1>2. \A d \in Callers : Holds(caller'[d]) => Holds(caller[d])
    BY <1>1 DEF Become
  <1>3. ASSUME NEW d \in Callers, lease[KindOf(d)].by = d PROVE lease'[KindOf(d)].by = d
    <2>1. d # Nobody
      BY DEF Callers, Cycles
    <2>2. CASE lease' = lease
      BY <1>3, <2>2
    <2>3. CASE lease' = Refreshed(c)
      BY <1>1, <1>3, <2>1, <2>3, KindIsKind DEF Refreshed
    <2> QED  BY <2>2, <2>3
  <1>4. \A d \in Callers : Holds(caller'[d]) /\ d \notin robbed' => lease'[KindOf(d)].by = d
    BY <1>2, <1>3 DEF HoldInv
  <1> QED  BY <1>4 DEF HoldInv, Holds, KindOf

LEMMA RunEndsHold ==
  ASSUME HoldInv, ShapeInv', NEW c \in Callers, RunEnds(c) \/ IdleSession(c)
  PROVE  HoldInv'
  <1>1. CASE RunEnds(c)
    <2>1. PICK x : Become(c, [caller[c] EXCEPT !.pc = "check", !.result = x])
      BY <1>1 DEF RunEnds
    <2>2. Holds(caller[c]) /\ lease' \in {Refreshed(c), lease} /\ robbed' = robbed
      BY <1>1 DEF RunEnds, At, Holds
    <2> QED  BY <2>1, <2>2, RefreshHold
  <1>2. CASE IdleSession(c)
    <2>1. Holds(caller[c]) /\ lease' \in {Refreshed(c), lease} /\ robbed' = robbed
      BY <1>2 DEF IdleSession, At, Holds
    <2> QED  BY <1>2, <2>1, RefreshHold DEF IdleSession
  <1> QED  BY <1>1, <1>2

\* An execution error gives the session back before the task is settled.
LEMMA FailLeaseHold ==
  ASSUME HoldInv, ShapeInv', NEW c \in Callers, FailLease(c) PROVE HoldInv'
  <1>1. /\ lease \in [Kinds -> Sessions] /\ caller \in [Callers -> CallerStates]
        /\ Shaped(c, caller[c]) /\ caller[c] \in CallerStates
    BY DEF HoldInv, ShapeInv, TypeOK
  <1>2. lease' = Freed(c) /\ robbed' = robbed
        /\ caller' = [caller EXCEPT ![c] = [caller[c] EXCEPT !.pc = "settle"]]
    BY DEF FailLease, Become, Goto
  <1>3. ~Holds(caller'[c])
    <2>1. caller[c].result = "error"
      BY <1>1 DEF FailLease, At, Shaped
    <2> QED  BY <1>1, <1>2, <2>1 DEF CallerStates, Holds
  <1>4. ASSUME NEW d \in Callers, d # c, Holds(caller'[d]), d \notin robbed'
        PROVE  lease'[KindOf(d)].by = d
    <2>1. lease[KindOf(d)].by = d
      BY <1>1, <1>2, <1>4 DEF HoldInv
    <2> QED  BY <1>2, <1>4, <2>1, KindIsKind DEF Freed
  <1>5. \A d \in Callers : Holds(caller'[d]) /\ d \notin robbed' => lease'[KindOf(d)].by = d
    BY <1>3, <1>4
  <1> QED  BY <1>5 DEF HoldInv, Holds, KindOf

\* What follows a task: a return, or the next task with the session kept.
LEMMA AfterTaskHold ==
  ASSUME HoldInv, ShapeInv', NEW c \in Callers, NEW over \in BOOLEAN,
         AfterTask(c, over), over \/ Holds(caller[c])
  PROVE  HoldInv'
  <1>1. CASE over
    BY <1>1, ReturnHold DEF AfterTask
  <1>2. CASE ~over
    BY <1>2, OwnersKept DEF AfterTask
  <1> QED  BY <1>1, <1>2

\* The steps that leave the sessions alone, and do not make a caller hold one.
LEMMA PlainHold ==
  ASSUME HoldInv, ShapeInv', NEW c \in Callers,
         \/ HeartLook(c) \/ HeartPlan(c) \/ HeartWake(c) \/ HeartSkips(c)
         \/ WakeCall(c) \/ RunCall(c) \/ Clear(c) \/ FireRead(c)
         \/ FireNone(c) \/ FirePut(c) \/ FireRefused(c) \/ FireSave(c)
  PROVE  HoldInv'
  <1>1. UNCHANGED leaseVars
    BY DEF HeartLook, HeartPlan, HeartWake, HeartSkips, WakeCall, RunCall, Clear,
           FireRead, FireNone, FirePut, FireRefused, FireSave
  <1>2. ShapeInv' /\ caller \in [Callers -> CallerStates] /\ caller[c] \in CallerStates
    BY DEF HoldInv, ShapeInv, TypeOK
  <1>3. \E r : Become(c, r) /\ ~Holds(r)
    <2>1. ~Holds([Waiting("sleep", mark) EXCEPT !.pc = "plan"]) /\ ~Holds(Rest)
      BY DEF Waiting, Rest, Holds
    <2>2. CASE HeartLook(c) \/ HeartSkips(c) \/ Clear(c)
      BY <2>1, <2>2 DEF HeartLook, HeartSkips, Clear
    <2>9. CASE HeartPlan(c)
      <3>1. ~Holds([caller[c] EXCEPT !.pc = "sleep"])
        BY <1>2 DEF CallerStates, Holds
      <3> QED  BY <2>9, <3>1 DEF HeartPlan, Goto
    <2>3. CASE HeartWake(c) \/ WakeCall(c)
      <3>1. ~Holds([Rest EXCEPT !.pc = "fire"])
        BY DEF Rest, Waiting, Holds
      <3> QED  BY <2>1, <2>3, <3>1 DEF HeartWake, WakeCall
    <2>4. CASE RunCall(c)
      <3>1. PICK t : Become(c, [Rest EXCEPT !.pc = "look", !.hb = mark, !.task = t,
                                            !.tries = task[t].retries])
        BY <2>4 DEF RunCall
      <3>2. ~Holds([Rest EXCEPT !.pc = "look", !.hb = mark, !.task = t,
                                !.tries = task[t].retries])
        BY DEF Rest, Waiting, Holds
      <3> QED  BY <3>1, <3>2
    <2>5. CASE FireRead(c)
      <3>1. PICK p \in {"put", "save"} :
              Become(c, [caller[c] EXCEPT !.pc = p, !.saw = cron, !.due = slot,
                                          !.task = Nobody])
        BY <2>5 DEF FireRead
      <3> DEFINE r == [caller[c] EXCEPT !.pc = p, !.saw = cron, !.due = slot,
                                        !.task = Nobody]
      <3>2. r.pc = p
        BY <1>2 DEF CallerStates
      <3>3. ~Holds(r)
        BY <3>1, <3>2 DEF Holds
      <3> HIDE DEF r
      <3> QED  BY <3>1, <3>3 DEF r
    <2>6. CASE FireNone(c)
      <3>1. ~Holds([caller[c] EXCEPT !.pc = "look"])
        BY <1>2 DEF CallerStates, Holds
      <3> QED  BY <2>6, <3>1 DEF FireNone, Goto
    <2>7. CASE FirePut(c)
      <3>1. ~Holds([caller[c] EXCEPT !.pc = "save", !.task = FreshTask])
        BY <1>2 DEF CallerStates, Holds
      <3> QED  BY <2>7, <3>1 DEF FirePut
    <2>8. CASE FireRefused(c) \/ FireSave(c)
      <3> DEFINE r == [caller[c] EXCEPT !.pc = "look", !.saw = Nobody, !.due = 0,
                                        !.task = Nobody]
      <3>1. AfterNothing(c).pc \in {"off", "sleep", "look"} /\ r.pc = "look"
        BY <1>2 DEF CallerStates, AfterNothing
      <3>2. ~Holds(AfterNothing(c)) /\ ~Holds(r)
        BY <3>1 DEF Holds
      <3>3. Become(c, AfterNothing(c)) \/ Become(c, r)
        BY <2>8 DEF FireRefused, FireSave
      <3> HIDE DEF r
      <3> QED  BY <3>2, <3>3
    <2> QED  BY <2>2, <2>3, <2>4, <2>5, <2>6, <2>7, <2>8, <2>9
  <1>4. PICK r : Become(c, r) /\ ~Holds(r)
    BY <1>3
  <1> QED  BY <1>1, <1>4, OwnersKept

\* The steps of a caller that works.
LEMMA WorkHold ==
  ASSUME HoldInv, ShapeInv', NEW c \in Callers,
         \/ NextTask(c) \/ IdleStart(c) \/ Start(c) \/ NotHandled(c) \/ SaveCrons(c)
         \/ ClearSession(c) \/ RowSave(c)
  PROVE  HoldInv'
  <1>1. UNCHANGED leaseVars /\ Holds(caller[c])
    BY DEF NextTask, IdleStart, Start, NotHandled, SaveCrons, ClearSession, RowSave,
           At, Holds
  <1>2. \E r : Become(c, r)
    BY DEF NextTask, IdleStart, Start, NotHandled, SaveCrons, ClearSession, RowSave,
           GoesOn, Goto
  <1> QED  BY <1>1, <1>2, OwnersKept

\* The ends of a cycle, of a task and of the command.
LEMMA EndHold ==
  ASSUME HoldInv, ShapeInv', NEW c \in Callers,
         CycleEnds(c) \/ IdleEnds(c) \/ Handled(c) \/ Settle(c)
  PROVE  HoldInv'
  <1>1. CASE CycleEnds(c) \/ IdleEnds(c)
    BY <1>1, ReturnHold DEF CycleEnds, IdleEnds
  <1>2. CASE Handled(c)
    <2>1. AfterTask(c, c \in RunCommands) /\ (c \in RunCommands) \in BOOLEAN
      BY <1>2 DEF Handled
    <2>2. Holds(caller[c])
      BY <1>2 DEF Handled, At, Holds
    <2> QED  BY <2>1, <2>2, AfterTaskHold
  <1>3. CASE Settle(c)
    <2> DEFINE over == c \in RunCommands \/ caller[c].result = "error"
    <2>1. AfterTask(c, over) /\ over \in BOOLEAN
      BY <1>3 DEF Settle
    <2>2. over \/ Holds(caller[c])
      BY <1>3 DEF Settle, At, Holds
    <2> HIDE DEF over
    <2> QED  BY <2>1, <2>2, AfterTaskHold
  <1> QED  BY <1>1, <1>2, <1>3

\* The callers stay where they are, and no working caller loses its session
\* without being robbed.
LEMMA ApartHold ==
  ASSUME HoldInv, ShapeInv', UNCHANGED caller,
         \A d \in Callers : d \notin robbed' =>
            d \notin robbed /\ (lease[KindOf(d)].by = d => lease'[KindOf(d)].by = d)
  PROVE  HoldInv'
  <1>1. \A d \in Callers : Holds(caller'[d]) /\ d \notin robbed' => lease'[KindOf(d)].by = d
    BY DEF HoldInv
  <1> QED  BY <1>1 DEF HoldInv, Holds, KindOf

\* Time, people, the agent, and the starts of the two servers.
LEMMA OutsideHold ==
  ASSUME HoldInv, ShapeInv',
         \/ Tick \/ (\E k \in Kinds : Age(k)) \/ PersonAdds \/ PersonCancels
         \/ EditRead \/ EditSave \/ SchedulerStarts \/ ServerStarts
         \/ (\E c \in Callers : AgentReports(c)) \/ UNCHANGED vars
  PROVE  HoldInv'
  <1>1. lease \in [Kinds -> Sessions]
    BY DEF HoldInv, ShapeInv, TypeOK
  <1>2. CASE \/ Tick \/ PersonAdds \/ PersonCancels \/ EditRead \/ EditSave
             \/ SchedulerStarts \/ (\E c \in Callers : AgentReports(c))
             \/ UNCHANGED vars
    <2>1. UNCHANGED <<leaseVars, caller>>
      BY <1>2 DEF Tick, PersonAdds, PersonCancels, EditRead, EditSave,
                  SchedulerStarts, AgentReports, vars, leaseVars
    <2> QED  BY <2>1, ApartHold DEF leaseVars
  <1>3. ASSUME NEW k \in Kinds, Age(k) PROVE HoldInv'
    <2>1. UNCHANGED <<caller, robbed>> /\ lease' = [lease EXCEPT ![k].stale = TRUE]
      BY <1>3 DEF Age
    <2>2. \A j \in Kinds : lease'[j].by = lease[j].by
      BY <1>1, <2>1 DEF Sessions
    <2> QED  BY <2>1, <2>2, KindIsKind, ApartHold
  <1>4. CASE ServerStarts
    <2>1. /\ UNCHANGED caller
          /\ robbed' = robbed \cup ({lease[k].by : k \in Kinds} \cap Callers)
      BY <1>4 DEF ServerStarts
    <2>2. \A d \in Callers : d \notin robbed' => d \notin robbed /\ lease[KindOf(d)].by # d
      BY <2>1, KindIsKind
    <2> QED  BY <2>1, <2>2, ApartHold
  <1> QED  BY <1>2, <1>3, <1>4

\* The sessions of the dead get no owner that could hold them.
LEMMA CrashHold == ASSUME HoldInv, ShapeInv', NEW p \in Procs, Crash(p) PROVE HoldInv'
  <1> DEFINE dead == {c \in Callers : ProcOf(c) = p}
  <1>1. /\ lease' = [k \in Kinds |-> IF lease[k].by \in dead
                                     THEN [lease[k] EXCEPT !.by = Gone] ELSE lease[k]]
        /\ caller' = [c \in Callers |-> IF c \in dead THEN Rest
                                        ELSE Without(caller[c], p)]
        /\ robbed' = robbed \ dead
    BY DEF Crash
  <1>2. /\ ~Holds(Rest)
        /\ \A c \in Callers : Holds(Without(caller[c], p)) => Holds(caller[c])
    <2>1. \A c \in Callers : caller[c] \in CallerStates
      BY DEF HoldInv, ShapeInv, TypeOK
    <2> QED  BY <2>1 DEF Rest, Waiting, Holds, Without, CallerStates
  <1> HIDE DEF dead
  <1>3. ASSUME NEW d \in Callers, Holds(caller'[d]), d \notin robbed'
        PROVE  lease'[KindOf(d)].by = d
    <2>1. d \notin dead /\ Holds(caller[d]) /\ d \notin robbed
      BY <1>1, <1>2, <1>3
    <2>2. lease[KindOf(d)].by = d
      BY <1>3, <2>1 DEF HoldInv
    <2> QED  BY <1>1, <2>1, <2>2, KindIsKind
  <1>4. \A d \in Callers : Holds(caller'[d]) /\ d \notin robbed' => lease'[KindOf(d)].by = d
    BY <1>3
  <1> QED  BY <1>4 DEF HoldInv, Holds, KindOf

\* Every step.
LEMMA NextHold == ASSUME HoldInv, [Next]_vars PROVE HoldInv'
  <1>1. ShapeInv'
    BY NextShape DEF HoldInv
  <1>2. ASSUME NEW c \in Callers,
               \/ HeartLook(c) \/ HeartPlan(c) \/ HeartWake(c) \/ HeartSkips(c)
               \/ WakeCall(c) \/ RunCall(c) \/ Fire(c) \/ ClearSession(c)
        PROVE  HoldInv'
    BY <1>1, <1>2, PlainHold, WorkHold DEF Fire
  <1>3. ASSUME NEW c \in Callers, Step(c) PROVE HoldInv'
    BY <1>1, <1>3, PlainHold, LookHold, CreateHold, WorkHold, EndHold, RunEndsHold,
       FailLeaseHold DEF Step
  <1> QED  BY <1>1, <1>2, <1>3, OutsideHold, CrashHold DEF Next

\* Two scheduler cycles work at once only after one of them was robbed of its
\* session: all of them need the one session of their kind.
THEOREM OverlapNeedsRobbery == Spec => []OverlapOnlyAfterRobbery
  <1>1. Init => HoldInv
    <2> SUFFICES ASSUME Init PROVE HoldInv
      OBVIOUS
    <2>1. \A c \in Callers : ~Holds(caller[c])
      BY DEF Init, Rest, Waiting, Holds
    <2> QED  BY <2>1, InitShape DEF HoldInv
  <1>2. HoldInv => OverlapOnlyAfterRobbery
    <2> SUFFICES ASSUME HoldInv, NEW c \in Cycles, NEW d \in Cycles,
                        Working(c), Working(d), {c, d} \cap robbed = {}
                 PROVE  c = d
      BY DEF OverlapOnlyAfterRobbery
    <2>1. c \in Callers /\ d \in Callers /\ KindOf(c) = KindOf(d)
      BY DEF Callers, Cycles, KindOf
    <2>2. Holds(caller[c]) /\ Holds(caller[d])
      BY DEF Working, Holds
    <2>3. lease[KindOf(c)].by = c /\ lease[KindOf(d)].by = d
      BY <2>1, <2>2 DEF HoldInv
    <2> QED  BY <2>1, <2>3
  <1> QED  BY <1>1, <1>2, NextHold, PTL DEF Spec

-----------------------------------------------------------------------------
(* Nothing is held for nobody. *)

\* A caller in this state holds its session, or held it; its process is marked.
Uses(r) == r.pc \in {"next", "start", "run", "idle", "check", "row", "save_crons",
                     "fail", "settle"}
Marks(r) == r.back = "off" /\ r.pc \notin {"off", "plan", "sleep"}
Markers == HeartLoops \cup WakeCommands

\* The mark is not newly set, unless it is put back from an older copy.
MarkStays == mark' = Nobody \/ leftover' \/ UNCHANGED <<mark, leftover>>

InUseInv == ShapeInv /\ HeldIsInUse

\* HeldIsInUse in these terms.
LEMMA InUseMeans ==
  HeldIsInUse <=>
    /\ \A p \in Procs : mutex[p] # Nobody =>
          ProcOf(mutex[p]) = p /\ caller[mutex[p]].pc \in FiringPcs
    /\ \A k \in Kinds : lease[k].by \in Callers =>
          KindOf(lease[k].by) = k /\ Uses(caller[lease[k].by])
    /\ mark # Nobody /\ ~leftover =>
          \E c \in Markers : ProcOf(c) = mark /\ Marks(caller[c])
  BY DEF HeldIsInUse, Firing, Working, Settling, Uses, Marks, Markers

\* A save of the row from an older copy.
LEMMA RestoresStays == ASSUME NEW p, Restores(p) PROVE MarkStays
  BY DEF Restores, MarkStays

\* One caller moves: what it keeps, takes or gives back is accounted for.
LEMMA InUseStep ==
  ASSUME InUseInv, ShapeInv', NEW c \in Callers, NEW r, Become(c, r),
         \A p \in Procs : mutex'[p] # Nobody =>
            \/ mutex'[p] = mutex[p] /\ (mutex[p] = c => r.pc \in FiringPcs)
            \/ mutex'[p] = c /\ p = ProcOf(c) /\ r.pc \in FiringPcs,
         \A k \in Kinds : lease'[k].by \in Callers =>
            \/ lease'[k].by = lease[k].by /\ (lease[k].by = c => Uses(r))
            \/ lease'[k].by = c /\ k = KindOf(c) /\ Uses(r),
         \/ mark' = Nobody \/ leftover'
         \/ /\ UNCHANGED <<mark, leftover>>
            /\ c \in Markers /\ Marks(caller[c]) /\ ProcOf(c) = mark => Marks(r)
         \/ mark' = ProcOf(c) /\ c \in Markers /\ Marks(r)
  PROVE  HeldIsInUse'
  <1>1. caller'[c] = r /\ \A d \in Callers \ {c} : caller'[d] = caller[d]
    BY DEF InUseInv, ShapeInv, TypeOK, Become
  <1>2. mutex \in [Procs -> Callers \cup {Nobody}] /\ Markers \subseteq Callers
    BY DEF InUseInv, ShapeInv, TypeOK, Markers, Callers, Cycles
  <1>3. ASSUME NEW p \in Procs, mutex'[p] # Nobody
        PROVE  ProcOf(mutex'[p]) = p /\ caller'[mutex'[p]].pc \in FiringPcs
    <2>1. CASE mutex'[p] = mutex[p] /\ mutex[p] # c
      <3>1. ProcOf(mutex[p]) = p /\ caller[mutex[p]].pc \in FiringPcs
        BY <1>3, <2>1, InUseMeans DEF InUseInv
      <3>2. mutex[p] \in Callers \ {c}
        BY <1>2, <1>3, <2>1
      <3> QED  BY <1>1, <2>1, <3>1, <3>2
    <2>2. CASE mutex'[p] = mutex[p] /\ mutex[p] = c
      <3>1. ProcOf(mutex[p]) = p
        BY <1>3, <2>2, InUseMeans DEF InUseInv
      <3>2. r.pc \in FiringPcs
        BY <1>3, <2>2
      <3> QED  BY <1>1, <2>2, <3>1, <3>2
    <2>3. CASE mutex'[p] = c /\ p = ProcOf(c) /\ r.pc \in FiringPcs
      BY <1>1, <2>3
    <2> QED  BY <1>3, <2>1, <2>2, <2>3
  <1>4. ASSUME NEW k \in Kinds, lease'[k].by \in Callers
        PROVE  KindOf(lease'[k].by) = k /\ Uses(caller'[lease'[k].by])
    <2>1. CASE lease'[k].by = lease[k].by /\ lease[k].by # c
      <3>1. KindOf(lease[k].by) = k /\ Uses(caller[lease[k].by])
        BY <1>4, <2>1, InUseMeans DEF InUseInv
      <3> QED  BY <1>1, <1>4, <2>1, <3>1
    <2>2. CASE lease'[k].by = lease[k].by /\ lease[k].by = c
      <3>1. KindOf(lease[k].by) = k
        BY <1>4, <2>2, InUseMeans DEF InUseInv
      <3>2. Uses(r)
        BY <1>4, <2>2
      <3> QED  BY <1>1, <2>2, <3>1, <3>2
    <2>3. CASE lease'[k].by = c /\ k = KindOf(c) /\ Uses(r)
      BY <1>1, <2>3
    <2> QED  BY <1>4, <2>1, <2>2, <2>3
  <1>5. ASSUME mark' # Nobody, ~leftover'
        PROVE  \E d \in Markers : ProcOf(d) = mark' /\ Marks(caller'[d])
    <2>1. CASE /\ UNCHANGED <<mark, leftover>>
               /\ c \in Markers /\ Marks(caller[c]) /\ ProcOf(c) = mark => Marks(r)
      <3>1. PICK d \in Markers : ProcOf(d) = mark /\ Marks(caller[d])
        BY <1>5, <2>1, InUseMeans DEF InUseInv
      <3>2. Marks(caller'[d])
        BY <1>1, <1>2, <2>1, <3>1
      <3> QED  BY <2>1, <3>1, <3>2
    <2>2. CASE mark' = ProcOf(c) /\ c \in Markers /\ Marks(r)
      BY <1>1, <2>2
    <2> QED  BY <1>5, <2>1, <2>2
  <1> QED  BY <1>3, <1>4, <1>5 DEF HeldIsInUse, Firing, Working, Settling, Uses, Marks, Markers

\* It holds on to what it has.
LEMMA KeepsOn ==
  ASSUME InUseInv, ShapeInv', NEW c \in Callers, NEW r, Become(c, r),
         UNCHANGED mutex, MarkStays,
         \A k \in Kinds : lease'[k].by \in {lease[k].by, Nobody},
         caller[c].pc \in FiringPcs => r.pc \in FiringPcs,
         Uses(caller[c]) => Uses(r),
         c \in Markers /\ Marks(caller[c]) => Marks(r)
  PROVE  HeldIsInUse'
  <1>1. \A p \in Procs : mutex[p] = c => r.pc \in FiringPcs
    BY InUseMeans DEF InUseInv
  <1>2. \A k \in Kinds : lease[k].by = c => Uses(r)
    BY InUseMeans DEF InUseInv
  <1>3. \A k \in Kinds : lease'[k].by \in Callers => lease'[k].by = lease[k].by
    BY DEF Callers, Cycles
  <1> QED  BY <1>1, <1>2, <1>3, InUseStep DEF MarkStays

\* It gives the mutex back.
LEMMA UnlocksAll ==
  ASSUME InUseInv, ShapeInv', NEW c \in Callers, NEW r, Become(c, r), Unlock(c),
         UNCHANGED <<lease, mark, leftover>>, ~Uses(caller[c]),
         c \in Markers /\ Marks(caller[c]) => Marks(r)
  PROVE  HeldIsInUse'
  <1>1. mutex \in [Procs -> Callers \cup {Nobody}]
    BY DEF InUseInv, ShapeInv, TypeOK
  <1>2. ASSUME NEW p \in Procs, mutex'[p] # Nobody
        PROVE  mutex'[p] = mutex[p] /\ mutex[p] # c
    <2>1. p # ProcOf(c) /\ mutex'[p] = mutex[p]
      BY <1>1, <1>2 DEF Unlock
    <2>2. mutex[p] # c
      BY <1>2, <2>1, InUseMeans DEF InUseInv
    <2> QED  BY <2>1, <2>2
  <1>3. \A k \in Kinds : lease[k].by # c
    BY InUseMeans DEF InUseInv
  <1> QED  BY <1>2, <1>3, InUseStep

\* It gives its session back, and is still to clear its mark.
LEMMA ReturnsAll ==
  ASSUME InUseInv, ShapeInv', NEW c \in Callers, Return(c),
         UNCHANGED <<mutex, mark, leftover>>, caller[c].pc \notin FiringPcs
  PROVE  HeldIsInUse'
  <1>1. lease \in [Kinds -> Sessions] /\ lease' = Freed(c)
    BY DEF InUseInv, ShapeInv, TypeOK, Return
  <1>2. PICK r : Become(c, r) /\ (c \in Markers /\ Marks(caller[c]) => Marks(r))
    <2>1. CASE Marked(c)
      <3>1. Marks([Rest EXCEPT !.pc = "clear"])
        BY DEF Rest, Waiting, Marks
      <3> QED  BY <2>1, <3>1 DEF Return
    <2>2. CASE ~Marked(c)
      <3>1. ~(c \in Markers /\ Marks(caller[c]))
        BY <2>2 DEF Marked, Markers, Marks
      <3>2. Become(c, Rest) \/ Become(c, Waiting("sleep", caller[c].hb))
        BY <2>2 DEF Return
      <3> QED  BY <3>1, <3>2
    <2> QED  BY <2>1, <2>2
  <1>3. \A k \in Kinds : lease'[k].by \in Callers =>
          lease'[k].by = lease[k].by /\ lease[k].by # c
    BY <1>1 DEF Freed, NoSession, Callers, Cycles
  <1>4. \A p \in Procs : mutex[p] # c
    BY InUseMeans DEF InUseInv
  <1> QED  BY <1>2, <1>3, <1>4, InUseStep

-----------------------------------------------------------------------------
\* The steps of a firing, and how a caller comes to one.
LEMMA FiringInUse ==
  ASSUME InUseInv, ShapeInv', NEW c \in Callers,
         FireRead(c) \/ FireNone(c) \/ FirePut(c) \/ FireRefused(c) \/ FireSave(c)
  PROVE  HeldIsInUse'
  <1>1. /\ caller[c] \in CallerStates /\ mutex \in [Procs -> Callers \cup {Nobody}]
        /\ ProcOf(c) \in Procs
    BY DEF InUseInv, ShapeInv, TypeOK, ProcOf, Procs, Callers, Cycles, Loops
  <1>2. CASE FireRead(c)
    <2>1. /\ mutex' = [mutex EXCEPT ![ProcOf(c)] = c]
          /\ UNCHANGED <<lease, mark, leftover>>
      BY <1>2 DEF FireRead, leaseVars
    <2>2. PICK pc \in {"put", "save"} :
            Become(c, [caller[c] EXCEPT !.pc = pc, !.saw = cron, !.due = slot,
                                        !.task = Nobody])
      BY <1>2 DEF FireRead
    <2> DEFINE r == [caller[c] EXCEPT !.pc = pc, !.saw = cron, !.due = slot,
                                      !.task = Nobody]
    <2>3. r.pc = pc /\ r.back = caller[c].back /\ Become(c, r)
      BY <1>1, <2>2 DEF CallerStates
    <2> HIDE DEF r
    <2>4. r.pc \in FiringPcs /\ (Marks(caller[c]) => Marks(r))
      BY <2>2, <2>3 DEF FiringPcs, Marks
    <2>5. ~Uses(caller[c])
      BY <1>2 DEF FireRead, MayFire, At, Uses
    <2>6. \A k \in Kinds : lease[k].by # c
      BY <2>5, InUseMeans DEF InUseInv
    <2>7. \A p \in Procs : (p = ProcOf(c) /\ mutex'[p] = c) \/ mutex'[p] = mutex[p]
      BY <1>1, <2>1
    <2> QED  BY <2>1, <2>3, <2>4, <2>6, <2>7, InUseStep
  <1>3. CASE FireNone(c)
    <2> DEFINE r == [caller[c] EXCEPT !.pc = "look"]
    <2>1. Become(c, r) /\ UNCHANGED <<lease, mutex, mark, leftover>> /\ caller[c].pc = "fire"
      BY <1>3 DEF FireNone, Goto, leaseVars, cronVars, At
    <2>2. r.pc = "look" /\ r.back = caller[c].back
      BY <1>1 DEF CallerStates
    <2> HIDE DEF r
    <2> QED  BY <2>1, <2>2, KeepsOn DEF FiringPcs, Uses, Marks, MarkStays
  <1>4. CASE FirePut(c)
    <2> DEFINE r == [caller[c] EXCEPT !.pc = "save", !.task = FreshTask]
    <2>1. Become(c, r) /\ UNCHANGED <<lease, mutex, mark, leftover>> /\ caller[c].pc = "put"
      BY <1>4 DEF FirePut, leaseVars, cronVars, At
    <2>2. r.pc = "save" /\ r.back = caller[c].back
      BY <1>1 DEF CallerStates
    <2> HIDE DEF r
    <2> QED  BY <2>1, <2>2, KeepsOn DEF FiringPcs, Uses, Marks, MarkStays
  <1>5. CASE FireRefused(c) \/ FireSave(c)
    <2> DEFINE r == [caller[c] EXCEPT !.pc = "look", !.saw = Nobody, !.due = 0,
                                      !.task = Nobody]
    <2>1. /\ Become(c, AfterNothing(c)) \/ Become(c, r)
          /\ Unlock(c) /\ UNCHANGED <<lease, mark, leftover>> /\ caller[c].pc \in FiringPcs
      BY <1>5 DEF FireRefused, FireSave, leaseVars, At, FiringPcs
    <2>2. r.pc = "look" /\ r.back = caller[c].back
      BY <1>1 DEF CallerStates
    <2>3. /\ AfterNothing(c).back = caller[c].back
          /\ \/ AfterNothing(c).pc = "look"
             \/ c \in CronLoops \/ caller[c].back = "sleep"
      BY <1>1 DEF CallerStates, AfterNothing
    <2>4. ~Uses(caller[c])
      BY <2>1 DEF FiringPcs, Uses
    <2>5. c \notin CronLoops \/ c \notin Markers
      BY DEF Markers
    <2>6. c \in Markers /\ Marks(caller[c]) => Marks(AfterNothing(c)) /\ Marks(r)
      BY <2>2, <2>3, <2>5 DEF Marks
    <2> HIDE DEF r
    <2> QED  BY <2>1, <2>4, <2>6, UnlocksAll
  <1> QED  BY <1>2, <1>3, <1>4, <1>5

\* The loops and commands begin, and mark the process as running.
LEMMA EntryInUse ==
  ASSUME InUseInv, ShapeInv', NEW c \in Callers,
         \/ HeartLook(c) \/ HeartPlan(c) \/ HeartWake(c) \/ HeartSkips(c)
         \/ WakeCall(c) \/ RunCall(c)
  PROVE  HeldIsInUse'
  <1>1. caller[c].pc \in {"off", "plan", "sleep"} /\ UNCHANGED <<lease, mutex>>
    <2>1. CASE HeartLook(c)
      BY <2>1 DEF HeartLook, At, leaseVars, cronVars
    <2>2. CASE HeartWake(c)
      BY <2>2 DEF HeartWake, At, leaseVars, cronVars
    <2>3. CASE WakeCall(c)
      BY <2>3 DEF WakeCall, At, leaseVars, cronVars
    <2>4. CASE RunCall(c)
      BY <2>4, Zenon DEF RunCall, At, leaseVars, cronVars
    <2>5. CASE HeartPlan(c)
      BY <2>5 DEF HeartPlan, At, leaseVars, cronVars
    <2>6. CASE HeartSkips(c)
      BY <2>6 DEF HeartSkips, At, leaseVars, cronVars
    <2> QED  BY <2>1, <2>2, <2>3, <2>4, <2>5, <2>6
  <1>2. caller[c].pc \notin FiringPcs /\ ~Uses(caller[c]) /\ ~Marks(caller[c])
    BY <1>1 DEF FiringPcs, Uses, Marks
  <1>3. CASE MarkStays
    <2>1. \E r : Become(c, r)
      BY Zenon DEF HeartLook, HeartPlan, HeartWake, HeartSkips, WakeCall, RunCall, Goto
    <2> QED  BY <1>1, <1>2, <1>3, <2>1, KeepsOn
  <1>4. CASE /\ c \in Markers /\ mark' = ProcOf(c)
             /\ Become(c, [Rest EXCEPT !.pc = "fire"])
    <2> DEFINE r == [Rest EXCEPT !.pc = "fire"]
    <2>1. Marks(r)
      BY DEF Rest, Waiting, Marks
    <2>2. \A p \in Procs : mutex[p] # c
      BY <1>2, InUseMeans DEF InUseInv
    <2>3. \A k \in Kinds : lease[k].by # c
      BY <1>2, InUseMeans DEF InUseInv
    <2>4. Become(c, r)
      BY <1>4
    <2> HIDE DEF r
    <2> QED  BY <1>1, <1>4, <2>1, <2>2, <2>3, <2>4, InUseStep
  <1>5. CASE HeartLook(c) \/ RunCall(c)
    <2>1. UNCHANGED <<mark, leftover>>
      BY <1>5, Zenon DEF HeartLook, RunCall
    <2> QED  BY <1>3, <2>1 DEF MarkStays
  <1>6. CASE HeartWake(c)
    <2>1. ProcOf(c) = Scheduler /\ c \in Markers
      BY <1>6 DEF HeartWake, ProcOf, Loops, Markers
    <2>2. \/ UNCHANGED <<mark, leftover>>
          \/ mark' = Scheduler /\ Become(c, [Rest EXCEPT !.pc = "fire"])
      BY <1>6 DEF HeartWake
    <2> QED  BY <1>3, <1>4, <2>1, <2>2 DEF MarkStays
  <1>7. CASE WakeCall(c)
    <2>1. ProcOf(c) = c /\ c \in Markers
      BY <1>7 DEF WakeCall, ProcOf, Loops, Markers
    <2> QED  BY <1>4, <1>7, <2>1 DEF WakeCall
  <1>8. CASE HeartPlan(c) \/ HeartSkips(c)
    <2>1. Restores(caller[c].hb) \/ UNCHANGED <<mark, leftover>>
      BY <1>8 DEF HeartPlan, HeartSkips
    <2> QED  BY <1>3, <2>1, RestoresStays DEF MarkStays
  <1> QED  BY <1>5, <1>6, <1>7, <1>8

\* The mark is cleared, or its clearing failed; whose mark it is not stays as it is.
LEMMA ClearInUse ==
  ASSUME InUseInv, ShapeInv', NEW c \in Callers, Clear(c) PROVE HeldIsInUse'
  <1>1. caller[c].pc = "clear" /\ UNCHANGED <<lease, mutex>> /\ Become(c, Rest)
    BY DEF Clear, At, leaseVars, cronVars
  <1>2. leftover \in BOOLEAN
    BY DEF InUseInv, ShapeInv, TypeOK
  <1>3. \/ mark' = Nobody \/ leftover'
        \/ UNCHANGED <<mark, leftover>> /\ ProcOf(c) # mark
    BY <1>2 DEF Clear
  <1>4. \A p \in Procs : mutex[p] # c
    BY <1>1, InUseMeans DEF InUseInv, FiringPcs
  <1>5. \A k \in Kinds : lease[k].by # c
    BY <1>1, InUseMeans DEF InUseInv, Uses
  <1> QED  BY <1>1, <1>3, <1>4, <1>5, InUseStep

\* The lookup and the insert.
LEMMA SessionInUse ==
  ASSUME InUseInv, ShapeInv', NEW c \in Callers, Look(c) \/ Create(c)
  PROVE  HeldIsInUse'
  <1>1. /\ caller[c] \in CallerStates /\ lease \in [Kinds -> Sessions]
    BY DEF InUseInv, ShapeInv, TypeOK
  <1>2. UNCHANGED <<mutex, mark, leftover>> /\ caller[c].pc \in {"look", "create"}
    BY DEF Look, Create, At, cronVars
  <1>3. caller[c].pc \notin FiringPcs /\ ~Uses(caller[c])
    BY <1>2 DEF FiringPcs, Uses
  <1>4. CASE Return(c)
    BY <1>2, <1>3, <1>4, ReturnsAll
  <1>5. ASSUME NEW pc \in {"create", "start", "next"}
        PROVE  /\ [caller[c] EXCEPT !.pc = pc].pc = pc
               /\ c \in Markers /\ Marks(caller[c]) => Marks([caller[c] EXCEPT !.pc = pc])
    BY <1>1 DEF CallerStates, Marks
  <1>6. CASE /\ Goto(c, "create")
             /\ lease' = lease \/ \E k \in Kinds : lease' = [lease EXCEPT ![k] = NoSession]
    <2>1. \A k \in Kinds : lease'[k].by \in {lease[k].by, Nobody}
      BY <1>1, <1>6 DEF NoSession
    <2>2. Become(c, [caller[c] EXCEPT !.pc = "create"])
      BY <1>6 DEF Goto
    <2> QED  BY <1>2, <1>3, <1>5, <1>6, <2>1, <2>2, KeepsOn DEF MarkStays
  <1>7. CASE Taken(c)
    <2> DEFINE pc == IF c \in RunCommands THEN "start" ELSE "next"
    <2> DEFINE r == [caller[c] EXCEPT !.pc = pc]
    <2>1. /\ lease' = [lease EXCEPT ![KindOf(c)] = [by |-> c, stale |-> FALSE]]
          /\ Become(c, r)
      BY <1>7 DEF Taken, Goto
    <2>2. pc \in {"start", "next"}
      OBVIOUS
    <2> HIDE DEF pc
    <2>3. Uses(r) /\ (c \in Markers /\ Marks(caller[c]) => Marks(r))
      BY <1>5, <2>2 DEF Uses
    <2>4. \A k \in Kinds : (k = KindOf(c) /\ lease'[k].by = c) \/ lease'[k] = lease[k]
      BY <1>1, <2>1, KindIsKind
    <2>5. \A k \in Kinds : lease[k].by # c
      BY <1>3, InUseMeans DEF InUseInv
    <2>6. \A p \in Procs : mutex[p] # c
      BY <1>3, InUseMeans DEF InUseInv
    <2> HIDE DEF r
    <2> QED  BY <1>2, <2>1, <2>3, <2>4, <2>5, <2>6, InUseStep
  <1>8. CASE Look(c)
    <2>1. \/ Return(c)
          \/ /\ Goto(c, "create")
             /\ lease' = lease \/ \E k \in Kinds : lease' = [lease EXCEPT ![k] = NoSession]
      BY <1>8 DEF Look, leaseVars
    <2> QED  BY <1>4, <1>6, <2>1
  <1>9. CASE Create(c)
    BY <1>4, <1>7, <1>9 DEF Create
  <1> QED  BY <1>8, <1>9

\* The record of a caller that goes on after a save, and of one that read the row.
LEMMA GoesOnRecord ==
  ASSUME ShapeInv, NEW c \in Callers, GoesOn(c)
  PROVE  \E r : Become(c, r) /\ Uses(r) /\ r.back = caller[c].back
  <1>1. caller[c] \in CallerStates
    BY InvParts
  <1>2. CASE Become(c, [caller[c] EXCEPT !.pc = "save_crons", !.row = Nobody,
                                         !.saw = cron])
    <2> DEFINE r == [caller[c] EXCEPT !.pc = "save_crons", !.row = Nobody, !.saw = cron]
    <2>1. Uses(r) /\ r.back = caller[c].back
      BY <1>1 DEF CallerStates, Uses
    <2> QED  BY <1>2, <2>1
  <1>3. CASE Become(c, [caller[c] EXCEPT !.pc = Resumes(c), !.row = Nobody])
    <2> DEFINE r == [caller[c] EXCEPT !.pc = Resumes(c), !.row = Nobody]
    <2>1. r.pc = Resumes(c) /\ r.back = caller[c].back
      BY <1>1 DEF CallerStates
    <2>2. Uses(r)
      BY <2>1, ResumesShape DEF Uses
    <2> QED  BY <1>3, <2>1, <2>2
  <1> QED  BY <1>2, <1>3 DEF GoesOn

LEMMA RowReadRecord ==
  ASSUME ShapeInv, NEW c \in Callers
  PROVE  /\ Uses(RowRead(c)) /\ RowRead(c).back = caller[c].back
         /\ Uses([RowRead(c) EXCEPT !.result = "ended"])
         /\ [RowRead(c) EXCEPT !.result = "ended"].back = caller[c].back
  BY InvParts DEF RowRead, CallerStates, Uses

\* The steps of a caller that works and keeps its session.
LEMMA WorkInUse ==
  ASSUME InUseInv, ShapeInv', NEW c \in Callers,
         \/ NextTask(c) \/ IdleStart(c) \/ Start(c) \/ NotHandled(c) \/ SaveCrons(c)
         \/ ClearSession(c) \/ RowSave(c)
  PROVE  HeldIsInUse'
  <1>1. caller[c] \in CallerStates /\ ShapeInv
    BY DEF InUseInv, ShapeInv, TypeOK
  <1>2. UNCHANGED <<lease, mutex>> /\ Uses(caller[c]) /\ MarkStays
    <2>1. UNCHANGED <<lease, mutex>>
      BY Zenon DEF NextTask, IdleStart, Start, NotHandled, SaveCrons, ClearSession,
                   RowSave, cronVars, leaseVars
    <2>2. caller[c].pc \in {"next", "start", "run", "idle", "check", "row", "save_crons"}
      BY Zenon DEF NextTask, IdleStart, Start, NotHandled, SaveCrons, ClearSession,
                   RowSave, At
    <2>3. ASSUME RowSave(c) PROVE MarkStays
      <3>1. Restores(caller[c].row)
        BY <2>3, Zenon DEF RowSave
      <3> QED  BY <3>1, RestoresStays
    <2>4. ASSUME \/ NextTask(c) \/ IdleStart(c) \/ Start(c) \/ NotHandled(c)
                 \/ SaveCrons(c) \/ ClearSession(c)
          PROVE  UNCHANGED <<mark, leftover>>
      BY <2>4, Zenon DEF NextTask, IdleStart, Start, NotHandled, SaveCrons, ClearSession
    <2>5. MarkStays
      BY <2>3, <2>4 DEF MarkStays
    <2> QED  BY <2>1, <2>2, <2>5 DEF Uses
  <1>3. \E r : Become(c, r) /\ Uses(r) /\ r.back = caller[c].back
    <2>1. CASE NextTask(c)
      <3>1. PICK t : Become(c, [caller[c] EXCEPT !.pc = "start", !.task = t,
                                                 !.tries = task[t].retries,
                                                 !.seen = @ \cup {t}])
        BY <2>1, Zenon DEF NextTask
      <3> DEFINE r == [caller[c] EXCEPT !.pc = "start", !.task = t,
                                        !.tries = task[t].retries, !.seen = @ \cup {t}]
      <3>2. r.pc = "start" /\ r.back = caller[c].back
        BY <1>1 DEF CallerStates
      <3>3. Become(c, r)
        BY <3>1
      <3> HIDE DEF r
      <3> QED  BY <3>2, <3>3 DEF Uses
    <2>2. CASE IdleStart(c) \/ Start(c) \/ (NotHandled(c) /\ Goto(c, "fail"))
      <3>1. PICK pc \in {"idle", "run", "fail"} : Become(c, [caller[c] EXCEPT !.pc = pc])
        BY <2>2 DEF IdleStart, Start, Goto
      <3>2. /\ [caller[c] EXCEPT !.pc = pc].pc = pc
            /\ [caller[c] EXCEPT !.pc = pc].back = caller[c].back
        BY <1>1 DEF CallerStates
      <3> QED  BY <3>1, <3>2 DEF Uses
    <2>3. CASE SaveCrons(c)
      <3> DEFINE r == [caller[c] EXCEPT !.pc = Resumes(c), !.saw = Nobody]
      <3>1. r.pc = Resumes(c) /\ r.back = caller[c].back
        BY <1>1 DEF CallerStates
      <3>2. Uses(r)
        BY <1>1, <3>1, ResumesShape DEF Uses
      <3> QED  BY <2>3, <3>1, <3>2 DEF SaveCrons
    <2>4. CASE GoesOn(c)
      BY <1>1, <2>4, GoesOnRecord
    <2>5. CASE Become(c, RowRead(c))
      BY <1>1, <2>5, RowReadRecord
    <2> QED  BY <2>1, <2>2, <2>3, <2>4, <2>5 DEF NotHandled, ClearSession, RowSave
  <1>4. PICK r : Become(c, r) /\ Uses(r) /\ r.back = caller[c].back
    BY <1>3
  <1>5. caller[c].pc \notin FiringPcs /\ (Marks(caller[c]) => Marks(r))
    BY <1>2, <1>4 DEF FiringPcs, Uses, Marks
  <1> QED  BY <1>2, <1>4, <1>5, KeepsOn

\* A run ends, which may make the caller's session active again.
LEMMA RefreshInUse ==
  ASSUME InUseInv, ShapeInv', NEW c \in Callers, NEW r, Become(c, r), UNCHANGED mutex,
         MarkStays, Uses(caller[c]), Uses(r), r.back = caller[c].back,
         lease' \in {Refreshed(c), lease}
  PROVE  HeldIsInUse'
  <1>1. lease \in [Kinds -> Sessions]
    BY DEF InUseInv, ShapeInv, TypeOK
  <1>2. Marks(caller[c]) => Marks(r)
    BY DEF Uses, Marks
  <1>3. \A k \in Kinds : lease'[k].by = lease[k].by \/ (lease'[k].by = c /\ k = KindOf(c))
    BY <1>1 DEF Refreshed
  <1>4. \A p \in Procs : mutex[p] # c
    BY InUseMeans DEF InUseInv, Uses, FiringPcs
  <1> QED  BY <1>2, <1>3, <1>4, InUseStep DEF MarkStays

\* An execution error ends the session.
LEMMA RunInUse ==
  ASSUME InUseInv, ShapeInv', NEW c \in Callers,
         RunEnds(c) \/ IdleSession(c) \/ FailLease(c)
  PROVE  HeldIsInUse'
  <1>1. /\ caller[c] \in CallerStates /\ lease \in [Kinds -> Sessions] /\ ShapeInv
    BY DEF InUseInv, ShapeInv, TypeOK
  <1>2. UNCHANGED mutex /\ Uses(caller[c])
    BY DEF RunEnds, IdleSession, FailLease, At, Uses, cronVars
  <1>3. CASE RunEnds(c)
    <2>1. PICK x : Become(c, [caller[c] EXCEPT !.pc = "check", !.result = x])
      BY <1>3, Zenon DEF RunEnds
    <2> DEFINE r == [caller[c] EXCEPT !.pc = "check", !.result = x]
    <2>2. r.pc = "check" /\ r.back = caller[c].back
      BY <1>1 DEF CallerStates
    <2>3. Uses(r)
      BY <2>2 DEF Uses
    <2>4. Become(c, r)
      BY <2>1
    <2>5. lease' \in {Refreshed(c), lease}
      BY <1>3 DEF RunEnds
    <2>6. Restores(caller[c].hb) \/ UNCHANGED <<mark, leftover>>
      BY <1>3 DEF RunEnds
    <2>7. MarkStays
      BY <2>6, RestoresStays DEF MarkStays
    <2> HIDE DEF r
    <2> QED  BY <1>2, <2>2, <2>3, <2>4, <2>5, <2>7, RefreshInUse
  <1>4. CASE IdleSession(c)
    <2>1. /\ Become(c, [RowRead(c) EXCEPT !.result = "ended"])
          /\ lease' \in {Refreshed(c), lease} /\ MarkStays
      BY <1>4 DEF IdleSession, MarkStays
    <2> QED  BY <1>1, <1>2, <2>1, RowReadRecord, RefreshInUse
  <1>5. CASE FailLease(c)
    <2> DEFINE r == [caller[c] EXCEPT !.pc = "settle"]
    <2>1. Become(c, r) /\ lease' = Freed(c) /\ MarkStays
      BY <1>5 DEF FailLease, Goto, MarkStays
    <2>2. r.pc = "settle" /\ r.back = caller[c].back
      BY <1>1 DEF CallerStates
    <2>3. Uses(r) /\ (Marks(caller[c]) => Marks(r)) /\ caller[c].pc \notin FiringPcs
      BY <1>2, <2>2 DEF Uses, Marks, FiringPcs
    <2>4. \A k \in Kinds : lease'[k].by \in {lease[k].by, Nobody}
      BY <1>1, <2>1 DEF Freed, NoSession
    <2> HIDE DEF r
    <2> QED  BY <1>2, <2>1, <2>3, <2>4, KeepsOn
  <1> QED  BY <1>3, <1>4, <1>5

\* The ends of a cycle, of a task and of the command.
LEMMA EndInUse ==
  ASSUME InUseInv, ShapeInv', NEW c \in Callers,
         CycleEnds(c) \/ IdleEnds(c) \/ Handled(c) \/ Settle(c)
  PROVE  HeldIsInUse'
  <1>1. caller[c] \in CallerStates
    BY DEF InUseInv, ShapeInv, TypeOK
  <1>2. UNCHANGED <<mutex, mark, leftover>> /\ Uses(caller[c])
    BY DEF CycleEnds, IdleEnds, Handled, Settle, At, Uses, cronVars
  <1>3. caller[c].pc \notin FiringPcs
    BY <1>2 DEF Uses, FiringPcs
  <1>4. CASE Return(c)
    BY <1>2, <1>3, <1>4, ReturnsAll
  <1>5. CASE /\ Become(c, [caller[c] EXCEPT !.pc = "next", !.task = Nobody,
                                            !.tries = 0, !.result = "none"])
             /\ UNCHANGED leaseVars
    <2> DEFINE r == [caller[c] EXCEPT !.pc = "next", !.task = Nobody,
                                      !.tries = 0, !.result = "none"]
    <2>1. r.pc = "next" /\ r.back = caller[c].back
      BY <1>1 DEF CallerStates
    <2>2. Uses(r) /\ (Marks(caller[c]) => Marks(r))
      BY <2>1 DEF Uses, Marks
    <2>3. Become(c, r) /\ UNCHANGED lease
      BY <1>5 DEF leaseVars
    <2> HIDE DEF r
    <2> QED  BY <1>2, <1>3, <2>2, <2>3, KeepsOn DEF MarkStays
  <1> QED  BY <1>4, <1>5 DEF CycleEnds, IdleEnds, Handled, Settle, AfterTask

\* Nobody moves, and nobody is given anything.
LEMMA ApartInUse ==
  ASSUME InUseInv, UNCHANGED <<caller, mutex, mark, leftover>>,
         \A k \in Kinds : lease'[k].by \in {lease[k].by, Nobody}
  PROVE  HeldIsInUse'
  <1>1. \A k \in Kinds : lease'[k].by \in Callers => lease'[k].by = lease[k].by
    BY DEF Callers, Cycles
  <1> QED  BY <1>1 DEF InUseInv, HeldIsInUse, Firing, Working, Settling, ProcOf, KindOf

\* Time, people, the agent, and the starts of the two servers.
LEMMA OutsideInUse ==
  ASSUME InUseInv,
         \/ Tick \/ (\E k \in Kinds : Age(k)) \/ PersonAdds \/ PersonCancels
         \/ EditRead \/ EditSave \/ SchedulerStarts \/ ServerStarts
         \/ (\E c \in Callers : AgentReports(c)) \/ UNCHANGED vars
  PROVE  HeldIsInUse'
  <1>1. lease \in [Kinds -> Sessions]
    BY DEF InUseInv, ShapeInv, TypeOK
  <1>2. UNCHANGED <<caller, mutex, mark, leftover>>
    BY DEF Tick, Age, PersonAdds, PersonCancels, EditRead, EditSave, SchedulerStarts,
           ServerStarts, AgentReports, vars, cronVars
  <1>3. \/ lease' = lease
        \/ \E k \in Kinds : lease' = [lease EXCEPT ![k].stale = TRUE]
        \/ lease' = [k \in Kinds |-> NoSession]
    BY DEF Tick, Age, PersonAdds, PersonCancels, EditRead, EditSave, SchedulerStarts,
           ServerStarts, AgentReports, vars, leaseVars
  <1>4. \A k \in Kinds : lease'[k].by \in {lease[k].by, Nobody}
    <2>1. ASSUME NEW k \in Kinds, lease' = [lease EXCEPT ![k].stale = TRUE]
          PROVE  \A j \in Kinds : lease'[j].by = lease[j].by
      BY <1>1, <2>1 DEF Sessions
    <2> QED  BY <1>3, <2>1 DEF NoSession
  <1> QED  BY <1>2, <1>4, ApartInUse

\* The dead hold nothing: their sessions have no caller, their mark is no one's.
LEMMA CrashInUse ==
  ASSUME InUseInv, ShapeInv', NEW p \in Procs, Crash(p) PROVE HeldIsInUse'
  <1> DEFINE dead == {c \in Callers : ProcOf(c) = p}
  <1>1. /\ lease' = [k \in Kinds |-> IF lease[k].by \in dead
                                     THEN [lease[k] EXCEPT !.by = Gone] ELSE lease[k]]
        /\ caller' = [c \in Callers |-> IF c \in dead THEN Rest
                                        ELSE Without(caller[c], p)]
        /\ mutex' = [mutex EXCEPT ![p] = Nobody]
        /\ mark' = IF mark = p THEN Nobody ELSE mark
        /\ leftover' = (leftover /\ mark # p)
    BY DEF Crash
  <1>2. /\ lease \in [Kinds -> Sessions] /\ mutex \in [Procs -> Callers \cup {Nobody}]
        /\ Markers \subseteq Callers
    BY DEF InUseInv, ShapeInv, TypeOK, Markers, Callers, Cycles
  <1>3. \A c \in Callers : ProcOf(c) # p =>
          caller'[c].pc = caller[c].pc /\ caller'[c].back = caller[c].back
    <2>1. \A c \in Callers : caller[c] \in CallerStates
      BY DEF InUseInv, ShapeInv, TypeOK
    <2>2. \A c \in Callers : ProcOf(c) # p => caller'[c] = Without(caller[c], p)
      BY <1>1
    <2>3. ASSUME NEW c \in Callers
          PROVE  /\ Without(caller[c], p).pc = caller[c].pc
                 /\ Without(caller[c], p).back = caller[c].back
      BY <2>1 DEF Without, CallerStates
    <2> QED  BY <2>2, <2>3
  <1>4. ASSUME NEW q \in Procs, mutex'[q] # Nobody
        PROVE  ProcOf(mutex'[q]) = q /\ caller'[mutex'[q]].pc \in FiringPcs
    <2>1. q # p /\ mutex'[q] = mutex[q] /\ mutex[q] \in Callers
      BY <1>1, <1>2, <1>4
    <2>2. ProcOf(mutex[q]) = q /\ caller[mutex[q]].pc \in FiringPcs
      BY <1>4, <2>1, InUseMeans DEF InUseInv
    <2> QED  BY <1>3, <2>1, <2>2
  <1>5. ASSUME NEW k \in Kinds, lease'[k].by \in Callers
        PROVE  KindOf(lease'[k].by) = k /\ Uses(caller'[lease'[k].by])
    <2>1. lease'[k].by = lease[k].by /\ lease[k].by \notin dead
      BY <1>1, <1>2, <1>5 DEF Sessions
    <2>2. KindOf(lease[k].by) = k /\ Uses(caller[lease[k].by])
      BY <1>5, <2>1, InUseMeans DEF InUseInv
    <2> QED  BY <1>3, <1>5, <2>1, <2>2 DEF Uses
  <1>6. ASSUME mark' # Nobody, ~leftover'
        PROVE  \E d \in Markers : ProcOf(d) = mark' /\ Marks(caller'[d])
    <2>1. mark' = mark /\ mark # p /\ ~leftover
      BY <1>1, <1>6
    <2>2. PICK d \in Markers : ProcOf(d) = mark /\ Marks(caller[d])
      BY <1>6, <2>1, InUseMeans DEF InUseInv
    <2> QED  BY <1>2, <1>3, <2>1, <2>2 DEF Marks
  <1> QED  BY <1>4, <1>5, <1>6 DEF HeldIsInUse, Firing, Working, Settling, Uses, Marks, Markers

\* Nothing is held for nobody: errors, refusals, crashes and stolen or revived
\* sessions leave no mutex locked, and no session of a live caller that will not be
\* released (fireDueCrons, acquireCLIInteraction).  A mark that keeps a heartbeat
\* or a wakeup from running (isAlreadyRunning) is in the row without its cycle only
\* when a save of the whole row put it back or its clearing failed.
THEOREM NothingHeldForNobody == Spec => []HeldIsInUse
  <1>1. Init => InUseInv
    <2> SUFFICES ASSUME Init PROVE HeldIsInUse
      BY InitShape DEF InUseInv
    <2> QED  BY DEF Init, HeldIsInUse, NoSession, Callers, Cycles
  <1>2. ASSUME InUseInv, [Next]_vars PROVE InUseInv'
    <2>1. ShapeInv'
      BY <1>2, NextShape DEF InUseInv
    <2>2. ASSUME NEW c \in Callers,
                 \/ HeartLook(c) \/ HeartPlan(c) \/ HeartWake(c) \/ HeartSkips(c)
                 \/ WakeCall(c) \/ RunCall(c) \/ Fire(c) \/ ClearSession(c)
          PROVE  HeldIsInUse'
      BY <1>2, <2>1, <2>2, EntryInUse, FiringInUse, WorkInUse DEF Fire
    <2>3. ASSUME NEW c \in Callers, Step(c) PROVE HeldIsInUse'
      BY <1>2, <2>1, <2>3, FiringInUse, SessionInUse, WorkInUse, RunInUse, EndInUse,
         ClearInUse DEF Step
    <2>4. HeldIsInUse'
      BY <1>2, <2>1, <2>2, <2>3, OutsideInUse, CrashInUse DEF Next
    <2> QED  BY <2>1, <2>4 DEF InUseInv
  <1> QED  BY <1>1, <1>2, PTL DEF Spec, InUseInv
=============================================================================
