----------------------- MODULE AttentionWakeupProofs -----------------------
(***************************************************************************)
(* No signal is marked seen for nothing, a final one stays final, the      *)
(* wakeup of a pending one is handed on, and one is final unseen only      *)
(* through a stale copy of a task: for any number of signals, requests,    *)
(* runs, tasks and faults.                                                 *)
(***************************************************************************)
EXTENDS AttentionWakeup, TLAPS

USE SignalsAssumption, TasksAssumption, FaultsAssumption

\* A goroutine that is well typed, has the task it needs and will mark only
\* signals that its record quotes or that have been delivered.
GoodRequest(g) ==
  /\ g \in Goroutines
  /\ g.pc \in {"start", "queue"} => g.task \in Tasks
  /\ g.pc \in {"write", "start", "queue"} => g.ids \subseteq g.copy.ids
  /\ g.pc = "mark" => \A s \in g.ids : delivered[s] # "no"

\* A run that is well typed and has the task it needs.
GoodRun(row) ==
  /\ row \in RunRows
  /\ row.stage \notin {"none", "closing", "asking"} => row.task \in Tasks

LEMMA RunsGood == ASSUME WakeupInv, NEW r \in Runs PROVE GoodRun(run[r])
  BY DEF WakeupInv, TypeOK, GoodRun

LEMMA RequestsGood == ASSUME WakeupInv, NEW q \in Requests PROVE GoodRequest(req[q])
  BY DEF WakeupInv, TypeOK, GoodRequest

\* What a step has to leave right.
LEMMA StepKeepsInv ==
  ASSUME WakeupInv,
         signal' \in [Signals -> Statuses], task' \in [Tasks -> TaskRows],
         run' \in [Runs -> RunRows], \A r \in Runs : GoodRun(run'[r]), recovering' \in BOOLEAN,
         delivered' \in [Signals -> {"no", "queued", "agent"}],
         lost' \subseteq Signals, faults' \in 0 .. MaxFaults,
         req' \in [Requests -> Goroutines],
         \A q \in Requests : GoodRequest(req'[q]),
         \A s \in Signals : delivered[s] # "no" => delivered'[s] # "no",
         \A s \in Signals : signal'[s] = "seen" => signal[s] = "seen" \/ delivered'[s] # "no"
  PROVE  WakeupInv'
<1>1. TypeOK'
  BY DEF TypeOK
<1>2. ASSUME NEW q \in Requests
      PROVE  /\ req'[q].pc \in {"start", "queue"} => req'[q].task \in Tasks
             /\ req'[q].pc \in {"write", "start", "queue"} => req'[q].ids \subseteq req'[q].copy.ids
             /\ req'[q].pc = "mark" => \A s \in req'[q].ids : delivered'[s] # "no"
  <2>1. GoodRequest(req'[q])
    OBVIOUS
  <2>2. req'[q].ids \subseteq Signals
    BY <2>1 DEF GoodRequest, Goroutines
  <2> QED  BY <2>1, <2>2 DEF GoodRequest
<1>3. SeenWasQueued'
  BY DEF WakeupInv, SeenWasQueued
<1>4. \A r \in Runs : run'[r].stage \notin {"none", "closing", "asking"} => run'[r].task \in Tasks
  BY DEF GoodRun
<1> QED  BY <1>1, <1>2, <1>3, <1>4 DEF WakeupInv

\* A goroutine that moves changes its own record and at most the tasks.
LEMMA RequestMoves ==
  ASSUME WakeupInv, NEW q \in Requests, NEW g, Moves(q, g), UNCHANGED history,
         GoodRequest(g), task' \in [Tasks -> TaskRows]
  PROVE  WakeupInv'
<1>1. \A p \in Requests : GoodRequest(req[p])
  BY RequestsGood
<1>2. /\ req' = [req EXCEPT ![q] = g]
      /\ req \in [Requests -> Goroutines] /\ g \in Goroutines
  BY DEF Moves, WakeupInv, TypeOK, GoodRequest
<1>3. req' \in [Requests -> Goroutines] /\ \A p \in Requests : GoodRequest(req'[p])
  BY <1>1, <1>2
<1>4. UNCHANGED <<signal, run, recovering, faults, delivered, lost>>
  BY DEF Moves, history
<1>5. TypeOK
  BY DEF WakeupInv
<1>6. \A r \in Runs : GoodRun(run'[r])
  BY <1>4, RunsGood
<1> QED  BY <1>3, <1>4, <1>5, <1>6, StepKeepsInv DEF TypeOK

LEMMA NoRowType == NoRow \in TaskRows
  BY DEF NoRow, TaskRows

LEMMA AttentionRowType ==
  ASSUME NEW ids \in SUBSET Signals
  PROVE  AttentionRow(ids) \in TaskRows /\ AttentionRow(ids).ids = ids
  BY DEF AttentionRow, TaskRows

LEMMA NoRunType == NoRun \in RunRows
  BY NoRowType DEF NoRun, RunRows, Stages

LEMMA AtRecord ==
  ASSUME NEW pc
  PROVE  At(pc) = [pc |-> pc, focus |-> NoSignal, ids |-> {}, task |-> NoTask, copy |-> NoRow]
  BY DEF At, IdleReq

LEMMA StartRecord == At("start") \in Goroutines /\ At("start").pc = "start" /\ At("start").ids = {}
  BY AtRecord, NoRowType DEF Goroutines, ReqPcs

\* A request that holds nothing is all right wherever it stands.
LEMMA Points ==
  ASSUME NEW pc \in ReqPcs \ {"start", "queue"}
  PROVE  GoodRequest(At(pc))
  BY AtRecord, NoRowType DEF GoodRequest, Goroutines

LEMMA IdlePoint == IdleReq = At("idle") /\ GoodRequest(IdleReq)
<1>1. IdleReq = At("idle")
  BY DEF At, IdleReq
<1> QED  BY <1>1, Points DEF ReqPcs

LEMMA AskingPoint ==
  ASSUME NEW s \in Signals \cup {NoSignal}
  PROVE  GoodRequest(Asking(s))
<1>1. Asking(s) = [pc |-> "focus", focus |-> s, ids |-> {}, task |-> NoTask, copy |-> NoRow]
  BY AtRecord DEF Asking
<1> QED  BY <1>1, NoRowType DEF GoodRequest, Goroutines, ReqPcs

LEMMA GatherPoint ==
  ASSUME WakeupInv, NEW q \in Requests, NEW ids \in SUBSET Signals
  PROVE  GoodRequest(Gather(q, ids))
<1>1. req[q].focus \in Signals \cup {NoSignal}
  BY RequestsGood DEF GoodRequest, Goroutines
<1>2. At("pick") \in Goroutines /\ At("pick").pc = "pick"
  BY AtRecord, Points DEF GoodRequest, ReqPcs
<1>3. Gather(q, ids) \in Goroutines /\ Gather(q, ids).pc = "pick"
  BY <1>1, <1>2 DEF Gather, Goroutines
<1> QED  BY <1>3 DEF GoodRequest

\* The first listing of a request, and the second.
LEMMA EnsureKeepsInv ==
  ASSUME WakeupInv, NEW q \in Requests, Ensure(q)
  PROVE  WakeupInv'
<1> USE RequestsGood, Points, GatherPoint, RequestMoves
<1>t. task \in [Tasks -> TaskRows]
  BY DEF WakeupInv, TypeOK
<1>p. /\ {"check", "pending", "pick", "write"} \subseteq ReqPcs \ {"start", "queue"}
      /\ "start" \in ReqPcs
  BY DEF ReqPcs
<1>1. CASE ListFocused(q)
  <2> DEFINE s == req[q].focus
             g == IF s \notin Pending THEN At("check")
                  ELSE Gather(q, {s} \cup IF s \in IM THEN Pending \cap IM ELSE {})
  <2>1. Moves(q, g) /\ UNCHANGED task /\ UNCHANGED history
    BY <1>1 DEF ListFocused
  <2>2. s \in Pending => {s} \cup (IF s \in IM THEN Pending \cap IM ELSE {}) \subseteq Signals
    BY DEF Pending
  <2>3. GoodRequest(g)
    BY <1>p, <2>2
  <2> QED  BY <1>t, <2>1, <2>3
<1>2. CASE ListPending(q)
  <2> DEFINE g == IF Pending = {} THEN At("pending") ELSE Gather(q, Pending)
  <2>1. Moves(q, g) /\ UNCHANGED task /\ UNCHANGED history
    BY <1>2 DEF ListPending
  <2>2. Pending \in SUBSET Signals
    BY DEF Pending
  <2>3. GoodRequest(g)
    BY <1>p, <2>2
  <2> QED  BY <1>t, <2>1, <2>3
<1>3. CASE PickTask(q)
  <2>1. PICK t \in Tasks \cup {NoTask} :
          Moves(q, [req[q] EXCEPT !.pc = "write", !.task = t, !.copy = AttentionRow(req[q].ids)])
    BY <1>3 DEF PickTask, PendingTasks
  <2> DEFINE row == AttentionRow(req[q].ids)
             g == [req[q] EXCEPT !.pc = "write", !.task = t, !.copy = row]
  <2>2. req[q] \in Goroutines
    BY DEF GoodRequest
  <2>3. row \in TaskRows /\ row.ids = req[q].ids
    BY <2>2, AttentionRowType DEF Goroutines
  <2> HIDE DEF row
  <2>4. g \in Goroutines /\ g.pc = "write" /\ g.ids = req[q].ids /\ g.copy = row
    BY <2>2, <2>3, <1>p DEF Goroutines
  <2>5. GoodRequest(g)
    BY <2>3, <2>4 DEF GoodRequest
  <2> USE DEF row
  <2>6. UNCHANGED task /\ UNCHANGED history
    BY <1>3 DEF PickTask
  <2> QED  BY <1>t, <2>1, <2>5, <2>6
<1>4. CASE WriteTask(q)
  <2>1. PICK t \in Tasks :
          /\ task' = [task EXCEPT ![t] = req[q].copy]
          /\ Moves(q, IF req[q].focus # NoSignal THEN At("check")
                      ELSE [req[q] EXCEPT !.pc = "start", !.task = t])
    <3>1. req[q].task = NoTask \/ req[q].task \in Tasks
      BY DEF GoodRequest, Goroutines
    <3> QED  BY <3>1, <1>4 DEF WriteTask, Fresh
  <2> DEFINE g == [req[q] EXCEPT !.pc = "start", !.task = t]
  <2>2. req[q] \in Goroutines /\ req[q].pc = "write" /\ req[q].ids \subseteq req[q].copy.ids
    BY <1>4 DEF GoodRequest, WriteTask
  <2>3. g \in Goroutines /\ g.pc = "start" /\ g.ids = req[q].ids /\ g.copy = req[q].copy /\ g.task = t
    BY <2>2, <1>p DEF Goroutines
  <2>4. GoodRequest(g)
    BY <2>2, <2>3 DEF GoodRequest
  <2>5. task' \in [Tasks -> TaskRows]
    <3>1. req[q].copy \in TaskRows
      BY <2>2 DEF Goroutines
    <3> QED  BY <3>1, <2>1, <1>t
  <2>6. UNCHANGED history
    BY <1>4 DEF WriteTask
  <2> QED  BY <1>p, <2>1, <2>4, <2>5, <2>6
<1> QED  BY <1>1, <1>2, <1>3, <1>4 DEF Ensure

LEMMA StartPoint ==
  ASSUME NEW t \in Tasks, NEW row \in TaskRows, NEW ids \in SUBSET Signals, ids \subseteq row.ids
  PROVE  GoodRequest([At("start") EXCEPT !.task = t, !.ids = ids, !.copy = row])
<1> DEFINE g == [At("start") EXCEPT !.task = t, !.ids = ids, !.copy = row]
<1>1. g \in Goroutines /\ g.ids = ids /\ g.copy = row /\ g.pc = "start" /\ g.task = t
  BY StartRecord DEF Goroutines
<1> QED  BY <1>1 DEF GoodRequest

\* A task that is taken is copied, and its signals are not to be marked.
LEMMA TakeKeepsInv ==
  ASSUME WakeupInv, NEW q \in Requests, NEW t \in Tasks, Take(q, t), UNCHANGED <<task, history>>
  PROVE  WakeupInv'
<1> DEFINE g == [At("start") EXCEPT !.task = t, !.copy = task[t]]
<1>1. task \in [Tasks -> TaskRows] /\ task[t] \in TaskRows
  BY DEF WakeupInv, TypeOK
<1>3. g \in Goroutines /\ g.ids = {} /\ g.task = t /\ g.pc = "start"
  BY <1>1, StartRecord DEF Goroutines
<1>4. GoodRequest(g)
  BY <1>3 DEF GoodRequest
<1>5. Moves(q, g) /\ task' = task /\ UNCHANGED history
  BY DEF Take
<1>6. task' \in [Tasks -> TaskRows]
  BY <1>1, <1>5
<1> QED  BY <1>4, <1>5, <1>6, RequestMoves

\* The steps that choose a task, and the one that starts it.
LEMMA ChoiceKeepsInv ==
  ASSUME WakeupInv, NEW q \in Requests,
         \/ CheckActive(q) \/ TakeDueTask(q) \/ TakePendingTask(q) \/ NothingToDo(q)
         \/ CreateRoutineTask(q) \/ StartTask(q) \/ AllMarked(q)
  PROVE  WakeupInv'
<1>t. task \in [Tasks -> TaskRows]
  BY DEF WakeupInv, TypeOK
<1>p. {"due", "list"} \subseteq ReqPcs \ {"start", "queue"}
  BY DEF ReqPcs
<1>1. CASE CheckActive(q) \/ NothingToDo(q) \/ AllMarked(q)
  <2>1. UNCHANGED task /\ UNCHANGED history /\ (Moves(q, IdleReq) \/ Moves(q, At("due")))
    BY <1>1 DEF CheckActive, NothingToDo, AllMarked
  <2> QED  BY <1>t, <1>p, <2>1, IdlePoint, Points, RequestMoves
<1>2. CASE TakeDueTask(q)
  <2>1. UNCHANGED task /\ UNCHANGED history
        /\ (Moves(q, At("list")) \/ \E t \in Tasks : Take(q, t))
    BY <1>2 DEF TakeDueTask, PendingTasks
  <2>2. CASE Moves(q, At("list"))
    BY <1>t, <1>p, <2>1, <2>2, Points, RequestMoves
  <2> QED  BY <2>1, <2>2, TakeKeepsInv
<1>3. CASE TakePendingTask(q)
  <2>1. UNCHANGED task /\ UNCHANGED history /\ \E t \in Tasks : Take(q, t)
    BY <1>3 DEF TakePendingTask, PendingTasks
  <2> QED  BY <2>1, TakeKeepsInv
<1>4. CASE CreateRoutineTask(q)
  <2> DEFINE row == [NoRow EXCEPT !.status = "pending", !.ids = Pending]
  <2>1. PICK t \in Tasks :
          /\ task' = [task EXCEPT ![t] = row]
          /\ Moves(q, [At("start") EXCEPT !.task = t, !.ids = Pending, !.copy = row])
    BY <1>4 DEF CreateRoutineTask, Fresh
  <2>2. Pending \in SUBSET Signals
    BY DEF Pending
  <2>3. row \in TaskRows /\ row.ids = Pending
    BY <2>2, NoRowType DEF TaskRows
  <2> HIDE DEF row
  <2>4. task' \in [Tasks -> TaskRows]
    BY <1>t, <2>1, <2>3
  <2>5. UNCHANGED history
    BY <1>4 DEF CreateRoutineTask
  <2>6. GoodRequest([At("start") EXCEPT !.task = t, !.ids = Pending, !.copy = row])
    BY <2>2, <2>3, StartPoint
  <2> QED  BY <2>1, <2>4, <2>5, <2>6, RequestMoves
<1>5. CASE StartTask(q)
  <2> DEFINE row == [req[q].copy EXCEPT !.status = "in_progress"]
             g == [req[q] EXCEPT !.pc = "queue", !.copy = row]
  <2>1. req[q] \in Goroutines /\ req[q].ids \subseteq req[q].copy.ids /\ req[q].task \in Tasks
    BY <1>5, RequestsGood DEF StartTask, GoodRequest
  <2>2. row \in TaskRows /\ row.ids = req[q].copy.ids
    BY <2>1 DEF Goroutines, TaskRows
  <2> HIDE DEF row
  <2>3. g \in Goroutines /\ g.ids = req[q].ids /\ g.copy = row /\ g.pc = "queue"
        /\ g.task = req[q].task
    BY <2>1, <2>2 DEF Goroutines, ReqPcs
  <2>4. GoodRequest(g)
    BY <2>1, <2>2, <2>3 DEF GoodRequest
  <2>5. task' = [task EXCEPT ![req[q].task] = row] /\ Moves(q, g) /\ UNCHANGED history
    BY <1>5 DEF StartTask, row
  <2>6. task' \in [Tasks -> TaskRows]
    BY <1>t, <2>2, <2>5
  <2> QED  BY <2>4, <2>5, <2>6, RequestMoves
<1> QED  BY <1>1, <1>2, <1>3, <1>4, <1>5

\* One goroutine is replaced, the others stay good.
LEMMA ReplaceRequest ==
  ASSUME WakeupInv, NEW q \in Requests, NEW g, GoodRequest(g), req' = [req EXCEPT ![q] = g]
  PROVE  req' \in [Requests -> Goroutines] /\ \A p \in Requests : GoodRequest(req'[p])
<1>1. req \in [Requests -> Goroutines] /\ g \in Goroutines
  BY DEF WakeupInv, TypeOK, GoodRequest
<1> QED  BY <1>1, RequestsGood

LEMMA MarkPoint ==
  ASSUME NEW ids \in SUBSET Signals
  PROVE  /\ [At("mark") EXCEPT !.ids = ids] \in Goroutines
         /\ [At("mark") EXCEPT !.ids = ids].pc = "mark"
         /\ [At("mark") EXCEPT !.ids = ids].ids = ids
<1>1. At("mark") \in Goroutines /\ At("mark").pc = "mark"
  BY AtRecord, Points DEF GoodRequest, ReqPcs
<1> QED  BY <1>1 DEF Goroutines

\* Queueing delivers the signals that are then marked.
LEMMA QueueKeepsInv ==
  ASSUME WakeupInv, NEW q \in Requests, NEW r \in Runs, QueueRun(q, r)
  PROVE  WakeupInv'
<1> DEFINE g == [At("mark") EXCEPT !.ids = req[q].ids]
           row == [NoRun EXCEPT !.stage = "queued", !.task = req[q].task, !.ids = req[q].copy.ids]
<1>1. TypeOK
  BY DEF WakeupInv
<1>2. req[q] \in Goroutines /\ req[q].ids \subseteq req[q].copy.ids /\ req[q].task \in Tasks
  BY RequestsGood DEF QueueRun, GoodRequest
<1>3. req[q].ids \in SUBSET Signals /\ req[q].copy.ids \in SUBSET Signals
  BY <1>2 DEF Goroutines, TaskRows
<1>4. row \in RunRows /\ row.task \in Tasks
  BY <1>2, <1>3, NoRunType DEF RunRows, Stages
<1> HIDE DEF row
<1>5. run' \in [Runs -> RunRows] /\ \A x \in Runs : GoodRun(run'[x])
  <2>1. run' = [run EXCEPT ![r] = row]
    BY DEF QueueRun, row
  <2> QED  BY <1>1, <1>4, <2>1, RunsGood DEF TypeOK, GoodRun
<1>6. /\ delivered' = [s \in Signals |-> IF s \in req[q].copy.ids /\ delivered[s] = "no"
                                         THEN "queued" ELSE delivered[s]]
      /\ UNCHANGED <<signal, task, recovering, lost, faults>>
      /\ req' = [req EXCEPT ![q] = g]
  BY DEF QueueRun
<1>7. /\ delivered' \in [Signals -> {"no", "queued", "agent"}]
      /\ \A s \in Signals : delivered[s] # "no" => delivered'[s] # "no"
      /\ \A s \in req[q].ids : delivered'[s] # "no"
  BY <1>1, <1>2, <1>3, <1>6 DEF TypeOK
<1>8. g \in Goroutines /\ g.pc = "mark" /\ g.ids = req[q].ids
  BY <1>3, MarkPoint
<1> HIDE DEF g
<1>9. req' \in [Requests -> Goroutines]
  BY <1>1, <1>6, <1>8 DEF TypeOK
<1>10. TypeOK'
  BY <1>1, <1>3, <1>5, <1>6, <1>7, <1>9 DEF TypeOK
<1>11. ASSUME NEW p \in Requests
       PROVE  /\ req'[p].pc \in {"start", "queue"} => req'[p].task \in Tasks
              /\ req'[p].pc \in {"write", "start", "queue"} => req'[p].ids \subseteq req'[p].copy.ids
              /\ req'[p].pc = "mark" => \A s \in req'[p].ids : delivered'[s] # "no"
  <2>1. CASE p = q
    BY <2>1, <1>1, <1>6, <1>7, <1>8 DEF TypeOK
  <2>2. CASE p # q
    <3>1. req'[p] = req[p] /\ GoodRequest(req[p])
      BY <2>2, <1>1, <1>6, RequestsGood DEF TypeOK
    <3>2. req[p].ids \subseteq Signals
      BY <3>1 DEF GoodRequest, Goroutines
    <3> QED  BY <3>1, <3>2, <1>7 DEF GoodRequest
  <2> QED  BY <2>1, <2>2
<1>12. SeenWasQueued'
  BY <1>6, <1>7 DEF WakeupInv, SeenWasQueued
<1> QED  BY <1>5, <1>10, <1>11, <1>12 DEF WakeupInv, GoodRun

LEMMA MarkKeepsInv ==
  ASSUME WakeupInv, NEW q \in Requests, NEW s \in Signals, MarkSeen(q, s)
  PROVE  WakeupInv'
<1> DEFINE g == [req[q] EXCEPT !.ids = @ \ {s}]
<1>1. TypeOK
  BY DEF WakeupInv
<1>2. /\ req[q] \in Goroutines /\ req[q].pc = "mark"
      /\ s \in req[q].ids /\ \A p \in req[q].ids : delivered[p] # "no"
  BY RequestsGood DEF MarkSeen, GoodRequest
<1>3. g \in Goroutines /\ g.pc = "mark" /\ g.ids = req[q].ids \ {s}
  BY <1>2 DEF Goroutines
<1>4. GoodRequest(g)
  BY <1>2, <1>3 DEF GoodRequest
<1>5. req' = [req EXCEPT ![q] = g]
  BY <1>1 DEF MarkSeen, TypeOK
<1>6. /\ signal' = [signal EXCEPT ![s] = IF @ = "pending" THEN "seen" ELSE @]
      /\ UNCHANGED <<task, run, recovering, delivered, lost, faults>>
  BY DEF MarkSeen, history
<1>7. req' \in [Requests -> Goroutines] /\ \A p \in Requests : GoodRequest(req'[p])
  BY <1>4, <1>5, ReplaceRequest
<1>8. signal' \in [Signals -> Statuses]
      /\ \A p \in Signals : signal'[p] = "seen" => signal[p] = "seen" \/ delivered'[p] # "no"
  BY <1>1, <1>2, <1>6 DEF TypeOK, Statuses
<1> QED  BY <1>1, <1>6, <1>7, <1>8, RunsGood, StepKeepsInv DEF TypeOK

\* A signal that could not be marked is passed over.
LEMMA MarkFailsKeepsInv ==
  ASSUME WakeupInv, NEW q \in Requests, NEW s \in Signals, MarkFails(q, s)
  PROVE  WakeupInv'
<1> DEFINE g == [req[q] EXCEPT !.ids = @ \ {s}]
<1>1. TypeOK
  BY DEF WakeupInv
<1>2. req[q] \in Goroutines /\ req[q].pc = "mark" /\ \A p \in req[q].ids : delivered[p] # "no"
  BY RequestsGood DEF MarkFails, GoodRequest
<1>3. g \in Goroutines /\ g.pc = "mark" /\ g.ids = req[q].ids \ {s}
  BY <1>2 DEF Goroutines
<1>4. GoodRequest(g)
  BY <1>2, <1>3 DEF GoodRequest
<1>5. req' = [req EXCEPT ![q] = g]
  BY <1>1 DEF MarkFails, TypeOK
<1>6. req' \in [Requests -> Goroutines] /\ \A p \in Requests : GoodRequest(req'[p])
  BY <1>4, <1>5, ReplaceRequest
<1>7. UNCHANGED <<signal, task, run, recovering, delivered, lost>> /\ faults' \in 0 .. MaxFaults
  BY <1>1 DEF MarkFails, history, Fault, TypeOK
<1> QED  BY <1>1, <1>6, <1>7, RunsGood, StepKeepsInv DEF TypeOK

LEMMA RecoverFailsKeepsInv ==
  ASSUME WakeupInv, RecoverFails
  PROVE  WakeupInv'
<1>1. TypeOK
  BY DEF WakeupInv
<1>2. UNCHANGED <<signal, task, req, run, delivered>> /\ recovering' \in BOOLEAN /\ lost' \subseteq Signals
  BY DEF RecoverFails
<1>3. faults' \in 0 .. MaxFaults
  BY <1>1 DEF RecoverFails, TypeOK
<1> QED  BY <1>1, <1>2, <1>3, RequestsGood, RunsGood, StepKeepsInv DEF TypeOK

\* What asks for a wakeup starts a request that holds nothing.
LEMMA SourcesKeepInv ==
  ASSUME WakeupInv, NEW q \in Requests,
         \/ \E s \in Signals : Record(s, q) \/ Replay(s, q)
         \/ Heartbeat(q) \/ Wakeup(q) \/ Recover(q) \/ RequestFails(q) \/ QueueFails(q)
  PROVE  WakeupInv'
<1>1. TypeOK
  BY DEF WakeupInv
<1>2. /\ UNCHANGED <<task, run, delivered>> /\ lost' \subseteq Signals
      /\ recovering' \in BOOLEAN /\ faults' \in 0 .. MaxFaults
  <2>1. faults' = faults \/ Fault
    BY DEF Record, Replay, Heartbeat, Wakeup, Recover, RequestFails, QueueFails, Moves
  <2>2. faults' \in 0 .. MaxFaults
    BY <1>1, <2>1 DEF Fault, TypeOK
  <2> QED  BY <1>1, <2>2 DEF Record, Replay, Heartbeat, Wakeup, Recover, RequestFails, QueueFails,
                             history, TypeOK
<1>3. /\ signal' \in [Signals -> Statuses]
      /\ \A s \in Signals : signal'[s] = "seen" => signal[s] = "seen"
  BY <1>1 DEF Record, Replay, Heartbeat, Wakeup, Recover, RequestFails, QueueFails, TypeOK, Statuses
<1>4. req' = req \/ \E g : GoodRequest(g) /\ req' = [req EXCEPT ![q] = g]
  <2>1. CASE \E s \in Signals : Record(s, q) \/ Replay(s, q)
    <3>1. \E s \in Signals \cup {NoSignal} : req' = [req EXCEPT ![q] = Asking(s)]
      BY <2>1 DEF Record, Replay
    <3> QED  BY <3>1, AskingPoint
  <2>2. CASE Heartbeat(q) \/ Wakeup(q)
    BY <2>2, Points DEF Heartbeat, Wakeup, ReqPcs
  <2>3. CASE Recover(q)
    <3>1. req' = req \/ \E s \in Signals : req' = [req EXCEPT ![q] = Asking(s)]
      BY <2>3 DEF Recover, Pending
    <3> QED  BY <3>1, AskingPoint
  <2>4. CASE RequestFails(q) \/ QueueFails(q)
    BY <2>4, IdlePoint DEF RequestFails, QueueFails
  <2> QED  BY <2>1, <2>2, <2>3, <2>4
<1>5. req' \in [Requests -> Goroutines] /\ \A p \in Requests : GoodRequest(req'[p])
  <2>1. CASE req' = req
    BY <1>1, <2>1, RequestsGood DEF TypeOK
  <2> QED  BY <1>4, <2>1, ReplaceRequest
<1> QED  BY <1>1, <1>2, <1>3, <1>5, RunsGood, StepKeepsInv DEF TypeOK

\* A run that moves leaves requests and signals alone.
LEMMA RunMovesKeepsInv ==
  ASSUME WakeupInv, NEW r \in Runs, NEW row, GoodRun(row), run' = [run EXCEPT ![r] = row],
         UNCHANGED <<signal, req, recovering>>, task' \in [Tasks -> TaskRows],
         delivered' \in [Signals -> {"no", "queued", "agent"}],
         \A s \in Signals : delivered[s] # "no" => delivered'[s] # "no",
         lost' \subseteq Signals, faults' = faults \/ Fault
  PROVE  WakeupInv'
<1>1. TypeOK
  BY DEF WakeupInv
<1>2. run' \in [Runs -> RunRows] /\ \A x \in Runs : GoodRun(run'[x])
  BY <1>1, RunsGood DEF TypeOK, GoodRun
<1>3. faults' \in 0 .. MaxFaults
  BY <1>1 DEF TypeOK, Fault
<1>4. \A q \in Requests : GoodRequest(req'[q])
  BY RequestsGood
<1> QED  BY <1>1, <1>2, <1>3, <1>4, StepKeepsInv DEF TypeOK

LEMMA NoRunGood == GoodRun(NoRun)
  BY NoRunType DEF GoodRun, NoRun

LEMMA RunStepsKeepInv ==
  ASSUME WakeupInv, NEW r \in Runs,
         \/ ClaimRun(r) \/ SkipRun(r) \/ (\E ok \in BOOLEAN : ReportRun(r, ok)) \/ SettleTask(r)
         \/ WriteRun(r) \/ ReadSignalIDs(r) \/ AllClosed(r) \/ Expire(r)
         \/ RunFails(r) \/ CancelRun(r) \/ AskFails(r)
  PROVE  WakeupInv'
<1>1. /\ task \in [Tasks -> TaskRows] /\ run[r] \in RunRows /\ lost \subseteq Signals
      /\ delivered \in [Signals -> {"no", "queued", "agent"}]
  BY DEF WakeupInv, TypeOK
<1>2. run[r].ids \in SUBSET Signals /\ run[r].copy \in TaskRows /\ GoodRun(run[r])
  BY <1>1, RunsGood DEF RunRows
<1>3. /\ UNCHANGED <<signal, req, recovering>>
      /\ lost' \subseteq Signals /\ (faults' = faults \/ Fault)
  BY <1>1 DEF ClaimRun, SkipRun, ReportRun, SettleTask, WriteRun, ReadSignalIDs, AllClosed, Expire,
              RunFails, NodeDies, ReportFails, CloseFails, CancelRun, AskFails, RunMoves, history
<1>4. \E row : (GoodRun(row) /\ run' = [run EXCEPT ![r] = row])
  <2>1. ASSUME NEW stage \in Stages, run' = [run EXCEPT ![r] = [run[r] EXCEPT !.stage = stage]],
               run[r].task \in Tasks
        PROVE  \E row : (GoodRun(row) /\ run' = [run EXCEPT ![r] = row])
    <3>1. GoodRun([run[r] EXCEPT !.stage = stage])
      BY <1>1, <2>1 DEF GoodRun, RunRows
    <3> QED  BY <2>1, <3>1
  <2>2. CASE SkipRun(r) \/ CancelRun(r) \/ AskFails(r)
    BY <2>2, NoRunGood DEF SkipRun, CancelRun, AskFails, RunMoves
  <2>3. CASE ClaimRun(r) \/ Expire(r)
    <3>1. run[r].task \in Tasks
      BY <1>2, <2>3 DEF ClaimRun, Claimed, Expire, GoodRun
    <3> QED  BY <2>1, <2>3, <3>1 DEF ClaimRun, Expire, RunMoves, Stages
  <2>4. CASE NodeDies(r) \/ ReportFails(r)
    <3>1. run' = [run EXCEPT ![r] = [run[r] EXCEPT !.stage = "lost"]]
      BY <2>4 DEF NodeDies, ReportFails, WakeupInv, TypeOK
    <3>2. run[r].task \in Tasks
      BY <1>2, <2>4 DEF NodeDies, ReportFails, GoodRun
    <3> QED  BY <2>1, <3>1, <3>2 DEF Stages
  <2>5. CASE \E ok \in BOOLEAN : ReportRun(r, ok)
    <3>1. PICK ok \in BOOLEAN :
            run' = [run EXCEPT ![r] = [run[r] EXCEPT !.stage = "judged", !.ok = ok, !.copy = task[run[r].task]]]
      BY <2>5 DEF ReportRun, RunMoves
    <3>2. run[r].task \in Tasks /\ task[run[r].task] \in TaskRows
      BY <1>1, <1>2, <2>5 DEF ReportRun, GoodRun
    <3>3. GoodRun([run[r] EXCEPT !.stage = "judged", !.ok = ok, !.copy = task[run[r].task]])
      BY <1>1, <3>2 DEF GoodRun, RunRows, Stages
    <3> QED  BY <3>1, <3>3
  <2>6. CASE SettleTask(r)
    <3>1. GoodRun([run[r] EXCEPT !.stage = "settled", !.copy = NoRow])
      BY <1>1, <1>2, <2>6, NoRowType DEF SettleTask, GoodRun, RunRows, Stages
    <3> QED  BY <2>6, <3>1 DEF SettleTask, RunMoves
  <2>7. CASE WriteRun(r) \/ AllClosed(r) \/ CloseFails(r)
    <3>1. WriteRun(r) => GoodRun([run[r] EXCEPT !.stage = "over", !.ids = {}])
      BY <1>1, <1>2 DEF WriteRun, GoodRun, RunRows, Stages
    <3>2. GoodRun([NoRun EXCEPT !.stage = "asking"])
      BY NoRunType DEF GoodRun, RunRows, Stages
    <3> QED  BY <2>7, <3>1, <3>2 DEF WriteRun, AllClosed, CloseFails, RunMoves
  <2>8. CASE ReadSignalIDs(r)
    <3> DEFINE read == IF task[run[r].task].kind = "attention" THEN task[run[r].task].ids ELSE {}
    <3>1. read \in SUBSET Signals
      BY <1>1, <1>2, <2>8 DEF ReadSignalIDs, GoodRun, TaskRows
    <3>2. run' = [run EXCEPT ![r] = [NoRun EXCEPT !.stage = "closing", !.ids = read]]
      BY <2>8 DEF ReadSignalIDs, RunMoves
    <3> HIDE DEF read
    <3>3. GoodRun([NoRun EXCEPT !.stage = "closing", !.ids = read])
      BY <3>1, NoRunType DEF GoodRun, RunRows, Stages
    <3> QED  BY <3>2, <3>3
  <2> QED  BY <2>2, <2>3, <2>4, <2>5, <2>6, <2>7, <2>8 DEF RunFails
<1>5. task' \in [Tasks -> TaskRows]
  <2>1. CASE SettleTask(r)
    <3> DEFINE row == [run[r].copy EXCEPT !.status = "done"]
    <3>1. row \in TaskRows
      BY <1>2 DEF TaskRows
    <3>2. task' = task \/ task' = [task EXCEPT ![run[r].task] = row]
      BY <2>1 DEF SettleTask
    <3> HIDE DEF row
    <3> QED  BY <1>1, <3>1, <3>2
  <2>2. CASE ~SettleTask(r)
    <3>1. task' = task
      BY <2>2 DEF ClaimRun, SkipRun, ReportRun, WriteRun, ReadSignalIDs, AllClosed, Expire,
                  RunFails, NodeDies, ReportFails, CloseFails, CancelRun, AskFails
    <3> QED  BY <1>1, <3>1
  <2> QED  BY <2>1, <2>2
<1>6. /\ delivered' \in [Signals -> {"no", "queued", "agent"}]
      /\ \A s \in Signals : delivered[s] # "no" => delivered'[s] # "no"
  <2>1. CASE ClaimRun(r)
    BY <1>1, <2>1 DEF ClaimRun
  <2>2. CASE ~ClaimRun(r)
    <3>1. delivered' = delivered
      BY <2>2 DEF SkipRun, ReportRun, SettleTask, WriteRun, ReadSignalIDs, AllClosed, Expire,
                  RunFails, NodeDies, ReportFails, CloseFails, CancelRun, AskFails, history
    <3> QED  BY <1>1, <3>1
  <2> QED  BY <2>1, <2>2
<1> QED  BY <1>3, <1>4, <1>5, <1>6, RunMovesKeepsInv

\* Closing takes signals out of the ones that may be seen.
LEMMA CloseKeepsInv ==
  ASSUME WakeupInv, NEW r \in Runs, NEW s \in Signals, CloseSignal(r, s)
  PROVE  WakeupInv'
<1> DEFINE row == [run[r] EXCEPT !.ids = @ \ {s}]
<1>1. TypeOK
  BY DEF WakeupInv
<1>2. run[r] \in RunRows /\ run[r].stage = "closing"
  BY <1>1 DEF TypeOK, CloseSignal
<1>3. GoodRun(row)
  BY <1>2 DEF GoodRun, RunRows
<1>4. run' = [run EXCEPT ![r] = row] /\ signal' = [signal EXCEPT ![s] = "final"]
      /\ UNCHANGED <<task, req, recovering, faults, delivered, lost>>
  BY DEF CloseSignal, RunMoves, history
<1>5. run' \in [Runs -> RunRows] /\ \A x \in Runs : GoodRun(run'[x])
  BY <1>1, <1>3, <1>4, RunsGood DEF TypeOK, GoodRun
<1>6. signal' \in [Signals -> Statuses]
      /\ \A p \in Signals : signal'[p] = "seen" => signal[p] = "seen"
  BY <1>1, <1>4 DEF TypeOK, Statuses
<1>7. \A q \in Requests : GoodRequest(req'[q])
  BY <1>4, RequestsGood
<1> QED  BY <1>1, <1>4, <1>5, <1>6, <1>7, StepKeepsInv DEF TypeOK

LEMMA AskKeepsInv ==
  ASSUME WakeupInv, NEW r \in Runs, AskAgain(r)
  PROVE  WakeupInv'
<1>1. TypeOK
  BY DEF WakeupInv
<1>2. run' = [run EXCEPT ![r] = NoRun]
      /\ UNCHANGED <<signal, task, recovering, delivered, lost, faults>>
  BY DEF AskAgain, history
<1>3. run' \in [Runs -> RunRows] /\ \A x \in Runs : GoodRun(run'[x])
  BY <1>1, <1>2, NoRunGood, RunsGood DEF TypeOK, GoodRun
<1>4. req' \in [Requests -> Goroutines] /\ \A p \in Requests : GoodRequest(req'[p])
  <2>1. CASE req' = req
    BY <1>1, <2>1, RequestsGood DEF TypeOK
  <2>2. CASE req' # req
    <3>1. PICK q \in Requests, s \in Signals : req' = [req EXCEPT ![q] = Asking(s)]
      BY <2>2 DEF AskAgain, Pending
    <3>2. GoodRequest(Asking(s))
      BY AskingPoint
    <3> QED  BY <3>1, <3>2, ReplaceRequest
  <2> QED  BY <2>1, <2>2
<1> QED  BY <1>1, <1>2, <1>3, <1>4, StepKeepsInv DEF TypeOK

\* A restart forgets requests and reports, and takes no signal with it.
LEMMA RestartKeepsInv ==
  ASSUME WakeupInv, Restart
  PROVE  WakeupInv'
<1>1. TypeOK
  BY DEF WakeupInv
<1>2. /\ req' = [q \in Requests |-> IdleReq]
      /\ UNCHANGED <<signal, task, delivered>>
      /\ lost' = lost \cup IM /\ recovering' = TRUE /\ Fault
  BY DEF Restart
<1>3. req' \in [Requests -> Goroutines] /\ \A q \in Requests : GoodRequest(req'[q])
  BY <1>2, IdlePoint DEF GoodRequest
<1>4. run' \in [Runs -> RunRows] /\ \A r \in Runs : GoodRun(run'[r])
  <2> SUFFICES ASSUME NEW r \in Runs
               PROVE  GoodRun(IF run[r].stage \in {"judged", "settled"}
                              THEN [run[r] EXCEPT !.stage = "lost", !.copy = NoRow]
                              ELSE IF run[r].stage \in {"over", "closing", "asking"} THEN NoRun ELSE run[r])
    BY DEF Restart, GoodRun
  <2>1. GoodRun(run[r])
    BY RunsGood
  <2>2. CASE run[r].stage \in {"judged", "settled"}
    <3>1. GoodRun([run[r] EXCEPT !.stage = "lost", !.copy = NoRow])
      BY <2>1, <2>2, NoRowType DEF GoodRun, RunRows, Stages
    <3> QED  BY <2>2, <3>1
  <2>3. CASE run[r].stage \notin {"judged", "settled"}
    BY <2>1, <2>3, NoRunGood
  <2> QED  BY <2>2, <2>3
<1>5. faults' \in 0 .. MaxFaults
  BY <1>1, <1>2 DEF Fault, TypeOK
<1> QED  BY <1>1, <1>2, <1>3, <1>4, <1>5, StepKeepsInv DEF TypeOK

\* What the agent has listed counts as delivered.
LEMMA AgentKeepsInv ==
  ASSUME WakeupInv, NEW s \in Signals, AgentStep(s)
  PROVE  WakeupInv'
<1>1. TypeOK
  BY DEF WakeupInv
<1>2. UNCHANGED <<task, req, run, recovering, lost>>
  BY DEF AgentStep, AgentLists, AgentReopens, AgentSets, AgentActs
<1>3. faults' \in 0 .. MaxFaults
  BY <1>1 DEF AgentStep, AgentLists, AgentReopens, AgentSets, Fault, TypeOK
<1>4. /\ delivered' \in [Signals -> {"no", "queued", "agent"}]
      /\ \A p \in Signals : delivered[p] # "no" => delivered'[p] # "no"
  BY <1>1 DEF AgentStep, AgentLists, AgentReopens, AgentSets, TypeOK
<1>5. signal' \in [Signals -> Statuses]
  BY <1>1 DEF AgentStep, AgentLists, AgentReopens, AgentSets, TypeOK, Statuses
<1>6. \A p \in Signals : signal'[p] = "seen" => signal[p] = "seen" \/ delivered'[p] # "no"
  BY <1>1 DEF AgentStep, AgentLists, AgentReopens, AgentSets, TypeOK
<1>7. \A q \in Requests : GoodRequest(req'[q])
  BY <1>2, RequestsGood
<1> QED  BY <1>1, <1>2, <1>3, <1>4, <1>5, <1>6, <1>7, RunsGood, StepKeepsInv DEF TypeOK

LEMMA InitInv == Init => WakeupInv
<1> SUFFICES ASSUME Init PROVE WakeupInv
  OBVIOUS
<1>1. task \in [Tasks -> TaskRows]
  BY NoRowType DEF Init, NoRow, TaskRows
<1>a. req \in [Requests -> Goroutines]
  BY IdlePoint DEF Init, GoodRequest
<1>b. run \in [Runs -> RunRows]
  BY NoRunType DEF Init
<1>c. signal \in [Signals -> Statuses] /\ delivered \in [Signals -> {"no", "queued", "agent"}]
  BY DEF Init, Statuses
<1>d. faults \in 0 .. MaxFaults
  BY FaultsAssumption DEF Init
<1>e. recovering \in BOOLEAN /\ lost \subseteq Signals
  BY DEF Init
<1>2. TypeOK
  BY <1>1, <1>a, <1>b, <1>c, <1>d, <1>e DEF TypeOK
<1>3. \A q \in Requests : req[q].pc = "idle"
  BY DEF Init, IdleReq
<1>4. \A r \in Runs : run[r].stage = "none"
  BY DEF Init, NoRun
<1> QED  BY <1>2, <1>3, <1>4 DEF Init, WakeupInv, SeenWasQueued

LEMMA NextInv == WakeupInv /\ [Next]_vars => WakeupInv'
<1> SUFFICES ASSUME WakeupInv, [Next]_vars PROVE WakeupInv'
  OBVIOUS
<1>1. ASSUME NEW q \in Requests, RequestStep(q)
      PROVE  WakeupInv'
  BY <1>1, EnsureKeepsInv, ChoiceKeepsInv, QueueKeepsInv, MarkKeepsInv DEF RequestStep
<1>2. ASSUME NEW r \in Runs, RunStep(r) \/ RunFails(r) \/ CancelRun(r) \/ AskFails(r)
      PROVE  WakeupInv'
  BY <1>2, RunStepsKeepInv, CloseKeepsInv, AskKeepsInv DEF RunStep, ReportStep
<1>3. CASE UNCHANGED vars
  BY <1>3 DEF vars, WakeupInv, TypeOK, SeenWasQueued, Statuses
<1> QED  BY <1>1, <1>2, <1>3, SourcesKeepInv, MarkFailsKeepsInv, AgentKeepsInv, RestartKeepsInv,
            RecoverFailsKeepsInv DEF Next

\* The inductive invariant holds in every reachable state.
THEOREM WakeupInvariant == Spec => []WakeupInv
<1>1. Init => WakeupInv
  BY InitInv
<1>2. WakeupInv /\ [Next]_vars => WakeupInv'
  BY NextInv
<1> QED  BY <1>1, <1>2, PTL DEF Spec

\* Requests that fail, race or are forgotten in a restart never use up a signal:
\* what is marked seen was in the prompt of a queued run or was read by the agent.
THEOREM SeenSignalsWereQueued == Spec => []SeenWasQueued
<1>1. WakeupInv => SeenWasQueued
  BY DEF WakeupInv
<1> QED  BY <1>1, WakeupInvariant, PTL

\* Nothing but the agent's own request takes a signal out of a final status.
THEOREM FinalSignalsStay == Spec => FinalStays
<1>1. WakeupInv /\ [Next]_vars =>
        [\A s \in Signals : signal[s] = "final" => signal'[s] = "final" \/ AgentReopens(s)]_vars
  <2> SUFFICES ASSUME WakeupInv, Next, NEW s \in Signals, signal[s] = "final"
               PROVE  signal'[s] = "final" \/ AgentReopens(s)
    OBVIOUS
  <2>1. signal \in [Signals -> Statuses]
    BY DEF WakeupInv, TypeOK
  <2>2. ASSUME NEW q \in Requests,
               \/ RequestStep(q) \/ Heartbeat(q) \/ Wakeup(q) \/ Recover(q)
               \/ RequestFails(q) \/ QueueFails(q) \/ \E p \in Signals : MarkFails(q, p)
        PROVE  signal'[s] = "final"
    BY <2>1, <2>2 DEF RequestStep, Ensure, ListFocused, ListPending, PickTask, WriteTask, CheckActive,
         TakeDueTask, TakePendingTask, Take, NothingToDo, CreateRoutineTask, StartTask, QueueRun, MarkSeen,
         AllMarked, Moves, Heartbeat, Wakeup, Recover, RequestFails, QueueFails, MarkFails
  <2>3. ASSUME NEW q \in Requests, NEW p \in Signals, Record(p, q) \/ Replay(p, q)
        PROVE  signal'[s] = "final"
    BY <2>1, <2>3 DEF Record, Replay
  <2>4. ASSUME NEW r \in Runs, RunStep(r) \/ RunFails(r) \/ CancelRun(r) \/ AskFails(r)
        PROVE  signal'[s] = "final"
    BY <2>1, <2>4 DEF RunStep, ReportStep, ClaimRun, SkipRun, Expire, ReportRun, SettleTask, WriteRun,
         ReadSignalIDs, AllClosed, AskAgain, CloseSignal, RunFails, NodeDies, ReportFails, CloseFails,
         CancelRun, AskFails
  <2>5. ASSUME NEW p \in Signals, AgentStep(p)
        PROVE  signal'[s] = "final" \/ AgentReopens(s)
    BY <2>1, <2>5 DEF AgentStep, AgentLists, AgentSets, AgentReopens
  <2>6. CASE Restart \/ RecoverFails
    BY <2>1, <2>6 DEF Restart, RecoverFails
  <2> QED  BY <2>2, <2>3, <2>4, <2>5, <2>6 DEF Next
<1> QED  BY <1>1, WakeupInvariant, PTL DEF Spec, FinalStays

-----------------------------------------------------------------------------
\* Handing on needs the types only.
LEMMA LookingRequest ==
  ASSUME req \in [Requests -> Goroutines], NEW q \in Requests, NEW g, g.pc \in Looking,
         req' = [req EXCEPT ![q] = g], NEW s
  PROVE  Watched(s)'
BY DEF Watched

LEMMA GoingRun ==
  ASSUME run \in [Runs -> RunRows], NEW r \in Runs, NEW row, row.stage # "none",
         run' = [run EXCEPT ![r] = row], NEW s
  PROVE  Watched(s)'
BY DEF Watched

\* A request that was not looking may do as it likes.
LEMMA OthersLook ==
  ASSUME req \in [Requests -> Goroutines], NEW q \in Requests, NEW g, req[q].pc \notin Looking,
         req' = [req EXCEPT ![q] = g], UNCHANGED <<run, recovering>>, NEW s, Watched(s)
  PROVE  Watched(s)'
BY DEF Watched

LEMMA Lookers ==
  /\ IdleReq.pc \notin Looking
  /\ \A pc \in Looking : At(pc).pc \in Looking
  /\ \A s : Asking(s).pc \in Looking
  /\ \A q, ids : Gather(q, ids).pc \in Looking
<1>1. /\ \A pc \in Looking : At(pc).pc \in Looking
      /\ \A pc : At(pc) = [pc |-> pc, focus |-> NoSignal, ids |-> {}, task |-> NoTask, copy |-> NoRow]
  BY AtRecord
<1>2. \A s : Asking(s).pc = "focus"
  BY <1>1 DEF Asking
<1>3. \A q, ids : Gather(q, ids).pc = "pick"
  BY <1>1 DEF Gather
<1> QED  BY <1>1, <1>2, <1>3 DEF IdleReq, Looking

LEMMA SourcesHandOn ==
  ASSUME TypeOK, NEW q \in Requests, NEW s \in Signals,
         \/ \E x \in Signals : Record(x, q) \/ Replay(x, q)
         \/ Heartbeat(q) \/ Wakeup(q) \/ Recover(q)
  PROVE  Unattended(s)' => Unattended(s)
<1>1. req \in [Requests -> Goroutines]
  BY DEF TypeOK
<1>2. \A x : Asking(x).pc \in Looking
  BY Lookers
<1>3. At("check").pc \in Looking /\ At("due").pc \in Looking
  BY Lookers DEF Looking
<1>4. CASE \E x \in Signals : Record(x, q) \/ Replay(x, q)
  <2>1. PICK x : req' = [req EXCEPT ![q] = Asking(x)]
    BY <1>4 DEF Record, Replay
  <2> QED  BY <1>1, <1>2, <2>1, LookingRequest DEF Unattended
<1>5. CASE Heartbeat(q) \/ Wakeup(q)
  <2>1. req' = [req EXCEPT ![q] = At("check")] \/ req' = [req EXCEPT ![q] = At("due")]
    BY <1>5 DEF Heartbeat, Wakeup
  <2> QED  BY <1>1, <1>3, <2>1, LookingRequest DEF Unattended
<1>6. CASE Recover(q)
  <2>1. CASE Pending \ IM = {}
    <3>1. UNCHANGED <<signal, req, run>>
      BY <1>6, <2>1 DEF Recover
    <3>2. signal'[s] = "pending" => s \in IM
      BY <2>1, <3>1 DEF Pending
    <3> QED  BY <3>1, <3>2 DEF Unattended, Watched
  <2>2. CASE Pending \ IM # {}
    <3>1. PICK x : req' = [req EXCEPT ![q] = Asking(x)]
      BY <1>6, <2>2 DEF Recover
    <3> QED  BY <1>1, <1>2, <3>1, LookingRequest DEF Unattended
  <2> QED  BY <2>1, <2>2
<1> QED  BY <1>4, <1>5, <1>6

LEMMA RequestHandsOn ==
  ASSUME TypeOK, NEW q \in Requests, RequestStep(q), NEW s \in Signals
  PROVE  Unattended(s)' => Unattended(s)
<1>1. req \in [Requests -> Goroutines] /\ run \in [Runs -> RunRows] /\ req[q] \in Goroutines
  BY DEF TypeOK
<1> USE Lookers
<1>2. CASE Ensure(q)
  <2>1. ListFocused(q) => \E g : g.pc \in Looking /\ req' = [req EXCEPT ![q] = g]
    <3>1. ListFocused(q) => \/ req' = [req EXCEPT ![q] = At("check")]
                            \/ \E ids : req' = [req EXCEPT ![q] = Gather(q, ids)]
      BY DEF ListFocused, Moves
    <3> QED  BY <3>1 DEF Looking
  <2>2. CASE ListPending(q) /\ Pending = {}
    BY <2>2 DEF ListPending, Moves, Unattended, Pending
  <2>3. CASE ListPending(q) /\ Pending # {}
    BY <1>1, <2>3, LookingRequest DEF ListPending, Moves, Unattended
  <2>4. PickTask(q) => \E g : g.pc \in Looking /\ req' = [req EXCEPT ![q] = g]
    <3> SUFFICES ASSUME PickTask(q) PROVE \E g : g.pc \in Looking /\ req' = [req EXCEPT ![q] = g]
      OBVIOUS
    <3>1. PICK t : req' = [req EXCEPT ![q] =
                     [req[q] EXCEPT !.pc = "write", !.task = t, !.copy = AttentionRow(req[q].ids)]]
      BY DEF PickTask, Moves
    <3>2. [req[q] EXCEPT !.pc = "write", !.task = t, !.copy = AttentionRow(req[q].ids)].pc \in Looking
      BY <1>1 DEF Goroutines, Looking
    <3> QED  BY <3>1, <3>2
  <2>5. WriteTask(q) => \E g : g.pc \in Looking /\ req' = [req EXCEPT ![q] = g]
    <3> SUFFICES ASSUME WriteTask(q) PROVE \E g : g.pc \in Looking /\ req' = [req EXCEPT ![q] = g]
      OBVIOUS
    <3>1. PICK t : \/ req' = [req EXCEPT ![q] = At("check")]
                   \/ req' = [req EXCEPT ![q] = [req[q] EXCEPT !.pc = "start", !.task = t]]
      BY DEF WriteTask, Moves
    <3>2. [req[q] EXCEPT !.pc = "start", !.task = t].pc \in Looking /\ At("check").pc \in Looking
      BY <1>1 DEF Goroutines, Looking
    <3> QED  BY <3>1, <3>2
  <2> QED  BY <1>1, <1>2, <2>1, <2>2, <2>3, <2>4, <2>5, LookingRequest DEF Ensure, Unattended
<1>3. CASE CheckActive(q)
  <2>1. CASE Active
    <3>1. UNCHANGED run /\ \E r \in Runs : run[r].stage # "none"
      BY <1>3, <2>1 DEF CheckActive, Moves, Active
    <3> QED  BY <3>1 DEF Unattended, Watched
  <2>2. CASE ~Active
    <3>1. req' = [req EXCEPT ![q] = At("due")] /\ At("due").pc \in Looking
      BY <1>3, <2>2 DEF CheckActive, Moves, Looking
    <3> QED  BY <1>1, <3>1, LookingRequest DEF Unattended
  <2> QED  BY <2>1, <2>2
<1>4. CASE TakeDueTask(q) \/ TakePendingTask(q) \/ CreateRoutineTask(q) \/ StartTask(q)
  <2>1. \E g : g.pc \in Looking /\ req' = [req EXCEPT ![q] = g]
    <3>1. At("start") \in [pc : Looking, focus : {NoSignal}, ids : {{}}, task : {NoTask}, copy : {NoRow}]
      BY AtRecord DEF Looking
    <3>2. \A t, c : [At("start") EXCEPT !.task = t, !.copy = c].pc \in Looking
      BY <3>1
    <3>3. \A t, i, c : [At("start") EXCEPT !.task = t, !.ids = i, !.copy = c].pc \in Looking
      BY <3>1
    <3>4. TakeDueTask(q) => \E g : g.pc \in Looking /\ req' = [req EXCEPT ![q] = g]
      <4> SUFFICES ASSUME TakeDueTask(q) PROVE \E g : g.pc \in Looking /\ req' = [req EXCEPT ![q] = g]
        OBVIOUS
      <4>1. PICK t : \/ req' = [req EXCEPT ![q] = At("list")]
                     \/ req' = [req EXCEPT ![q] = [At("start") EXCEPT !.task = t, !.copy = task[t]]]
        BY DEF TakeDueTask, Take, Moves
      <4>2. [At("start") EXCEPT !.task = t, !.copy = task[t]].pc \in Looking /\ At("list").pc \in Looking
        BY <3>2 DEF Looking
      <4> QED  BY <4>1, <4>2
    <3>5. TakePendingTask(q) => \E g : g.pc \in Looking /\ req' = [req EXCEPT ![q] = g]
      BY <3>2 DEF TakePendingTask, Take, Moves
    <3>6. CreateRoutineTask(q) => \E g : g.pc \in Looking /\ req' = [req EXCEPT ![q] = g]
      BY <3>3 DEF CreateRoutineTask, Moves
    <3>7. StartTask(q) => \E g : g.pc \in Looking /\ req' = [req EXCEPT ![q] = g]
      <4> DEFINE row == [req[q].copy EXCEPT !.status = "in_progress"]
      <4>1. StartTask(q) => req' = [req EXCEPT ![q] = [req[q] EXCEPT !.pc = "queue", !.copy = row]]
        BY DEF StartTask, Moves
      <4> HIDE DEF row
      <4>2. [req[q] EXCEPT !.pc = "queue", !.copy = row].pc \in Looking
        BY <1>1 DEF Goroutines, Looking
      <4> QED  BY <4>1, <4>2
    <3> QED  BY <1>4, <3>4, <3>5, <3>6, <3>7
  <2> QED  BY <1>1, <2>1, LookingRequest DEF Unattended
<1>5. ASSUME NEW r \in Runs, QueueRun(q, r)
      PROVE  ~Unattended(s)'
  <2> DEFINE row == [NoRun EXCEPT !.stage = "queued", !.task = req[q].task, !.ids = req[q].copy.ids]
  <2>1. run' = [run EXCEPT ![r] = row]
    BY <1>5 DEF QueueRun
  <2>2. row.stage = "queued"
    BY DEF NoRun
  <2> HIDE DEF row
  <2> QED  BY <1>1, <2>1, <2>2, GoingRun DEF Unattended
<1>6. CASE NothingToDo(q) \/ AllMarked(q) \/ \E x \in Signals : MarkSeen(q, x)
  <2>1. req[q].pc \notin Looking
    BY <1>6 DEF NothingToDo, AllMarked, MarkSeen, Looking
  <2>2. UNCHANGED <<run, recovering>> /\ \E g : req' = [req EXCEPT ![q] = g]
    <3>1. NothingToDo(q) \/ AllMarked(q) => UNCHANGED <<run, recovering>> /\ req' = [req EXCEPT ![q] = IdleReq]
      BY DEF NothingToDo, AllMarked, Moves
    <3>2. ASSUME NEW x \in Signals, MarkSeen(q, x)
          PROVE  UNCHANGED <<run, recovering>>
                 /\ req' = [req EXCEPT ![q] = [req[q] EXCEPT !.ids = @ \ {x}]]
      BY <1>1, <3>2 DEF MarkSeen
    <3> QED  BY <1>6, <3>1, <3>2
  <2>3. signal'[s] = "pending" => signal[s] = "pending"
    <3>1. ASSUME NEW x \in Signals, MarkSeen(q, x)
          PROVE  signal'[s] = "pending" => signal[s] = "pending"
      BY <3>1 DEF MarkSeen, TypeOK
    <3> QED  BY <1>6, <3>1 DEF NothingToDo, AllMarked, Moves
  <2> QED  BY <1>1, <2>1, <2>2, <2>3, OthersLook DEF Unattended
<1> QED  BY <1>2, <1>3, <1>4, <1>5, <1>6 DEF RequestStep

\* A run hands on until its end has asked again.
LEMMA RunHandsOn ==
  ASSUME TypeOK, NEW r \in Runs, NEW s \in Signals,
         RunStep(r) \/ RunFails(r), ~SkipRun(r)
  PROVE  ~Unattended(s)'
<1>1. run \in [Runs -> RunRows] /\ run[r] \in RunRows /\ NoRun \in RunRows
      /\ req \in [Requests -> Goroutines]
  BY NoRunType DEF TypeOK
<1>2. \A st : [NoRun EXCEPT !.stage = st].stage = st
  BY DEF NoRun
<1>3. \A st, ids : [NoRun EXCEPT !.stage = st, !.ids = ids].stage = st
  BY DEF NoRun
<1>4. CASE AskAgain(r)
  <2>1. CASE Pending = {}
    <3>1. UNCHANGED signal
      BY <1>4 DEF AskAgain
    <3> QED  BY <2>1, <3>1 DEF Pending, Unattended
  <2>2. CASE Pending # {}
    <3>1. PICK q \in Requests, x \in Pending : req' = [req EXCEPT ![q] = Asking(x)]
      BY <1>4, <2>2 DEF AskAgain
    <3> QED  BY <1>1, <3>1, Lookers, LookingRequest DEF Unattended
  <2> QED  BY <2>1, <2>2
<1>5. CASE ~AskAgain(r)
  <2>1. \E row : row.stage # "none" /\ run' = [run EXCEPT ![r] = row]
    <3>1. ClaimRun(r) \/ Expire(r) => \E row : row.stage # "none" /\ run' = [run EXCEPT ![r] = row]
      BY <1>1 DEF ClaimRun, Expire, RunMoves, RunRows
    <3>2. (\E ok \in BOOLEAN : ReportRun(r, ok)) =>
            \E row : row.stage # "none" /\ run' = [run EXCEPT ![r] = row]
      BY <1>1 DEF ReportRun, RunMoves, RunRows
    <3>3. SettleTask(r) => \E row : row.stage # "none" /\ run' = [run EXCEPT ![r] = row]
      BY <1>1 DEF SettleTask, RunMoves, RunRows
    <3>4. WriteRun(r) => \E row : row.stage # "none" /\ run' = [run EXCEPT ![r] = row]
      <4>1. [run[r] EXCEPT !.stage = "over", !.ids = {}].stage = "over"
        BY <1>1 DEF RunRows
      <4> QED  BY <1>2, <4>1 DEF WriteRun, RunMoves
    <3>5. ReadSignalIDs(r) => \E row : row.stage # "none" /\ run' = [run EXCEPT ![r] = row]
      <4> SUFFICES ASSUME ReadSignalIDs(r)
                   PROVE  \E row : row.stage # "none" /\ run' = [run EXCEPT ![r] = row]
        OBVIOUS
      <4>1. PICK ids : run' = [run EXCEPT ![r] = [NoRun EXCEPT !.stage = "closing", !.ids = ids]]
        BY DEF ReadSignalIDs, RunMoves
      <4>2. [NoRun EXCEPT !.stage = "closing", !.ids = ids].stage # "none"
        BY <1>3
      <4> QED  BY <4>1, <4>2
    <3>6. ASSUME NEW x \in Signals, CloseSignal(r, x)
          PROVE  \E row : row.stage # "none" /\ run' = [run EXCEPT ![r] = row]
      <4>1. [run[r] EXCEPT !.ids = @ \ {x}].stage = "closing"
        BY <1>1, <3>6 DEF CloseSignal, RunRows
      <4> QED  BY <3>6, <4>1 DEF CloseSignal, RunMoves
    <3>7. AllClosed(r) => \E row : row.stage # "none" /\ run' = [run EXCEPT ![r] = row]
      BY <1>2 DEF AllClosed, RunMoves
    <3>8. NodeDies(r) \/ ReportFails(r) =>
            run' = [run EXCEPT ![r] = [run[r] EXCEPT !.stage = "lost"]]
            /\ [run[r] EXCEPT !.stage = "lost"].stage = "lost"
      BY <1>1 DEF NodeDies, ReportFails, RunRows
    <3>9. CloseFails(r) => \E row : row.stage # "none" /\ run' = [run EXCEPT ![r] = row]
      BY <1>2 DEF CloseFails
    <3> QED  BY <1>5, <3>1, <3>2, <3>3, <3>4, <3>5, <3>6, <3>7, <3>8, <3>9
             DEF RunStep, ReportStep, RunFails
  <2> QED  BY <1>1, <2>1, GoingRun DEF Unattended
<1> QED  BY <1>4, <1>5

\* The request that marks is no longer one that looks.
LEMMA MarkFailsHandsOn ==
  ASSUME TypeOK, NEW q \in Requests, NEW x \in Signals, MarkFails(q, x), NEW s \in Signals, Unattended(s)'
  PROVE  Unattended(s)
<1>1. req' = [req EXCEPT ![q] = [req[q] EXCEPT !.ids = @ \ {x}]] /\ req[q].pc \notin Looking
  BY DEF MarkFails, TypeOK, Looking
<1>2. UNCHANGED <<signal, run, recovering>>
  BY DEF MarkFails
<1> QED  BY <1>1, <1>2, OthersLook DEF TypeOK, Unattended

\* A restart forgets requests and reports, and recovery makes up for them.
LEMMA RestartHandsOn ==
  ASSUME Restart, NEW s \in Signals \ IM
  PROVE  ~Unattended(s)'
BY DEF Restart, Unattended, Watched

LEMMA AgentHandsOn ==
  ASSUME TypeOK, NEW x \in Signals, AgentStep(x), NEW s \in Signals
  PROVE  ~Unattended(s)'
BY DEF AgentStep, AgentLists, AgentReopens, AgentSets, AgentActs, Unattended, Watched

\* However events, requests, runs, failures and restarts fall together, a
\* pending signal loses the last one to look for it only when a run is
\* cancelled or skipped, when a request fails or finds the node not ready
\* (requestAgentAttentionWakeup), when the listing at the end of a run or of
\* recovery fails, or when the server forgets an IM message in a restart
\* (requestPendingAttentionWakeupAfterRun, recoverPendingAttentionWakeups): the
\* safety half of PendingGetsOut.
THEOREM WakeupsAreHandedOn == Spec => WakeupsHandedOn
<1>1. WakeupInv /\ [Next]_vars =>
        [\A s \in Signals : Unattended(s)' => Unattended(s) \/ GivesUp(s)]_vars
  <2> SUFFICES ASSUME WakeupInv, Next, NEW s \in Signals
               PROVE  (Unattended(s)' => Unattended(s)) \/ GivesUp(s)
    OBVIOUS
  <2>1. TypeOK
    BY DEF WakeupInv
  <2>2. ASSUME NEW q \in Requests,
               \/ \E x \in Signals : Record(x, q) \/ Replay(x, q)
               \/ Heartbeat(q) \/ Wakeup(q) \/ Recover(q) \/ RequestStep(q)
        PROVE  Unattended(s)' => Unattended(s)
    BY <2>1, <2>2, SourcesHandOn, RequestHandsOn
  <2>3. ASSUME NEW r \in Runs, RunStep(r) \/ RunFails(r)
        PROVE  (Unattended(s)' => Unattended(s)) \/ GivesUp(s)
    BY <2>1, <2>3, RunHandsOn DEF GivesUp
  <2>4. ASSUME NEW x \in Signals, AgentStep(x)
        PROVE  Unattended(s)' => Unattended(s)
    BY <2>1, <2>4, AgentHandsOn
  <2>5. Restart => (Unattended(s)' => Unattended(s)) \/ GivesUp(s)
    BY RestartHandsOn DEF GivesUp
  <2>6. \/ \E q \in Requests : RequestFails(q) \/ QueueFails(q)
        \/ \E r \in Runs : CancelRun(r) \/ AskFails(r)
        \/ RecoverFails
        => GivesUp(s)
    BY DEF GivesUp
  <2>7. ASSUME NEW q \in Requests, NEW x \in Signals, MarkFails(q, x)
        PROVE  Unattended(s)' => Unattended(s)
    BY <2>1, <2>7, MarkFailsHandsOn
  <2> QED  BY <2>2, <2>3, <2>4, <2>5, <2>6, <2>7 DEF Next
<1> QED  BY <1>1, WakeupInvariant, PTL DEF Spec, WakeupsHandedOn

-----------------------------------------------------------------------------
\* The signals that a run of the task will close.
ToClose(row) == IF row.kind = "attention" THEN row.ids ELSE {}

\* A request that will write or queue its task, and a run that will settle its.
Holds(q)   == req[q].pc \in {"write", "start", "queue"}
Carries(r) == run[r].stage \notin {"none", "closing", "asking"}

\* How far a run has brought the signals that its end will close.
Brings(r) ==
  /\ run[r].stage = "queued" => ToClose(task[run[r].task]) \subseteq run[r].ids
  /\ run[r].stage \in {"running", "lost", "expired", "judged", "settled", "over"} =>
       \A s \in ToClose(task[run[r].task]) : delivered[s] = "agent"
  /\ run[r].stage = "judged" => run[r].copy = task[run[r].task]
  /\ run[r].stage = "closing" => \A s \in run[r].ids : delivered[s] = "agent"

\* Why: while a run carries a task, nobody else holds or carries it, so the
\* record is what the run was queued with.
DeliveryInv ==
  /\ \A q \in Requests, r \in Runs : Holds(q) /\ Carries(r) => req[q].task # run[r].task
  /\ \A r, x \in Runs : Carries(r) /\ Carries(x) /\ run[r].task = run[x].task => r = x
  /\ \A r \in Runs : Carries(r) => task[run[r].task].status # "pending"
  /\ \A q \in Requests : req[q].pc = "queue" =>
       task[req[q].task] = req[q].copy /\ req[q].copy.status = "in_progress"
  /\ \A r \in Runs : Brings(r)
  /\ FinalWasDelivered

\* Only requests move, and they take no task but a pending one.
LEMMA RequestsLook ==
  ASSUME DeliveryInv, UNCHANGED <<task, run>>,
         \A p \in Requests :
           \/ req'[p] = req[p]
           \/ req'[p].pc \notin {"write", "start", "queue"}
           \/ req'[p].pc \in {"write", "start"}
              /\ (req'[p].task = NoTask \/ task[req'[p].task].status = "pending"),
         \A s \in Signals : delivered[s] = "agent" => delivered'[s] = "agent",
         \A s \in Signals : signal'[s] = "final" => signal[s] = "final" \/ delivered'[s] = "agent",
         WakeupInv
  PROVE  DeliveryInv'
<1>1. /\ \A r \in Runs : GoodRun(run[r])
      /\ task \in [Tasks -> TaskRows]
  BY RunsGood DEF WakeupInv, TypeOK
<1>2. \A q \in Requests, r \in Runs : Holds(q)' /\ Carries(r)' => req'[q].task # run'[r].task
  BY <1>1, TasksAssumption DEF DeliveryInv, Holds, Carries, GoodRun
<1>3. \A q \in Requests : req'[q].pc = "queue" =>
        task'[req'[q].task] = req'[q].copy /\ req'[q].copy.status = "in_progress"
  BY DEF DeliveryInv
<1>4. ASSUME NEW r \in Runs PROVE Brings(r)'
  <2>1. Brings(r) /\ GoodRun(run[r])
    BY <1>1 DEF DeliveryInv
  <2>2. run[r].ids \subseteq Signals
    BY <2>1 DEF GoodRun, RunRows
  <2>3. Carries(r) => ToClose(task[run[r].task]) \subseteq Signals
    BY <1>1, <2>1 DEF Carries, GoodRun, ToClose, TaskRows
  <2> QED  BY <2>1, <2>2, <2>3 DEF Brings, Carries, ToClose
<1>5. FinalWasDelivered'
  BY DEF DeliveryInv, FinalWasDelivered
<1>6. /\ \A r, x \in Runs : Carries(r)' /\ Carries(x)' /\ run'[r].task = run'[x].task => r = x
      /\ \A r \in Runs : Carries(r)' => task'[run'[r].task].status # "pending"
  BY DEF DeliveryInv, Carries
<1> QED  BY <1>2, <1>3, <1>4, <1>5, <1>6 DEF DeliveryInv

\* Nobody but the request needs the record of the task.
OwnTask(q, t) ==
  /\ \A r \in Runs : Carries(r) => run[r].task # t
  /\ \A p \in Requests \ {q} : req[p].pc = "queue" => req[p].task # t

\* A request writes a task that no run carries and no other request is queueing.
LEMMA RequestWrites ==
  ASSUME DeliveryInv, WakeupInv, NEW q \in Requests, NEW g, NEW t \in Tasks, NEW row,
         req' = [req EXCEPT ![q] = g], task' = [task EXCEPT ![t] = row],
         UNCHANGED <<signal, run, delivered>>,
         OwnTask(q, t),
         g.pc \in {"write", "start", "queue"} => g.task = t,
         g.pc = "queue" => g.copy = row /\ row.status = "in_progress"
  PROVE  DeliveryInv'
<1>1. /\ \A r \in Runs : GoodRun(run[r])
      /\ task \in [Tasks -> TaskRows] /\ req \in [Requests -> Goroutines]
  BY RunsGood DEF WakeupInv, TypeOK
<1>2. \A p \in Requests, r \in Runs : Holds(p)' /\ Carries(r)' => req'[p].task # run'[r].task
  BY <1>1 DEF DeliveryInv, Holds, Carries, OwnTask
<1>3. ASSUME NEW p \in Requests, req'[p].pc = "queue"
      PROVE  task'[req'[p].task] = req'[p].copy /\ req'[p].copy.status = "in_progress"
  <2>1. CASE p = q
    BY <1>1, <1>3, <2>1
  <2>2. CASE p # q
    <3>1. req'[p] = req[p] /\ req[p].task \in Tasks /\ req[p].task # t
      BY <1>1, <1>3, <2>2 DEF WakeupInv, OwnTask
    <3> QED  BY <1>1, <1>3, <3>1 DEF DeliveryInv
  <2> QED  BY <2>1, <2>2
<1>4. \A r \in Runs : Carries(r) => task'[run[r].task] = task[run[r].task]
  BY <1>1 DEF GoodRun, Carries, OwnTask
<1>5. ASSUME NEW r \in Runs PROVE Brings(r)'
  BY <1>4 DEF DeliveryInv, Brings, Carries
<1>6. FinalWasDelivered'
  BY DEF DeliveryInv, FinalWasDelivered
<1>7. /\ \A r, x \in Runs : Carries(r)' /\ Carries(x)' /\ run'[r].task = run'[x].task => r = x
      /\ \A r \in Runs : Carries(r)' => task'[run'[r].task].status # "pending"
  BY <1>4 DEF DeliveryInv, Carries
<1> QED  BY <1>2, <1>3, <1>5, <1>6, <1>7 DEF DeliveryInv

\* Runs move, keep their task or let go of it, and no request takes one.
LEMMA RunsMove ==
  ASSUME DeliveryInv,
         \A p \in Requests : req'[p] = req[p] \/ req'[p].pc \notin {"write", "start", "queue"},
         \A r \in Runs : Carries(r)' => Carries(r) /\ run'[r].task = run[r].task,
         \A r \in Runs : Carries(r) => task'[run[r].task].status # "pending",
         \A p \in Requests : req[p].pc = "queue" => task'[req[p].task] = task[req[p].task],
         \A r \in Runs : Brings(r)',
         FinalWasDelivered'
  PROVE  DeliveryInv'
<1>1. \A p \in Requests, r \in Runs : Holds(p)' /\ Carries(r)' => req'[p].task # run'[r].task
  BY DEF DeliveryInv, Holds
<1>2. \A p \in Requests : req'[p].pc = "queue" =>
        task'[req'[p].task] = req'[p].copy /\ req'[p].copy.status = "in_progress"
  BY DEF DeliveryInv
<1>3. \A r, x \in Runs : Carries(r)' /\ Carries(x)' /\ run'[r].task = run'[x].task => r = x
  BY DEF DeliveryInv
<1>4. \A r \in Runs : Carries(r)' => task'[run'[r].task].status # "pending"
  OBVIOUS
<1> QED  BY <1>1, <1>2, <1>3, <1>4 DEF DeliveryInv

LEMMA TaskOf ==
  ASSUME WakeupInv, NEW r \in Runs, Carries(r)
  PROVE  run[r].task \in Tasks /\ task[run[r].task] \in TaskRows /\ run[r] \in RunRows
<1>1. GoodRun(run[r]) /\ task \in [Tasks -> TaskRows]
  BY RunsGood DEF WakeupInv, TypeOK
<1> QED  BY <1>1 DEF GoodRun, Carries

\* A goroutine at a place of its own holds nothing.
LEMMA HoldsNothing ==
  /\ IdleReq.pc \notin {"write", "start", "queue"}
  /\ \A pc : At(pc).pc = pc
  /\ \A s : Asking(s).pc = "focus"
  /\ \A q, ids : Gather(q, ids).pc = "pick"
<1>1. \A pc : At(pc) = [pc |-> pc, focus |-> NoSignal, ids |-> {}, task |-> NoTask, copy |-> NoRow]
  BY AtRecord
<1> QED  BY <1>1 DEF Asking, Gather, IdleReq

\* A new request, a tick, recovery, and a request whose run cannot be queued.
LEMMA SourcesKeepDelivery ==
  ASSUME DeliveryInv, WakeupInv, NEW q \in Requests,
         \/ \E s \in Signals : Record(s, q) \/ Replay(s, q)
         \/ Heartbeat(q) \/ Wakeup(q) \/ Recover(q) \/ RequestFails(q) \/ QueueFails(q)
  PROVE  DeliveryInv'
<1>1. signal \in [Signals -> Statuses] /\ req \in [Requests -> Goroutines]
  BY DEF WakeupInv, TypeOK
<1>2. UNCHANGED <<task, run, delivered>>
  BY DEF Record, Replay, Heartbeat, Wakeup, Recover, RequestFails, QueueFails, history
<1>3. \A s \in Signals : signal'[s] = "final" => signal[s] = "final"
  BY <1>1 DEF Record, Replay, Heartbeat, Wakeup, Recover, RequestFails, QueueFails
<1>4. req' = req \/ \E g : g.pc \notin {"write", "start", "queue"} /\ req' = [req EXCEPT ![q] = g]
  <2>1. ASSUME NEW s \in Signals, Record(s, q) \/ Replay(s, q)
        PROVE  \E g : g.pc \notin {"write", "start", "queue"} /\ req' = [req EXCEPT ![q] = g]
    BY <2>1, HoldsNothing DEF Record, Replay
  <2>2. CASE Heartbeat(q) \/ Wakeup(q) \/ RequestFails(q) \/ QueueFails(q)
    BY <2>2, HoldsNothing DEF Heartbeat, Wakeup, RequestFails, QueueFails
  <2>3. CASE Recover(q)
    <3>1. req' = req \/ \E s : req' = [req EXCEPT ![q] = Asking(s)]
      BY <2>3 DEF Recover
    <3> QED  BY <3>1, HoldsNothing
  <2> QED  BY <2>1, <2>2, <2>3
<1>5. \A p \in Requests : req'[p] = req[p] \/ req'[p].pc \notin {"write", "start", "queue"}
  BY <1>1, <1>4
<1> QED  BY <1>2, <1>3, <1>5, RequestsLook

\* A mark that fails, and recovery that does.
LEMMA FailuresKeepDelivery ==
  ASSUME DeliveryInv, WakeupInv, RecoverFails \/ \E q \in Requests, s \in Signals : MarkFails(q, s)
  PROVE  DeliveryInv'
<1>1. req \in [Requests -> Goroutines] /\ UNCHANGED <<signal, task, run, delivered>>
  BY DEF WakeupInv, TypeOK, RecoverFails, MarkFails, history
<1>2. \A p \in Requests : req'[p] = req[p] \/ req'[p].pc \notin {"write", "start", "queue"}
  <2>1. CASE RecoverFails
    BY <2>1 DEF RecoverFails
  <2>2. ASSUME NEW q \in Requests, NEW s \in Signals, MarkFails(q, s)
        PROVE  \A p \in Requests : req'[p] = req[p] \/ req'[p].pc \notin {"write", "start", "queue"}
    <3>1. req' = [req EXCEPT ![q] = [req[q] EXCEPT !.ids = @ \ {s}]]
      BY <1>1, <2>2 DEF MarkFails
    <3>2. [req[q] EXCEPT !.ids = @ \ {s}].pc = "mark"
      BY <1>1, <2>2 DEF MarkFails, Goroutines
    <3> QED  BY <1>1, <3>1, <3>2
  <2> QED  BY <2>1, <2>2
<1> QED  BY <1>1, <1>2, RequestsLook

\* A request that lists, chooses or marks.
LEMMA LooksKeepDelivery ==
  ASSUME DeliveryInv, WakeupInv, NEW q \in Requests,
         \/ ListFocused(q) \/ ListPending(q) \/ PickTask(q) \/ CheckActive(q)
         \/ TakeDueTask(q) \/ TakePendingTask(q) \/ NothingToDo(q) \/ AllMarked(q)
         \/ \E s \in Signals : MarkSeen(q, s)
  PROVE  DeliveryInv'
<1>1. /\ signal \in [Signals -> Statuses] /\ req \in [Requests -> Goroutines] /\ req[q] \in Goroutines
      /\ delivered' = delivered /\ UNCHANGED <<task, run>>
  BY DEF WakeupInv, TypeOK, ListFocused, ListPending, PickTask, CheckActive, TakeDueTask, TakePendingTask,
         Take, NothingToDo, AllMarked, MarkSeen, Moves, history
<1>2. \A s \in Signals : signal'[s] = "final" => signal[s] = "final"
  BY <1>1 DEF ListFocused, ListPending, PickTask, CheckActive, TakeDueTask, TakePendingTask,
              Take, NothingToDo, AllMarked, MarkSeen, Moves
<1> DEFINE Free(g) == \/ g.pc \notin {"write", "start", "queue"}
                      \/ /\ g.pc \in {"write", "start"}
                         /\ (g.task = NoTask \/ task[g.task].status = "pending")
<1>3. \E g : Free(g) /\ req' = [req EXCEPT ![q] = g]
  <2>1. CASE ListFocused(q) \/ ListPending(q) \/ CheckActive(q) \/ NothingToDo(q) \/ AllMarked(q)
    <3>1. \/ req' = [req EXCEPT ![q] = IdleReq]
          \/ \E pc \in {"check", "pending", "due"} : req' = [req EXCEPT ![q] = At(pc)]
          \/ \E ids : req' = [req EXCEPT ![q] = Gather(q, ids)]
      BY <2>1 DEF ListFocused, ListPending, CheckActive, NothingToDo, AllMarked, Moves
    <3> QED  BY <3>1, HoldsNothing
  <2>2. CASE PickTask(q)
    <3>1. PICK t \in IF PendingTasks("attention") = {} THEN {NoTask} ELSE PendingTasks("attention") :
            req' = [req EXCEPT ![q] =
              [req[q] EXCEPT !.pc = "write", !.task = t, !.copy = AttentionRow(req[q].ids)]]
      BY <2>2 DEF PickTask, Moves
    <3>2. t = NoTask \/ task[t].status = "pending"
      BY DEF PendingTasks
    <3> DEFINE row == AttentionRow(req[q].ids)
               g == [req[q] EXCEPT !.pc = "write", !.task = t, !.copy = row]
    <3> HIDE DEF row
    <3>3. g.pc = "write" /\ g.task = t
      BY <1>1 DEF Goroutines
    <3> USE DEF row
    <3> QED  BY <3>1, <3>2, <3>3
  <2>3. ASSUME NEW t, Take(q, t), task[t].status = "pending"
        PROVE  \E g : Free(g) /\ req' = [req EXCEPT ![q] = g]
    <3> DEFINE g == [At("start") EXCEPT !.task = t, !.copy = task[t]]
    <3>1. req' = [req EXCEPT ![q] = g]
      BY <2>3 DEF Take, Moves
    <3>2. g.pc = "start" /\ g.task = t
      BY StartRecord DEF Goroutines
    <3> QED  BY <2>3, <3>1, <3>2
  <2>4. CASE TakeDueTask(q)
    <3>1. req' = [req EXCEPT ![q] = At("list")] \/ \E t \in PendingTasks("other") : Take(q, t)
      BY <2>4 DEF TakeDueTask, Moves
    <3> QED  BY <2>3, <3>1, HoldsNothing DEF PendingTasks
  <2>5. CASE TakePendingTask(q)
    BY <2>3, <2>5 DEF TakePendingTask, PendingTasks
  <2>6. ASSUME NEW s \in Signals, MarkSeen(q, s)
        PROVE  \E g : Free(g) /\ req' = [req EXCEPT ![q] = g]
    <3>1. req' = [req EXCEPT ![q] = [req[q] EXCEPT !.ids = @ \ {s}]] /\ req[q].pc = "mark"
      BY <1>1, <2>6 DEF MarkSeen
    <3>2. [req[q] EXCEPT !.ids = @ \ {s}].pc = "mark"
      BY <1>1, <3>1 DEF Goroutines
    <3> QED  BY <3>1, <3>2
  <2> QED  BY <2>1, <2>2, <2>4, <2>5, <2>6
<1>4. \A p \in Requests : req'[p] = req[p] \/ Free(req'[p])
  BY <1>1, <1>3
<1> QED  BY <1>1, <1>2, <1>4, RequestsLook

\* A request that writes its task, which is its own while copies are kept apart.
LEMMA WritesKeepDelivery ==
  ASSUME DeliveryInv, WakeupInv, CopiesApart, NEW q \in Requests,
         WriteTask(q) \/ CreateRoutineTask(q) \/ StartTask(q)
  PROVE  DeliveryInv'
<1>1. /\ req[q] \in Goroutines /\ delivered' = delivered /\ UNCHANGED <<signal, run>>
  BY DEF WakeupInv, TypeOK, WriteTask, CreateRoutineTask, StartTask, Moves, history
<1>2. ASSUME NEW t \in Fresh
      PROVE  OwnTask(q, t)
  BY DEF Fresh, OwnTask
<1>3. ASSUME Holds(q), req[q].task \in Tasks
      PROVE  OwnTask(q, req[q].task)
  <2>1. req[q].task # NoTask
    BY <1>3, TasksAssumption
  <2> QED  BY <1>3, <2>1 DEF DeliveryInv, CopiesApart, Holds, OwnTask
<1>4. CASE WriteTask(q)
  <2>1. PICK t \in IF req[q].task = NoTask THEN Fresh ELSE {req[q].task} :
          /\ task' = [task EXCEPT ![t] = req[q].copy]
          /\ req' = [req EXCEPT ![q] =
               IF req[q].focus # NoSignal THEN At("check") ELSE [req[q] EXCEPT !.pc = "start", !.task = t]]
    BY <1>4 DEF WriteTask, Moves
  <2>2. t \in Tasks /\ OwnTask(q, t)
    <3>1. CASE req[q].task = NoTask
      BY <1>2, <2>1, <3>1 DEF Fresh
    <3>2. CASE req[q].task # NoTask
      BY <1>1, <1>3, <1>4, <2>1, <3>2 DEF WriteTask, Holds, Goroutines
    <3> QED  BY <3>1, <3>2
  <2> DEFINE g == IF req[q].focus # NoSignal THEN At("check") ELSE [req[q] EXCEPT !.pc = "start", !.task = t]
  <2>3. g.pc = "check" \/ (g.pc = "start" /\ g.task = t)
    BY <1>1, HoldsNothing DEF Goroutines
  <2>4. req' = [req EXCEPT ![q] = g] /\ task' = [task EXCEPT ![t] = req[q].copy]
    BY <2>1
  <2> HIDE DEF g
  <2> QED  BY <1>1, <2>2, <2>3, <2>4, RequestWrites
<1>5. CASE CreateRoutineTask(q)
  <2> DEFINE row == [NoRow EXCEPT !.status = "pending", !.ids = Pending]
  <2>1. PICK t \in Fresh :
          /\ task' = [task EXCEPT ![t] = row]
          /\ req' = [req EXCEPT ![q] = [At("start") EXCEPT !.task = t, !.ids = Pending, !.copy = row]]
    BY <1>5 DEF CreateRoutineTask, Moves
  <2> HIDE DEF row
  <2> DEFINE g == [At("start") EXCEPT !.task = t, !.ids = Pending, !.copy = row]
  <2>2. req' = [req EXCEPT ![q] = g] /\ task' = [task EXCEPT ![t] = row]
    BY <2>1
  <2>3. g.pc = "start" /\ g.task = t
    BY StartRecord DEF Goroutines
  <2>4. t \in Tasks
    BY DEF Fresh
  <2> HIDE DEF g
  <2> QED  BY <1>1, <1>2, <2>2, <2>3, <2>4, RequestWrites
<1>6. CASE StartTask(q)
  <2> DEFINE row == [req[q].copy EXCEPT !.status = "in_progress"]
             g == [req[q] EXCEPT !.pc = "queue", !.copy = row]
  <2>1. task' = [task EXCEPT ![req[q].task] = row] /\ req' = [req EXCEPT ![q] = g]
    BY <1>6 DEF StartTask, Moves
  <2>2. row.status = "in_progress"
    BY <1>1 DEF Goroutines, TaskRows
  <2> HIDE DEF row
  <2>3. g.pc = "queue" /\ g.task = req[q].task /\ g.copy = row
    BY <1>1 DEF Goroutines
  <2>4. req[q].task \in Tasks /\ Holds(q)
    BY <1>6, RequestsGood DEF StartTask, GoodRequest, Holds
  <2> HIDE DEF g
  <2> QED  BY <1>1, <1>3, <2>1, <2>2, <2>3, <2>4, RequestWrites
<1> QED  BY <1>4, <1>5, <1>6

\* The queued run quotes what its record does.
LEMMA QueueKeepsDelivery ==
  ASSUME DeliveryInv, WakeupInv, CopiesApart, NEW q \in Requests, NEW r \in Runs, QueueRun(q, r)
  PROVE  DeliveryInv'
<1> DEFINE row == [NoRun EXCEPT !.stage = "queued", !.task = req[q].task, !.ids = req[q].copy.ids]
           g == [At("mark") EXCEPT !.ids = req[q].ids]
           t == req[q].task
<1>1. /\ req \in [Requests -> Goroutines] /\ run \in [Runs -> RunRows] /\ task \in [Tasks -> TaskRows]
      /\ t \in Tasks /\ task[t] = req[q].copy /\ req[q].copy.status = "in_progress" /\ req[q].pc = "queue"
      /\ req[q].ids \in SUBSET Signals
  BY RequestsGood DEF WakeupInv, TypeOK, QueueRun, DeliveryInv, GoodRequest, Goroutines
<1>2. row.stage = "queued" /\ row.task = t /\ row.ids = req[q].copy.ids
  BY DEF NoRun
<1>3. g.pc = "mark"
  BY <1>1, MarkPoint
<1>4. /\ run' = [run EXCEPT ![r] = row] /\ req' = [req EXCEPT ![q] = g]
      /\ UNCHANGED <<signal, task>>
  BY DEF QueueRun
<1>5. \A s \in Signals : delivered[s] = "agent" => delivered'[s] = "agent"
  BY DEF QueueRun
<1> HIDE DEF row, g
<1>6. /\ \A p \in Requests : req'[p] = IF p = q THEN g ELSE req[p]
      /\ \A x \in Runs : run'[x] = IF x = r THEN row ELSE run[x]
  BY <1>1, <1>4
<1>7. \A x \in Runs : Carries(x) => run[x].task # t
  BY <1>1 DEF DeliveryInv, Holds
<1>8. \A p \in Requests \ {q} : Holds(p) => req[p].task # t
  BY <1>1, TasksAssumption DEF CopiesApart, Holds
<1>9. \A p \in Requests, x \in Runs : Holds(p)' /\ Carries(x)' => req'[p].task # run'[x].task
  <2> SUFFICES ASSUME NEW p \in Requests, NEW x \in Runs, Holds(p)', Carries(x)'
               PROVE  req'[p].task # run'[x].task
    OBVIOUS
  <2>1. p # q /\ Holds(p) /\ req'[p] = req[p]
    BY <1>3, <1>6 DEF Holds
  <2> QED  BY <1>2, <1>6, <1>8, <2>1 DEF DeliveryInv, Carries
<1>10. \A x, y \in Runs : Carries(x)' /\ Carries(y)' /\ run'[x].task = run'[y].task => x = y
  BY <1>2, <1>6, <1>7 DEF DeliveryInv, Carries
<1>11. \A x \in Runs : Carries(x)' => task'[run'[x].task].status # "pending"
  BY <1>1, <1>2, <1>4, <1>6 DEF DeliveryInv, Carries
<1>12. \A p \in Requests : req'[p].pc = "queue" =>
         task'[req'[p].task] = req'[p].copy /\ req'[p].copy.status = "in_progress"
  BY <1>3, <1>4, <1>6 DEF DeliveryInv
<1>13. ASSUME NEW x \in Runs PROVE Brings(x)'
  <2>1. CASE x = r
    BY <1>1, <1>2, <1>4, <1>6, <2>1 DEF Brings, ToClose
  <2>2. CASE x # r
    <3>1. Brings(x) /\ run'[x] = run[x] /\ run[x].ids \subseteq Signals
      BY <1>1, <1>6, <2>2 DEF DeliveryInv, RunRows
    <3>2. Carries(x) => ToClose(task[run[x].task]) \subseteq Signals
      BY TaskOf DEF ToClose, TaskRows
    <3> QED  BY <1>4, <1>5, <3>1, <3>2 DEF Brings, Carries, ToClose
  <2> QED  BY <2>1, <2>2
<1>14. FinalWasDelivered'
  BY <1>4, <1>5 DEF DeliveryInv, FinalWasDelivered
<1> QED  BY <1>9, <1>10, <1>11, <1>12, <1>13, <1>14 DEF DeliveryInv

\* One run moves, with its task or letting go of it.
LEMMA OneRunMoves ==
  ASSUME DeliveryInv, WakeupInv, NEW r \in Runs, NEW row, run' = [run EXCEPT ![r] = row],
         UNCHANGED task,
         \A p \in Requests : req'[p] = req[p] \/ req'[p].pc \notin {"write", "start", "queue"},
         row.stage \notin {"none", "closing", "asking"} => Carries(r) /\ row.task = run[r].task,
         Brings(r)',
         \A s \in Signals : delivered[s] = "agent" => delivered'[s] = "agent",
         \A s \in Signals : signal'[s] = "final" => signal[s] = "final" \/ delivered'[s] = "agent"
  PROVE  DeliveryInv'
<1>1. \A x \in Runs : run'[x] = IF x = r THEN row ELSE run[x]
  BY DEF WakeupInv, TypeOK
<1>2. \A x \in Runs : Carries(x)' => Carries(x) /\ run'[x].task = run[x].task
  BY <1>1 DEF Carries
<1>3. ASSUME NEW x \in Runs PROVE Brings(x)'
  <2>1. CASE x # r
    <3>1. Brings(x) /\ run'[x] = run[x] /\ run[x].ids \subseteq Signals
      BY <1>1, <2>1 DEF DeliveryInv, WakeupInv, TypeOK, RunRows
    <3>2. Carries(x) => ToClose(task[run[x].task]) \subseteq Signals
      BY TaskOf DEF ToClose, TaskRows
    <3> QED  BY <3>1, <3>2 DEF Brings, Carries, ToClose
  <2> QED  BY <2>1
<1>4. FinalWasDelivered'
  BY DEF DeliveryInv, FinalWasDelivered
<1>5. \A x \in Runs : Carries(x) => task'[run[x].task].status # "pending"
  BY DEF DeliveryInv
<1> QED  BY <1>2, <1>3, <1>4, <1>5, RunsMove

\* A run that keeps its stage's promises to the signals of its task, up to its
\* report.
LEMMA StagesKeepDelivery ==
  ASSUME DeliveryInv, WakeupInv, NEW r \in Runs,
         \/ ClaimRun(r) \/ (\E ok \in BOOLEAN : ReportRun(r, ok)) \/ Expire(r)
         \/ NodeDies(r) \/ ReportFails(r)
  PROVE  DeliveryInv'
<1>1. /\ run \in [Runs -> RunRows] /\ run[r] \in RunRows
      /\ delivered \in [Signals -> {"no", "queued", "agent"}]
      /\ UNCHANGED <<signal, task, req>>
  BY DEF WakeupInv, TypeOK, ClaimRun, ReportRun, Expire, NodeDies, ReportFails, RunMoves
<1>2. Carries(r) /\ Brings(r)
  BY DEF DeliveryInv, Carries, ClaimRun, Claimed, ReportRun, Expire, NodeDies, ReportFails
<1>3. run[r].task \in Tasks /\ ToClose(task[run[r].task]) \subseteq Signals
  BY <1>2, TaskOf DEF ToClose, TaskRows
<1>4. /\ \A s \in Signals : delivered[s] = "agent" => delivered'[s] = "agent"
      /\ ClaimRun(r) => \A s \in Signals : s \in run[r].ids => delivered'[s] = "agent"
      /\ ~ClaimRun(r) => delivered' = delivered
  BY DEF ClaimRun, ReportRun, Expire, NodeDies, ReportFails, history
<1>5. \E row : /\ run' = [run EXCEPT ![r] = row]
               /\ row.task = run[r].task
               /\ \/ row.stage \in {"running", "lost", "expired"}
                  \/ row.stage = "judged" /\ row.copy = task[run[r].task]
  <2>1. ASSUME NEW st \in {"running", "lost", "expired"}, run' = [run EXCEPT ![r] = [run[r] EXCEPT !.stage = st]]
        PROVE  \E row : /\ run' = [run EXCEPT ![r] = row]
                        /\ row.task = run[r].task
                        /\ row.stage \in {"running", "lost", "expired"}
    <3>1. [run[r] EXCEPT !.stage = st].stage = st /\ [run[r] EXCEPT !.stage = st].task = run[r].task
      BY <1>1 DEF RunRows
    <3> QED  BY <2>1, <3>1
  <2>2. CASE ClaimRun(r) \/ Expire(r)
    BY <2>1, <2>2 DEF ClaimRun, Expire, RunMoves
  <2>3. CASE NodeDies(r) \/ ReportFails(r)
    <3>1. run' = [run EXCEPT ![r] = [run[r] EXCEPT !.stage = "lost"]]
      BY <1>1, <2>3 DEF NodeDies, ReportFails
    <3> QED  BY <2>1, <3>1
  <2>4. ASSUME NEW ok \in BOOLEAN, ReportRun(r, ok)
        PROVE  \E row : /\ run' = [run EXCEPT ![r] = row]
                        /\ row.task = run[r].task
                        /\ row.stage = "judged" /\ row.copy = task[run[r].task]
    <3> DEFINE row == [run[r] EXCEPT !.stage = "judged", !.ok = ok, !.copy = task[run[r].task]]
    <3>1. row.stage = "judged" /\ row.task = run[r].task /\ row.copy = task[run[r].task]
      BY <1>1 DEF RunRows
    <3>2. run' = [run EXCEPT ![r] = row]
      BY <2>4 DEF ReportRun, RunMoves
    <3> QED  BY <3>1, <3>2
  <2> QED  BY <2>2, <2>3, <2>4
<1>6. PICK row : /\ run' = [run EXCEPT ![r] = row]
                 /\ row.task = run[r].task
                 /\ \/ row.stage \in {"running", "lost", "expired"}
                    \/ row.stage = "judged" /\ row.copy = task[run[r].task]
  BY <1>5
<1>7. \A s \in ToClose(task[run[r].task]) : delivered'[s] = "agent"
  <2>1. CASE run[r].stage = "queued"
    <3>1. ClaimRun(r)
      BY <2>1 DEF ClaimRun, ReportRun, Expire, NodeDies, ReportFails
    <3> QED  BY <1>2, <1>3, <1>4, <2>1, <3>1 DEF Brings
  <2>2. CASE run[r].stage # "queued"
    <3>1. run[r].stage \in {"running", "lost", "expired", "settled"}
      BY <2>2 DEF ClaimRun, Claimed, ReportRun, Expire, NodeDies, ReportFails
    <3> QED  BY <1>2, <1>3, <1>4, <3>1 DEF Brings
  <2> QED  BY <2>1, <2>2
<1>8. Brings(r)'
  <2>1. run'[r] = row /\ task' = task
    BY <1>1, <1>6
  <2> QED  BY <1>6, <1>7, <2>1 DEF Brings, ToClose
<1> QED  BY <1>1, <1>2, <1>4, <1>6, <1>8, OneRunMoves

\* A run that ends, or whose end closes signals and asks again.
LEMMA EndsKeepDelivery ==
  ASSUME DeliveryInv, WakeupInv, NEW r \in Runs,
         \/ SkipRun(r) \/ CancelRun(r) \/ WriteRun(r) \/ ReadSignalIDs(r) \/ AllClosed(r) \/ AskAgain(r)
         \/ CloseFails(r) \/ AskFails(r)
         \/ \E s \in Signals : CloseSignal(r, s)
  PROVE  DeliveryInv'
<1>1. /\ run \in [Runs -> RunRows] /\ run[r] \in RunRows /\ req \in [Requests -> Goroutines]
      /\ signal \in [Signals -> Statuses]
      /\ task' = task /\ delivered' = delivered
  BY DEF WakeupInv, TypeOK, SkipRun, CancelRun, CloseFails, AskFails, WriteRun, ReadSignalIDs, AllClosed,
         AskAgain, CloseSignal, RunMoves, history
<1>2. \A p \in Requests : req'[p] = req[p] \/ req'[p].pc \notin {"write", "start", "queue"}
  <2>1. req' = req \/ \E q, s : req' = [req EXCEPT ![q] = Asking(s)]
    BY DEF SkipRun, CancelRun, CloseFails, AskFails, WriteRun, ReadSignalIDs, AllClosed, AskAgain,
           CloseSignal, RunMoves
  <2> QED  BY <1>1, <2>1, HoldsNothing
<1>3. Brings(r)
  BY DEF DeliveryInv
<1>4. \A s \in Signals : signal'[s] = "final" => signal[s] = "final" \/ delivered'[s] = "agent"
  <2>1. ASSUME NEW s \in Signals, CloseSignal(r, s)
        PROVE  delivered[s] = "agent" /\ signal' = [signal EXCEPT ![s] = "final"]
    BY <1>3, <2>1 DEF CloseSignal, Brings
  <2>2. ~(\E s \in Signals : CloseSignal(r, s)) => signal' = signal
    BY DEF SkipRun, CancelRun, CloseFails, AskFails, WriteRun, ReadSignalIDs, AllClosed, AskAgain, RunMoves
  <2> QED  BY <1>1, <2>1, <2>2
<1>5. \E row : /\ run' = [run EXCEPT ![r] = row]
               /\ \/ row.stage \in {"none", "asking"}
                  \/ row.stage = "over" /\ run[r].stage = "settled" /\ row.task = run[r].task
                  \/ row.stage = "closing" /\ \A s \in row.ids : delivered[s] = "agent"
  <2>1. CASE SkipRun(r) \/ CancelRun(r) \/ AskFails(r) \/ AskAgain(r)
    <3>1. NoRun.stage = "none"
      BY DEF NoRun
    <3> QED  BY <2>1, <3>1 DEF SkipRun, CancelRun, AskFails, AskAgain, RunMoves
  <2>2. [NoRun EXCEPT !.stage = "asking"].stage = "asking"
    BY DEF NoRun
  <2>3. CASE AllClosed(r) \/ CloseFails(r)
    BY <2>2, <2>3 DEF AllClosed, CloseFails, RunMoves
  <2>4. CASE WriteRun(r)
    <3>1. [run[r] EXCEPT !.stage = "over", !.ids = {}].stage = "over"
          /\ [run[r] EXCEPT !.stage = "over", !.ids = {}].task = run[r].task
      BY <1>1 DEF RunRows
    <3> QED  BY <2>2, <2>4, <3>1 DEF WriteRun, RunMoves
  <2>5. CASE ReadSignalIDs(r)
    <3> DEFINE ids == ToClose(task[run[r].task])
               row == [NoRun EXCEPT !.stage = "closing", !.ids = ids]
    <3>1. run' = [run EXCEPT ![r] = row] /\ \A s \in ids : delivered[s] = "agent"
      BY <1>3, <2>5 DEF ReadSignalIDs, RunMoves, Brings, ToClose
    <3> HIDE DEF ids
    <3>2. row.stage = "closing" /\ row.ids = ids
      BY DEF NoRun
    <3> QED  BY <3>1, <3>2
  <2>6. ASSUME NEW s \in Signals, CloseSignal(r, s)
        PROVE  \E row : /\ run' = [run EXCEPT ![r] = row]
                        /\ row.stage = "closing" /\ \A x \in row.ids : delivered[x] = "agent"
    <3>1. [run[r] EXCEPT !.ids = @ \ {s}].stage = "closing"
          /\ [run[r] EXCEPT !.ids = @ \ {s}].ids = run[r].ids \ {s}
      BY <1>1, <2>6 DEF CloseSignal, RunRows
    <3>2. \A x \in run[r].ids : delivered[x] = "agent"
      BY <1>3, <2>6 DEF CloseSignal, Brings
    <3> QED  BY <2>6, <3>1, <3>2 DEF CloseSignal, RunMoves
  <2> QED  BY <2>1, <2>3, <2>4, <2>5, <2>6
<1>6. PICK row : /\ run' = [run EXCEPT ![r] = row]
                 /\ \/ row.stage \in {"none", "asking"}
                    \/ row.stage = "over" /\ run[r].stage = "settled" /\ row.task = run[r].task
                    \/ row.stage = "closing" /\ \A s \in row.ids : delivered[s] = "agent"
  BY <1>5
<1>7. Brings(r)'
  <2>1. run'[r] = row
    BY <1>1, <1>6
  <2> QED  BY <1>1, <1>3, <1>6, <2>1 DEF Brings
<1> QED  BY <1>1, <1>2, <1>4, <1>6, <1>7, OneRunMoves DEF Carries

\* The record a report archives is the one it read: nobody else has written it.
LEMMA SettleKeepsDelivery ==
  ASSUME DeliveryInv, WakeupInv, NEW r \in Runs, SettleTask(r)
  PROVE  DeliveryInv'
<1> DEFINE t == run[r].task
           row == [run[r] EXCEPT !.stage = "settled", !.copy = NoRow]
<1>1. /\ run \in [Runs -> RunRows] /\ run[r] \in RunRows /\ task \in [Tasks -> TaskRows]
      /\ run[r].stage = "judged" /\ Carries(r) /\ Brings(r) /\ t \in Tasks /\ run[r].copy = task[t]
      /\ UNCHANGED <<signal, req, delivered>>
  BY TaskOf DEF WakeupInv, TypeOK, SettleTask, RunMoves, DeliveryInv, Carries, Brings, history
<1>2. /\ \A x \in Tasks : x # t => task'[x] = task[x]
      /\ task'[t].status = "done" /\ ToClose(task'[t]) = ToClose(task[t])
  <2>1. CASE task[t].status = "done"
    BY <1>1, <2>1 DEF SettleTask
  <2>2. CASE task[t].status # "done"
    <3> DEFINE settled == [task[t] EXCEPT !.status = "done"]
    <3>1. task' = [task EXCEPT ![t] = settled]
      BY <1>1, <2>2 DEF SettleTask
    <3>2. settled.status = "done" /\ settled.kind = task[t].kind /\ settled.ids = task[t].ids
      BY <1>1 DEF TaskRows
    <3> HIDE DEF settled
    <3> QED  BY <1>1, <3>1, <3>2 DEF ToClose
  <2> QED  BY <2>1, <2>2
<1>3. run' = [run EXCEPT ![r] = row] /\ row.stage = "settled" /\ row.task = t
  BY <1>1 DEF SettleTask, RunMoves, RunRows
<1> HIDE DEF row, t
<1>4. \A x \in Runs : run'[x] = IF x = r THEN row ELSE run[x]
  BY <1>1, <1>3
<1>5. \A x \in Runs : Carries(x) => run[x].task \in Tasks
  BY TaskOf
<1>6. \A x \in Runs : Carries(x) /\ x # r => run[x].task # t
  BY <1>1 DEF DeliveryInv, t
<1>7. \A x \in Runs : Carries(x) => task'[run[x].task].status # "pending"
  BY <1>2, <1>5 DEF DeliveryInv
<1>8. \A p \in Requests : req[p].pc = "queue" => task'[req[p].task] = task[req[p].task]
  BY <1>1, <1>2 DEF DeliveryInv, Holds, WakeupInv, t
<1>9. ASSUME NEW x \in Runs PROVE Brings(x)'
  <2>1. CASE x = r
    BY <1>1, <1>2, <1>3, <1>4, <2>1 DEF Brings, t
  <2>2. CASE x # r
    <3>1. Brings(x) /\ run'[x] = run[x] /\ (Carries(x) => task'[run[x].task] = task[run[x].task])
      BY <1>2, <1>4, <1>5, <1>6, <2>2 DEF DeliveryInv
    <3> QED  BY <1>1, <3>1 DEF Brings, Carries
  <2> QED  BY <2>1, <2>2
<1>10. FinalWasDelivered'
  BY <1>1 DEF DeliveryInv, FinalWasDelivered
<1>11. \A x \in Runs : Carries(x)' => Carries(x) /\ run'[x].task = run[x].task
  BY <1>1, <1>3, <1>4 DEF Carries, t
<1> QED  BY <1>1, <1>7, <1>8, <1>9, <1>10, <1>11, RunsMove

\* A report that is forgotten leaves its run to its lease.
LEMMA RestartKeepsDelivery ==
  ASSUME DeliveryInv, WakeupInv, Restart
  PROVE  DeliveryInv'
<1>1. /\ UNCHANGED <<signal, task, delivered>>
      /\ \A p \in Requests : req'[p].pc \notin {"write", "start", "queue"}
  BY HoldsNothing DEF Restart
<1>2. ASSUME NEW r \in Runs
      PROVE  \/ run'[r] = run[r]
             \/ run'[r].stage = "none"
             \/ /\ run[r].stage \in {"judged", "settled"}
                /\ run'[r].stage = "lost" /\ run'[r].task = run[r].task
  <2>1. run[r] \in RunRows
    BY DEF WakeupInv, TypeOK
  <2>2. CASE run[r].stage \in {"judged", "settled"}
    <3>1. run'[r] = [run[r] EXCEPT !.stage = "lost", !.copy = NoRow]
      BY <2>2 DEF Restart
    <3> QED  BY <2>1, <2>2, <3>1 DEF RunRows
  <2>3. CASE run[r].stage \notin {"judged", "settled"}
    BY <2>3 DEF Restart, NoRun
  <2> QED  BY <2>2, <2>3
<1>3. \A r \in Runs : Carries(r)' => Carries(r) /\ run'[r].task = run[r].task
  BY <1>2 DEF Carries
<1>4. \A r \in Runs : Brings(r)'
  BY <1>1, <1>2 DEF DeliveryInv, Brings
<1>5. FinalWasDelivered'
  BY <1>1 DEF DeliveryInv, FinalWasDelivered
<1> QED  BY <1>1, <1>3, <1>4, <1>5, RunsMove DEF DeliveryInv

LEMMA AgentKeepsDelivery ==
  ASSUME DeliveryInv, WakeupInv, NEW x \in Signals, AgentStep(x)
  PROVE  DeliveryInv'
<1>1. UNCHANGED <<task, req, run>>
  BY DEF AgentStep, AgentLists, AgentReopens, AgentSets, AgentActs
<1>2. signal \in [Signals -> Statuses] /\ delivered \in [Signals -> {"no", "queued", "agent"}]
  BY DEF WakeupInv, TypeOK
<1>3. \A s \in Signals : delivered[s] = "agent" => delivered'[s] = "agent"
  BY <1>2 DEF AgentStep, AgentLists, AgentReopens, AgentSets
<1>4. \A s \in Signals : signal'[s] = "final" => signal[s] = "final" \/ delivered'[s] = "agent"
  BY <1>2 DEF AgentStep, AgentLists, AgentReopens, AgentSets
<1> QED  BY <1>1, <1>3, <1>4, RequestsLook

\* While no two requests hold copies of one task, no signal is closed that the
\* agent was not given: the record read at the end of a run
\* (markAttentionSignalsForWakeupRun) quotes what the run's prompt did.  The
\* stale copies of ensurePendingAttentionWakeupTask are the only way around it.
THEOREM FinalDeliveredWhileApart == Spec /\ []CopiesApart => []FinalWasDelivered
<1>1. Init => DeliveryInv
  <2>1. ASSUME Init, NEW q \in Requests PROVE req[q].pc = "idle"
    BY <2>1 DEF Init, IdleReq
  <2>2. ASSUME Init, NEW r \in Runs PROVE run[r].stage = "none"
    BY <2>2 DEF Init, NoRun
  <2>3. Init => FinalWasDelivered
    BY DEF Init, FinalWasDelivered
  <2> QED  BY <2>1, <2>2, <2>3 DEF DeliveryInv, Holds, Carries, Brings
<1>2. WakeupInv /\ DeliveryInv /\ CopiesApart /\ [Next]_vars => DeliveryInv'
  <2> SUFFICES ASSUME WakeupInv, DeliveryInv, CopiesApart, [Next]_vars PROVE DeliveryInv'
    OBVIOUS
  <2>1. ASSUME NEW q \in Requests, RequestStep(q)
        PROVE  DeliveryInv'
    BY <2>1, LooksKeepDelivery, WritesKeepDelivery, QueueKeepsDelivery DEF RequestStep, Ensure
  <2>2. ASSUME NEW r \in Runs, RunStep(r) \/ RunFails(r) \/ CancelRun(r) \/ AskFails(r)
        PROVE  DeliveryInv'
    BY <2>2, StagesKeepDelivery, EndsKeepDelivery, SettleKeepsDelivery DEF RunStep, ReportStep, RunFails
  <2>3. CASE UNCHANGED vars
    BY <2>3 DEF vars, DeliveryInv, Holds, Carries, Brings, FinalWasDelivered
  <2> QED  BY <2>1, <2>2, <2>3, SourcesKeepDelivery, FailuresKeepDelivery, AgentKeepsDelivery,
              RestartKeepsDelivery DEF Next
<1>3. DeliveryInv => FinalWasDelivered
  BY DEF DeliveryInv
<1> QED  BY <1>1, <1>2, <1>3, WakeupInvariant, PTL DEF Spec

=============================================================================
