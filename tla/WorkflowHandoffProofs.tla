----------------------- MODULE WorkflowHandoffProofs -----------------------
(***************************************************************************)
(* No step is skipped and no stage is left before the branches that were   *)
(* seen in it are through, for every workflow, any number of handlers, and *)
(* however often they overlap, repeat or are cut short.                    *)
(***************************************************************************)
EXTENDS WorkflowHandoff, TLAPS

USE StepAssumption, EdgeAssumption, BranchAssumption

(* Predicates of a row or of a handler's record, given the events recorded   *)
(* and the branches that have been completed                                 *)

RowOK(w) == w.status = "active" <=> w.active \in Steps

\* NoStepSkipped, of the steps and of a row.
ReachedBy(E, s) ==
  \/ s = StartStep
  \/ \E e \in E : e.outcome # Failed /\ Edge[e.step][e.outcome] = s

BackedBy(E, w) ==
  /\ w.active # NoStep => ReachedBy(E, w.active)
  /\ w.status = "completed" =>
       \E e \in E : e.outcome # Failed /\ Edge[e.step][e.outcome] = End
  /\ w.status = "failed" => \E e \in E : e.outcome = Failed

\* Where a completion has a copy of a run with an active step.
ExpectsStep == {"instance", "run", "next", "place", "spawn", "row", "drop",
                "queue", "enqueue", "notify"}

GoodReq(r) ==
  /\ r \in ReqRow
  /\ RowOK(r.wf)
  /\ r.kind \in Completions => r.wf.status # "cancelled"
  /\ r.kind \in Completions /\ r.pc \in ExpectsStep => r.wf.active \in Steps
  /\ r.kind = "branch" /\ r.pc = "parent" =>
       r.outcome = Failed \/ r.wf.status # "none"
  /\ r.kind = "branch" /\ r.pc = "skip" => StageOf[r.branch] \in AnyJoin
  /\ r.kind = "view" => r.step \in Steps
  /\ r.kind \notin {"none", "branch", "view"} => r.agent \in Agents
  /\ r.pc = "enqueue" => r.agent \in Agents
  /\ r.kind \in Completions /\ r.pc \in {"drop", "queue"} =>
       ActorOf[r.wf.active] \in Agents
  /\ r.kind = "branch" => r.branch \in Branches
  /\ r.kind \in Completions /\ r.pc = "notify" =>
       ActorOf[r.wf.active] \in People

RecordedIn(E, r) ==
  r.kind \in Completions /\ r.pc = "run" =>
    [step |-> r.wf.active, outcome |-> r.outcome] \in E

\* JoinWaitsForListed, from the listing on.
ListedIn(D, r) ==
  /\ r.kind = "branch" /\ r.pc = "save" =>
       \A b \in Branches : r.list[b] = "completed" => b \in D
  /\ /\ r.kind = "branch" /\ r.pc \in {"read", "instance", "run"}
     /\ StageOf[r.branch] \notin AnyJoin
     => /\ r.branch \in D
        /\ \A b \in Branches \ {r.branch} : r.list[b] # "none" => b \in D

Sound(E, D, r) ==
  GoodReq(r) /\ BackedBy(E, r.wf) /\ RecordedIn(E, r) /\ ListedIn(D, r)

HandoffInv ==
  /\ TypeOK
  /\ RowOK(run)
  /\ BackedBy(events, run)
  /\ \A e \in events : ReachedBy(events, e.step)
  /\ \A b \in Branches : branch[b] = "completed" => b \in done
  /\ \A q \in Requests : Sound(events, done, req[q])

-----------------------------------------------------------------------------
(* What holds of a record goes on holding when there are more events and     *)
(* more completed branches                                                   *)

LEMMA BackedStays ==
  ASSUME NEW E, NEW F, E \subseteq F, NEW w, BackedBy(E, w)
  PROVE  BackedBy(F, w)
  BY DEF BackedBy, ReachedBy

LEMMA SoundStays ==
  ASSUME NEW E, NEW F, E \subseteq F, NEW D, NEW G, D \subseteq G,
         NEW r, Sound(E, D, r)
  PROVE  Sound(F, G, r)
<1>1. BackedBy(F, r.wf)
  BY BackedStays DEF Sound
<1>2. RecordedIn(F, r)
  BY DEF Sound, RecordedIn
<1>3. ListedIn(G, r)
  BY DEF Sound, ListedIn
<1> QED  BY <1>1, <1>2, <1>3 DEF Sound

LEMMA IdleSound ==
  ASSUME NEW E, NEW D
  PROVE  Idle \in ReqRow /\ Sound(E, D, Idle)
<1>1. Idle \in ReqRow
  BY DEF Idle, ReqRow, Kinds, Places, NoTask, TaskRow, NoActor, RunRow,
         NoBranches, BranchStatus
<1>2. GoodReq(Idle)
  BY <1>1 DEF GoodReq, Idle, RowOK, Completions
<1> QED  BY <1>1, <1>2 DEF Sound, BackedBy, RecordedIn, ListedIn, Idle, Completions

\* What is typed beside the handlers.
RestTyped ==
  /\ inst \in [Steps -> {"pending", "completed", "failed", "cancelled"}]
  /\ task \in [Agents -> TaskRow]
  /\ btask \in [Branches -> {"none", "open", "closed"}]
  /\ inbox \subseteq People
  /\ card \in [Steps -> {"none", "sent", "acted"}]
  /\ arun \in [Agents -> {"none", "queued", "running", "settling"}]
  /\ did \subseteq Agents
  /\ plain \in BOOLEAN
  /\ extra \in 0..MaxExtra

Only(q) == /\ req' \in [Requests -> ReqRow]
           /\ \A p \in Requests \ {q} : req'[p] = req[p]

\* What a step of handler q has to leave right.
LEMMA StepKeepsInv ==
  ASSUME HandoffInv, RestTyped', NEW q \in Requests, Only(q),
         run' \in RunRow, RowOK(run'), BackedBy(events', run'),
         events' \subseteq [step : Steps, outcome : Outcomes \cup {Failed}],
         events \subseteq events', \A e \in events' : ReachedBy(events', e.step),
         branch' \in [Branches -> BranchStatus],
         done' \subseteq Branches, done \subseteq done',
         \A b \in Branches : branch'[b] = "completed" => b \in done',
         Sound(events', done', req'[q])
  PROVE  HandoffInv'
<1>1. TypeOK'
  BY DEF TypeOK, RestTyped, Only
<1>2. \A p \in Requests : Sound(events', done', req'[p])
  <2> TAKE p \in Requests
  <2>1. CASE p = q
    BY <2>1
  <2>2. CASE p # q
    <3>1. Sound(events, done, req[p]) /\ req'[p] = req[p]
      BY <2>2 DEF HandoffInv, Only
    <3> QED  BY <3>1, SoundStays
  <2> QED  BY <2>1, <2>2
<1> QED  BY <1>1, <1>2 DEF HandoffInv

\* A step that leaves alone what the invariant is about.
LEMMA QuietStepKeepsInv ==
  ASSUME HandoffInv, RestTyped', NEW q \in Requests, Only(q),
         UNCHANGED <<run, events, branch, done>>, Sound(events, done, req'[q])
  PROVE  HandoffInv'
  BY StepKeepsInv DEF HandoffInv, TypeOK

LEMMA RestIsTyped == ASSUME HandoffInv PROVE RestTyped
  BY DEF HandoffInv, TypeOK, RestTyped

LEMMA ReqSound ==
  ASSUME HandoffInv, NEW q \in Requests
  PROVE  req[q] \in ReqRow /\ Sound(events, done, req[q])
  BY DEF HandoffInv, TypeOK

\* A handler that ends.
LEMMA ReturnSound ==
  ASSUME HandoffInv, NEW q \in Requests, Return(q)
  PROVE  Only(q) /\ Sound(events, done, req'[q])
<1>1. req \in [Requests -> ReqRow] /\ req' = [req EXCEPT ![q] = Idle]
  BY DEF HandoffInv, TypeOK, Return
<1> QED  BY <1>1, IdleSound DEF Only

\* Where a handler may go without looking at its copies.
Onward == {"unbox", "archive", "close", "check", "list", "clear", "cancelRead",
           "cancelStep", "cancelRuns", "reread", "resave", "find", "report"}

LEMMA GotoFields ==
  ASSUME HandoffInv, NEW q \in Requests, NEW pc \in Places, Goto(q, pc)
  PROVE  /\ Only(q)
         /\ req'[q].pc = pc
         /\ req'[q].kind = req[q].kind
         /\ req'[q].agent = req[q].agent
         /\ req'[q].copy = req[q].copy
         /\ req'[q].wf = req[q].wf
         /\ req'[q].outcome = req[q].outcome
         /\ req'[q].branch = req[q].branch
         /\ req'[q].list = req[q].list
         /\ req'[q].joined = req[q].joined
         /\ req'[q].step = req[q].step
         /\ req'[q].card = req[q].card
<1>1. req \in [Requests -> ReqRow] /\ req' = [req EXCEPT ![q].pc = pc]
  BY DEF HandoffInv, TypeOK, Goto
<1>2. req[q] \in ReqRow
  BY <1>1
<1>3. [req[q] EXCEPT !.pc = pc] \in ReqRow
  BY <1>2 DEF ReqRow
<1>4. req' = [req EXCEPT ![q] = [req[q] EXCEPT !.pc = pc]]
  BY <1>1
<1>5. req'[q] = [req[q] EXCEPT !.pc = pc]
  BY <1>1, <1>4
<1>6. Only(q)
  BY <1>1, <1>3, <1>4 DEF Only
<1> QED  BY <1>2, <1>5, <1>6 DEF ReqRow

LEMMA GotoSound ==
  ASSUME HandoffInv, NEW q \in Requests, NEW pc \in Places, Goto(q, pc),
         pc \notin {"save", "read", "instance", "run", "skip", "parent"},
         req[q].kind \in Completions /\ pc \in ExpectsStep =>
           req[q].wf.active \in Steps,
         pc = "enqueue" => req[q].agent \in Agents,
         req[q].kind \in Completions /\ pc \in {"drop", "queue"} =>
           ActorOf[req[q].wf.active] \in Agents,
         pc = "notify" => ActorOf[req[q].wf.active] \in People
  PROVE  Only(q) /\ Sound(events, done, req'[q])
<1>1. Sound(events, done, req[q])
  BY ReqSound
<1>2. req'[q] \in ReqRow
  BY GotoFields DEF Only
<1>3. GoodReq(req'[q])
  BY <1>1, <1>2, GotoFields DEF Sound, GoodReq
<1> QED  BY <1>1, <1>3, GotoFields DEF Sound, RecordedIn, ListedIn

-----------------------------------------------------------------------------
(* The steps that are no handler's *)

TaskStatus == {"none", "pending", "in_progress", "awaiting_confirmation",
               "blocked", "done_success", "done_failed", "cancelled"}

Actors == Agents \cup People \cup {NoActor}

LEMMA PutTyped ==
  ASSUME HandoffInv, NEW a, NEW w \in Actors, NEW st \in TaskStatus,
         Put(a, st, w)
  PROVE  task' \in [Agents -> TaskRow]
<1>1. [status |-> st, assignee |-> w] \in TaskRow
  BY DEF TaskRow, Actors, TaskStatus
<1> QED  BY <1>1 DEF Put, HandoffInv, TypeOK

LEMMA NoHandlerKeepsInv ==
  ASSUME HandoffInv, RestTyped', UNCHANGED <<run, events, branch, done, req>>
  PROVE  HandoffInv'
  BY DEF HandoffInv, TypeOK, RestTyped

LEMMA InboxTyped ==
  ASSUME HandoffInv, RemoveFromInbox
  PROVE  inbox' \subseteq People
  BY DEF RemoveFromInbox, HandoffInv, TypeOK

LEMMA RunStepKeepsInv ==
  ASSUME HandoffInv, RunStep
  PROVE  HandoffInv'
<1>1. PICK a \in Agents : ClaimRun(a) \/ CancelEnded(a)
  BY DEF RunStep
<1>2. CASE CancelEnded(a)
  <2>1. extra' \in 0..MaxExtra
    BY <1>2, RestIsTyped DEF RestTyped, CancelEnded
  <2>2. plain' \in BOOLEAN
    BY <1>2, RestIsTyped DEF RestTyped, CancelEnded, Quiet
  <2>3. inbox' \subseteq People
    BY <1>2, InboxTyped DEF CancelEnded
  <2>4. RestTyped'
    BY <1>2, <2>1, <2>2, <2>3, RestIsTyped DEF CancelEnded, RestTyped, rows, history
  <2> QED  BY <1>2, <2>4, NoHandlerKeepsInv DEF CancelEnded, rows, history
<1>3. CASE ClaimRun(a)
  <2>1. RestTyped'
    BY <1>3, RestIsTyped DEF ClaimRun, RestTyped, rows, tasks
  <2> QED  BY <1>3, <2>1, NoHandlerKeepsInv DEF ClaimRun, rows, tasks
<1> QED  BY <1>1, <1>2, <1>3

LEMMA EndBranchRunKeepsInv ==
  ASSUME HandoffInv, NEW b \in Branches, EndBranchRun(b)
  PROVE  HandoffInv'
<1>1. extra' \in 0..MaxExtra
  BY RestIsTyped DEF RestTyped, EndBranchRun
<1>2. RestTyped'
  BY <1>1, RestIsTyped DEF EndBranchRun, RestTyped, rows, history
<1> QED  BY <1>2, NoHandlerKeepsInv DEF EndBranchRun, rows, history

LEMMA RestartKeepsInv ==
  ASSUME HandoffInv, Restart
  PROVE  HandoffInv'
<1>1. RestTyped'
  <2>1. extra' \in 0..MaxExtra
    BY RestIsTyped DEF RestTyped, Restart
  <2> QED  BY <2>1, RestIsTyped DEF Restart, RestTyped, rows, tasks, history
<1>2. req' = [q \in Requests |-> Idle]
  BY DEF Restart
<1>3. req' \in [Requests -> ReqRow]
  BY <1>2, IdleSound
<1>4. \A q \in Requests : Sound(events, done, req'[q])
  BY <1>2, IdleSound
<1>5. UNCHANGED <<run, events, branch, done>>
  BY DEF Restart, rows, history
<1> QED  BY <1>1, <1>3, <1>4, <1>5 DEF HandoffInv, TypeOK, RestTyped

-----------------------------------------------------------------------------
(* Calls *)

\* A record that starts from Idle and has no copy of the run to be right about.
LEMMA BeginKeepsInv ==
  ASSUME HandoffInv, NEW q \in Requests, NEW r, NEW expected \in BOOLEAN,
         Begin(q, expected, r), r \in ReqRow,
         r.wf = Idle.wf, r.kind # "none", r.pc \in Onward \cup {"read", "persist", "fail", "start"},
         r.kind = "branch" => r.pc = "check" /\ r.branch \in Branches,
         r.kind = "view" => r.step \in Steps,
         r.kind \notin {"none", "branch", "view"} => r.agent \in Agents,
         UNCHANGED <<rows, tasks, history>>,
         arun' \in [Agents -> {"none", "queued", "running", "settling"}]
  PROVE  HandoffInv'
<1>1. req \in [Requests -> ReqRow] /\ req' = [req EXCEPT ![q] = r]
  BY DEF HandoffInv, TypeOK, Begin
<1>2. Only(q) /\ req'[q] = r
  BY <1>1 DEF Only
<1>3. Sound(events, done, r)
  <2>1. r.wf.status = "none" /\ r.wf.active = NoStep
    BY DEF Idle
  <2>2. GoodReq(r)
    BY <2>1 DEF GoodReq, RowOK, Onward, ExpectsStep
  <2> QED  BY <2>1, <2>2 DEF Sound, BackedBy, RecordedIn, ListedIn, Onward
<1>4. extra' \in 0..MaxExtra /\ plain' \in BOOLEAN
  BY DEF HandoffInv, TypeOK, Begin, Quiet
<1>5. RestTyped'
  BY <1>4, RestIsTyped DEF RestTyped, rows, tasks, history
<1> QED  BY <1>2, <1>3, <1>5, QuietStepKeepsInv DEF rows, history

LEMMA CallKeepsInv ==
  ASSUME HandoffInv, NEW q \in Requests, Call(q)
  PROVE  HandoffInv'
<1>a. arun \in [Agents -> {"none", "queued", "running", "settling"}]
  BY DEF HandoffInv, TypeOK
<1>i. Idle \in ReqRow
  BY IdleSound
<1>t. \A a \in Agents : task[a] \in TaskRow
  BY DEF HandoffInv, TypeOK
<1>p. /\ {"start", "read", "check", "persist", "reread", "fail", "report"} \subseteq Places
      /\ {"start", "done", "review", "branch", "cancel", "view", "settle"} \subseteq Kinds
  BY DEF Kinds, Places
<1>1. CASE \E a \in Agents : ReportRun(q, a)
  <2>1. PICK a \in Agents : ReportRun(q, a)
    BY <1>1
  <2> DEFINE pc == IF NotCompleted(task[a]) THEN "fail" ELSE "report"
             r == [Idle EXCEPT !.kind = "settle", !.agent = a, !.copy = task[a],
                     !.pc = pc]
             x == a \in did
  <2>2. Begin(q, x, r) /\ UNCHANGED <<rows, tasks, history>>
    BY <2>1 DEF ReportRun
  <2>3. pc \in {"fail", "report"} /\ x \in BOOLEAN
    OBVIOUS
  <2> HIDE DEF pc, x
  <2>4. /\ r \in ReqRow /\ r.wf = Idle.wf /\ r.kind = "settle" /\ r.agent = a
        /\ r.pc = pc
    BY <1>i, <1>t, <2>3, <1>p DEF ReqRow
  <2>5. arun' \in [Agents -> {"none", "queued", "running", "settling"}]
    BY <1>a, <2>1 DEF ReportRun
  <2> HIDE DEF r
  <2> QED  BY <2>2, <2>3, <2>4, <2>5, BeginKeepsInv DEF Onward
<1>2. CASE \E a \in Agents : CallCancel(q, a)
  <2>1. PICK a \in Agents : CallCancel(q, a)
    BY <1>2
  <2> DEFINE r == [Idle EXCEPT !.kind = "cancel", !.pc = "persist",
                     !.agent = a, !.copy = task[a]]
  <2>2. r \in ReqRow /\ r.wf = Idle.wf /\ r.kind = "cancel" /\ r.agent = a /\ r.pc = "persist"
    BY <1>i, <1>t, <1>p DEF ReqRow
  <2>3. Begin(q, FALSE, r) /\ UNCHANGED <<rows, tasks, arun, history>>
    BY <2>1 DEF CallCancel
  <2> HIDE DEF r
  <2> QED  BY <1>a, <2>2, <2>3, BeginKeepsInv
<1>3. CASE \E a \in Agents, o \in Outcomes \cup {Failed} : CallStepDone(q, a, o)
  <2>1. PICK a \in Agents, o \in Outcomes \cup {Failed} : CallStepDone(q, a, o)
    BY <1>3
  <2> DEFINE r == [Idle EXCEPT !.kind = "done", !.pc = "read", !.agent = a,
                     !.copy = task[a], !.outcome = o]
             x == /\ run.active \in Steps \ Parallel
                  /\ ActorOf[run.active] = a
                  /\ task[a].status = "in_progress"
  <2>2. r \in ReqRow /\ r.wf = Idle.wf /\ r.kind = "done" /\ r.agent = a /\ r.pc = "read"
    BY <1>i, <1>t, <1>p DEF ReqRow
  <2>3. Begin(q, x, r) /\ UNCHANGED <<rows, tasks, arun, history>>
    BY <2>1 DEF CallStepDone
  <2>4. x \in BOOLEAN
    OBVIOUS
  <2> HIDE DEF r, x
  <2> QED  BY <1>a, <2>2, <2>3, <2>4, BeginKeepsInv
<1>4. CASE \E a \in Agents, o \in Outcomes : CallReview(q, a, o)
  <2>1. PICK a \in Agents, o \in Outcomes : CallReview(q, a, o)
    BY <1>4
  <2> DEFINE r == [Idle EXCEPT !.kind = "review", !.pc = "read", !.agent = a,
                     !.copy = task[a], !.outcome = o]
             x == run.active # NoStep /\ ActorOf[run.active] \in inbox
  <2>2. r \in ReqRow /\ r.wf = Idle.wf /\ r.kind = "review" /\ r.agent = a /\ r.pc = "read"
    BY <1>i, <1>t, <1>p DEF ReqRow
  <2>3. Begin(q, x, r) /\ UNCHANGED <<rows, tasks, arun, history>>
    BY <2>1 DEF CallReview
  <2>4. x \in BOOLEAN
    OBVIOUS
  <2> HIDE DEF r, x
  <2> QED  BY <1>a, <2>2, <2>3, <2>4, BeginKeepsInv
<1>7. CASE \E a \in Agents, o \in Outcomes, s \in Steps : CallCard(q, a, s, o)
  <2>1. PICK a \in Agents, o \in Outcomes, s \in Steps : CallCard(q, a, s, o)
    BY <1>7
  <2> DEFINE r == [Idle EXCEPT !.kind = "review", !.pc = "read", !.agent = a,
                     !.copy = task[a], !.outcome = o, !.step = s, !.card = TRUE]
  <2>2. r \in ReqRow /\ r.wf = Idle.wf /\ r.kind = "review" /\ r.agent = a /\ r.pc = "read"
    BY <1>i, <1>t, <1>p DEF ReqRow
  <2>3. Begin(q, run.active = s, r) /\ UNCHANGED <<rows, tasks, arun, history>>
    BY <2>1 DEF CallCard
  <2> HIDE DEF r
  <2> QED  BY <1>a, <2>2, <2>3, BeginKeepsInv
<1>8. CASE \E a \in Agents : CallStart(q, a)
  <2>1. PICK a \in Agents : CallStart(q, a)
    BY <1>8
  <2> DEFINE r == [Idle EXCEPT !.kind = "start", !.pc = "start",
                     !.agent = a, !.copy = task[a]]
  <2>2. r \in ReqRow /\ r.wf = Idle.wf /\ r.kind = "start" /\ r.agent = a /\ r.pc = "start"
    BY <1>i, <1>t, <1>p DEF ReqRow
  <2>3. Begin(q, TRUE, r) /\ UNCHANGED <<rows, tasks, arun, history>>
    BY <2>1 DEF CallStart
  <2> HIDE DEF r
  <2> QED  BY <1>a, <2>2, <2>3, BeginKeepsInv
<1>5. CASE \E b \in Branches, o \in Outcomes \cup {Failed} : CallBranchDone(q, b, o)
  <2>1. PICK b \in Branches, o \in Outcomes \cup {Failed} : CallBranchDone(q, b, o)
    BY <1>5
  <2> DEFINE r == [Idle EXCEPT !.kind = "branch", !.pc = "check", !.branch = b,
                     !.outcome = o]
             x == btask[b] = "open" /\ run.active = StageOf[b]
  <2>2. /\ r \in ReqRow /\ r.wf = Idle.wf /\ r.kind = "branch" /\ r.branch = b
        /\ r.pc = "check"
    BY <1>i, <1>p DEF ReqRow
  <2>3. Begin(q, x, r) /\ UNCHANGED <<rows, tasks, arun, history>>
    BY <2>1 DEF CallBranchDone
  <2>4. x \in BOOLEAN
    OBVIOUS
  <2> HIDE DEF r, x
  <2> QED  BY <1>a, <2>2, <2>3, <2>4, BeginKeepsInv DEF Onward
<1>6. CASE CallView(q)
  <2> DEFINE r == [Idle EXCEPT !.kind = "view", !.pc = "reread",
                     !.step = run.active]
  <2>1. run.active \in Steps
    BY <1>6 DEF CallView
  <2>2. /\ r \in ReqRow /\ r.wf = Idle.wf /\ r.kind = "view" /\ r.pc = "reread"
        /\ r.step \in Steps
    BY <1>i, <2>1, <1>p DEF ReqRow
  <2>3. Begin(q, FALSE, r) /\ UNCHANGED <<rows, tasks, arun, history>>
    BY <1>6 DEF CallView
  <2> HIDE DEF r
  <2> QED  BY <1>a, <2>2, <2>3, BeginKeepsInv DEF Onward
<1> QED  BY <1>1, <1>2, <1>3, <1>4, <1>5, <1>6, <1>7, <1>8 DEF Call

-----------------------------------------------------------------------------
(* The transition *)

\* What a handler that moves has to leave right when it leaves alone what the
\* invariant is about and goes on to a place where nothing new is claimed.
LEMMA GotoKeepsInv ==
  ASSUME HandoffInv, NEW q \in Requests, NEW pc \in Places, Goto(q, pc),
         pc \notin {"save", "read", "instance", "run", "skip", "parent"},
         req[q].kind \in Completions /\ pc \in ExpectsStep =>
           req[q].wf.active \in Steps,
         pc = "enqueue" => req[q].agent \in Agents,
         req[q].kind \in Completions /\ pc \in {"drop", "queue"} =>
           ActorOf[req[q].wf.active] \in Agents,
         pc = "notify" => ActorOf[req[q].wf.active] \in People,
         RestTyped', UNCHANGED <<run, events, branch, done>>
  PROVE  HandoffInv'
  BY GotoSound, QuietStepKeepsInv

LEMMA ReturnKeepsInv ==
  ASSUME HandoffInv, NEW q \in Requests, Return(q),
         RestTyped', UNCHANGED <<run, events, branch, done>>
  PROVE  HandoffInv'
  BY ReturnSound, QuietStepKeepsInv

LEMMA ReadRunKeepsInv ==
  ASSUME HandoffInv, NEW q \in Requests, ReadRun(q)
  PROVE  HandoffInv'
<1>1. RestTyped' /\ UNCHANGED <<run, events, branch, done>>
  BY RestIsTyped DEF ReadRun, RestTyped, rows, tasks, history
<1>2. CASE run.active # NoStep
  <2> DEFINE r == [req[q] EXCEPT !.wf = run, !.pc = "instance"]
  <2>1. req' = [req EXCEPT ![q] = r]
    BY <1>2 DEF ReadRun
  <2>2. run \in RunRow /\ run.active \in Steps /\ run.status = "active"
    BY <1>2 DEF HandoffInv, TypeOK, RunRow, RowOK
  <2>3. req[q] \in ReqRow /\ Sound(events, done, req[q])
    BY ReqSound
  <2>4. /\ r \in ReqRow /\ r.wf = run /\ r.pc = "instance"
        /\ r.kind = req[q].kind /\ r.agent = req[q].agent
        /\ r.branch = req[q].branch
        /\ r.list = req[q].list /\ r.step = req[q].step
    BY <2>2, <2>3 DEF ReqRow, Places
  <2>5. req \in [Requests -> ReqRow] /\ At(q, Completions, "read")
    BY DEF HandoffInv, TypeOK, ReadRun
  <2> HIDE DEF r
  <2>6. Only(q) /\ req'[q] = r
    BY <2>1, <2>4, <2>5 DEF Only
  <2>7. GoodReq(r)
    BY <2>2, <2>3, <2>4 DEF Sound, GoodReq, RowOK
  <2>8. Sound(events, done, r)
    BY <2>3, <2>4, <2>5, <2>7 DEF Sound, HandoffInv, RecordedIn, ListedIn, At
  <2> QED  BY <1>1, <2>6, <2>8, QuietStepKeepsInv
<1>3. CASE run.active = NoStep
  <2>1. Return(q) \/ Goto(q, "unbox") \/ Goto(q, "archive")
    BY <1>3 DEF ReadRun, At, Completions
  <2> QED  BY <1>1, <2>1, GotoKeepsInv, ReturnKeepsInv DEF Places, ExpectsStep
<1> QED  BY <1>2, <1>3

LEMMA SaveInstanceKeepsInv ==
  ASSUME HandoffInv, NEW q \in Requests, SaveInstance(q)
  PROVE  HandoffInv'
<1> DEFINE s == req[q].wf.active
           o == req[q].outcome
           e == [step |-> s, outcome |-> o]
<1>1. /\ inst' = [inst EXCEPT ![s] = StatusOf(o)]
      /\ events' = events \cup {e}
      /\ Goto(q, "run")
      /\ At(q, Completions, "instance")
      /\ UNCHANGED <<run, branch, tasks, arun, history, plain, extra>>
  BY DEF SaveInstance
<1>2. req[q] \in ReqRow /\ Sound(events, done, req[q])
  BY ReqSound
<1>3. s \in Steps /\ o \in Outcomes \cup {Failed}
  BY <1>1, <1>2 DEF Sound, GoodReq, At, ExpectsStep, ReqRow
<1>4. BackedBy(events, req[q].wf) /\ req[q].wf.active = s
  BY <1>2 DEF Sound
<1>5. ReachedBy(events, s)
  BY <1>3, <1>4 DEF BackedBy
<1>6. RestTyped'
  BY <1>1, RestIsTyped DEF RestTyped, StatusOf, tasks, history
<1>7. /\ e \in [step : Steps, outcome : Outcomes \cup {Failed}]
      /\ e.step = s /\ e.outcome = o
  BY <1>3
<1>8. events \subseteq events' /\ e \in events'
  BY <1>1
<1>g. /\ Only(q) /\ req'[q].pc = "run" /\ req'[q].kind = req[q].kind
      /\ req'[q].wf = req[q].wf /\ req'[q].outcome = o
      /\ req'[q].branch = req[q].branch /\ req'[q].list = req[q].list
      /\ req'[q].step = req[q].step /\ req'[q].agent = req[q].agent
  BY <1>1, GotoFields DEF Places
<1>9. RecordedIn(events', req'[q])
  BY <1>8, <1>g DEF RecordedIn
<1> HIDE DEF e
<1>10. \A x \in events' : ReachedBy(events', x.step)
  <2> TAKE x \in events'
  <2>1. ReachedBy(events, x.step)
    BY <1>1, <1>5, <1>7 DEF HandoffInv
  <2> QED  BY <1>8, <2>1 DEF ReachedBy
<1>11. GoodReq(req'[q]) /\ ListedIn(done, req'[q])
  BY <1>1, <1>2, <1>g DEF Sound, GoodReq, ListedIn, At, ExpectsStep, Only
<1>12. BackedBy(events', req'[q].wf) /\ BackedBy(events', run)
  BY <1>4, <1>8, <1>g, BackedStays DEF HandoffInv
<1>13. Sound(events', done', req'[q])
  BY <1>1, <1>9, <1>11, <1>12 DEF Sound, history
<1> QED  BY <1>1, <1>6, <1>7, <1>8, <1>g, <1>10, <1>12, <1>13, StepKeepsInv
         DEF HandoffInv, TypeOK, history

\* What the run's row, and the handler's copy of it, become.
LEMMA NewRow ==
  ASSUME HandoffInv, NEW q \in Requests, At(q, Completions, "run"),
         Matches(req[q].wf.active, req[q].outcome), NEW new,
         new = IF Target(req[q].wf.active, req[q].outcome) = End
                 THEN [status |-> StatusOf(req[q].outcome), active |-> NoStep]
                 ELSE [req[q].wf EXCEPT !.active =
                         Target(req[q].wf.active, req[q].outcome)]
  PROVE  /\ new \in RunRow /\ RowOK(new) /\ BackedBy(events, new)
         /\ new.status \in {"active", "completed", "failed"}
         /\ Target(req[q].wf.active, req[q].outcome) # End => new.active \in Steps
<1> DEFINE s == req[q].wf.active
           o == req[q].outcome
           e == [step |-> s, outcome |-> o]
<1>1. req[q] \in ReqRow /\ Sound(events, done, req[q])
  BY ReqSound
<1>2. /\ s \in Steps /\ o \in Outcomes \cup {Failed} /\ req[q].wf \in RunRow
      /\ req[q].wf.status = "active"
  BY <1>1 DEF Sound, GoodReq, RowOK, At, ExpectsStep, ReqRow
<1>3. e \in events /\ e.step = s /\ e.outcome = o
  BY <1>1 DEF Sound, RecordedIn, At
<1> HIDE DEF e
<1>4. CASE Target(s, o) = End
  <2>1. new.status = StatusOf(o) /\ new.active = NoStep
    BY <1>4
  <2>2. new \in RunRow /\ RowOK(new)
    BY <1>4 DEF RunRow, StatusOf, RowOK
  <2>3. o # Failed => Edge[e.step][e.outcome] = End
    BY <1>3, <1>4 DEF Target
  <2>4. BackedBy(events, new)
    <3>1. CASE o = Failed
      BY <1>3, <2>1, <3>1 DEF BackedBy, StatusOf
    <3>2. CASE o # Failed
      <4>0. e \in events
        BY <1>3
      <4>1. \E d \in events : d.outcome # Failed /\ Edge[d.step][d.outcome] = End
        <5> WITNESS e \in events
        <5> QED  BY <1>3, <2>3, <3>2
      <4>2. new.status = "completed" /\ new.active = NoStep
        BY <2>1, <3>2, Zenon DEF StatusOf
      <4> QED  BY <4>1, <4>2 DEF BackedBy
    <3> QED  BY <3>1, <3>2
  <2> QED  BY <1>4, <2>1, <2>2, <2>4 DEF StatusOf
<1>5. CASE Target(s, o) # End
  <2>1. o # Failed /\ Target(s, o) = Edge[s][o] /\ Target(s, o) \in Steps
    BY <1>2, <1>5 DEF Target, Matches
  <2>2. new.active = Target(s, o) /\ new.status = "active" /\ new \in RunRow
    BY <1>2, <1>5, <2>1 DEF RunRow
  <2>3. ReachedBy(events, Target(s, o))
    BY <1>3, <2>1 DEF ReachedBy
  <2>4. BackedBy(events, new)
    BY <2>2, <2>3 DEF BackedBy
  <2>5. RowOK(new)
    BY <2>1, <2>2 DEF RowOK
  <2> QED  BY <2>1, <2>2, <2>4, <2>5
<1> QED  BY <1>4, <1>5, Zenon

LEMMA SaveRunKeepsInv ==
  ASSUME HandoffInv, NEW q \in Requests, SaveRun(q)
  PROVE  HandoffInv'
<1> DEFINE s == req[q].wf.active
           o == req[q].outcome
           t == Target(s, o)
           new == IF t = End THEN [status |-> StatusOf(o), active |-> NoStep]
                             ELSE [req[q].wf EXCEPT !.active = t]
           pc == IF t = End THEN AfterTransition(q) ELSE "next"
           r == [req[q] EXCEPT !.wf = new, !.pc = pc]
<1>1. /\ At(q, Completions, "run")
      /\ UNCHANGED <<inst, events, branch, tasks, arun, done, plain, extra>>
  BY DEF SaveRun
<1>2. CASE ~Matches(s, o)
  <2>1. Return(q) /\ UNCHANGED <<run, did>>
    BY <1>2 DEF SaveRun
  <2>2. RestTyped'
    BY <1>1, <2>1, RestIsTyped DEF RestTyped, tasks
  <2> QED  BY <1>1, <2>1, <2>2, ReturnKeepsInv
<1>3. CASE Matches(s, o)
  <2>1. /\ run' = new /\ req' = [req EXCEPT ![q].wf = new, ![q].pc = pc]
        /\ did' = IF req[q].kind = "done" THEN did \cup {req[q].agent} ELSE did
    BY <1>3 DEF SaveRun
  <2>2. /\ new \in RunRow /\ RowOK(new) /\ BackedBy(events, new)
        /\ new.status \in {"active", "completed", "failed"}
        /\ t # End => new.active \in Steps
    BY <1>1, <1>3, NewRow
  <2>3. req[q] \in ReqRow /\ Sound(events, done, req[q])
    BY ReqSound
  <2>4. pc \in {"unbox", "archive", "close", "next"} /\ (pc = "next" => t # End)
    BY <1>1 DEF AfterTransition, At
  <2> HIDE DEF new, pc, t
  <2>5. /\ r \in ReqRow /\ r.wf = new /\ r.pc = pc
        /\ r.kind = req[q].kind /\ r.agent = req[q].agent
        /\ r.branch = req[q].branch
        /\ r.list = req[q].list /\ r.step = req[q].step
    <3>1. pc \in Places
      BY <2>4 DEF Places
    <3> QED  BY <2>2, <2>3, <3>1 DEF ReqRow
  <2>r. req' = [req EXCEPT ![q] = r]
    BY <2>1
  <2> HIDE DEF r
  <2>6. Only(q) /\ req'[q] = r
    BY <2>r, <2>5 DEF Only, HandoffInv, TypeOK
  <2>7. GoodReq(r)
    BY <2>2, <2>3, <2>4, <2>5 DEF Sound, GoodReq, ExpectsStep
  <2>8. Sound(events', done', r)
    BY <1>1, <2>2, <2>4, <2>5, <2>7 DEF Sound, RecordedIn, ListedIn
  <2>9. did' \subseteq Agents
    <3>1. req[q].kind = "done" => req[q].agent \in Agents
      BY <2>3 DEF Sound, GoodReq
    <3> QED  BY <2>1, <3>1 DEF HandoffInv, TypeOK
  <2>10. RestTyped'
    BY <1>1, <2>9, RestIsTyped DEF RestTyped, tasks
  <2> QED  BY <1>1, <2>1, <2>2, <2>6, <2>8, <2>10, StepKeepsInv
           DEF HandoffInv, TypeOK
<1> QED  BY <1>2, <1>3

LEMMA OpenNextKeepsInv ==
  ASSUME HandoffInv, NEW q \in Requests, OpenNext(q)
  PROVE  HandoffInv'
<1>1. /\ inst' = [inst EXCEPT ![req[q].wf.active] = "pending"]
      /\ Goto(q, AfterTransition(q)) /\ At(q, Completions, "next")
      /\ UNCHANGED <<run, events, branch, tasks, arun, history, plain, extra>>
  BY DEF OpenNext
<1>2. RestTyped'
  BY <1>1, RestIsTyped DEF RestTyped, tasks, history
<1>3. req[q].wf.active \in Steps
  BY <1>1, ReqSound DEF Sound, GoodReq, At, ExpectsStep
<1>4. AfterTransition(q) \in {"unbox", "archive", "place"}
  BY <1>1 DEF AfterTransition, At, Completions
<1> QED  BY <1>1, <1>2, <1>3, <1>4, GotoKeepsInv DEF Places, history

LEMMA TransitionKeepsInv ==
  ASSUME HandoffInv, NEW q \in Requests, Transition(q)
  PROVE  HandoffInv'
  BY ReadRunKeepsInv, SaveInstanceKeepsInv, SaveRunKeepsInv, OpenNextKeepsInv
     DEF Transition

-----------------------------------------------------------------------------
(* Branches *)

LEMMA ListBranchesKeepsInv ==
  ASSUME HandoffInv, NEW q \in Requests, ListBranches(q)
  PROVE  HandoffInv'
<1> DEFINE l == Listing(StageOf[req[q].branch])
           r == [req[q] EXCEPT !.list = l, !.pc = "save"]
<1>1. /\ req' = [req EXCEPT ![q] = r] /\ At(q, {"branch"}, "list")
      /\ UNCHANGED <<rows, tasks, arun, history, plain, extra>>
  BY DEF ListBranches
<1>2. req[q] \in ReqRow /\ Sound(events, done, req[q])
  BY ReqSound
<1>3. l \in [Branches -> BranchStatus]
  BY DEF Listing, HandoffInv, TypeOK, BranchStatus
<1>4. \A b \in Branches : l[b] = "completed" => b \in done
  BY DEF Listing, HandoffInv
<1> HIDE DEF l
<1>5. /\ r \in ReqRow /\ r.wf = req[q].wf /\ r.pc = "save"
      /\ r.kind = req[q].kind /\ r.agent = req[q].agent
      /\ r.branch = req[q].branch /\ r.list = l /\ r.step = req[q].step
      /\ r.outcome = req[q].outcome
  BY <1>2, <1>3 DEF ReqRow, Places
<1> HIDE DEF r
<1>6. Only(q) /\ req'[q] = r
  BY <1>1, <1>5 DEF Only, HandoffInv, TypeOK
<1>7. GoodReq(r)
  BY <1>2, <1>5 DEF Sound, GoodReq, ExpectsStep
<1>8. Sound(events, done, r)
  BY <1>2, <1>4, <1>5, <1>7 DEF Sound, RecordedIn, ListedIn
<1>9. RestTyped'
  BY <1>1, RestIsTyped DEF RestTyped, rows, tasks, history
<1> QED  BY <1>1, <1>6, <1>8, <1>9, QuietStepKeepsInv DEF rows, history

LEMMA SaveBranchKeepsInv ==
  ASSUME HandoffInv, NEW q \in Requests, SaveBranch(q)
  PROVE  HandoffInv'
<1> DEFINE b == req[q].branch
           o == req[q].outcome
           last == LastOfStage(q)
           any == StageOf[b] \in AnyJoin
           j == o # Failed /\ last /\ ~any
           pc == IF o = Failed \/ (~any /\ ~last) THEN "archive"
                 ELSE IF any THEN "skip" ELSE "read"
           r == [req[q] EXCEPT !.joined = j, !.pc = pc]
<1>1. /\ At(q, {"branch"}, "save")
      /\ UNCHANGED <<run, inst, events, tasks, arun, did, plain, extra>>
  BY DEF SaveBranch
<1>2. req[q] \in ReqRow /\ Sound(events, done, req[q])
  BY ReqSound
<1>3. RestTyped'
  BY <1>1, RestIsTyped DEF RestTyped, tasks
<1>4. CASE req[q].list[b] = "none"
  <2>1. Return(q) /\ UNCHANGED <<branch, done>>
    BY <1>4 DEF SaveBranch
  <2> QED  BY <1>1, <1>3, <2>1, ReturnKeepsInv
<1>5. CASE req[q].list[b] # "none"
  <2>1. /\ branch' = [branch EXCEPT ![b] = StatusOf(o)]
        /\ done' = IF o = Failed THEN done ELSE done \cup {b}
        /\ req' = [req EXCEPT ![q].joined = j, ![q].pc = pc]
    BY <1>5 DEF SaveBranch
  <2>2. pc \in {"archive", "skip", "read"} /\ j \in BOOLEAN
    OBVIOUS
  <2>3. pc = "skip" => any
    OBVIOUS
  <2>4. pc = "read" => o # Failed /\ last /\ ~any
    OBVIOUS
  <2> HIDE DEF pc, j
  <2>5. /\ r \in ReqRow /\ r.wf = req[q].wf /\ r.pc = pc
        /\ r.kind = req[q].kind /\ r.agent = req[q].agent
        /\ r.branch = req[q].branch /\ r.list = req[q].list
        /\ r.step = req[q].step /\ r.outcome = req[q].outcome
    <3>1. pc \in Places
      BY <2>2 DEF Places
    <3> QED  BY <1>2, <2>2, <3>1 DEF ReqRow
  <2>r. req' = [req EXCEPT ![q] = r]
    BY <2>1
  <2> HIDE DEF r
  <2>6. Only(q) /\ req'[q] = r
    BY <2>r, <2>5 DEF Only, HandoffInv, TypeOK
  <2>7. GoodReq(r)
    <3>1. GoodReq(req[q])
      BY <1>2 DEF Sound
    <3> QED  BY <1>1, <2>2, <2>3, <2>5, <3>1 DEF GoodReq, ExpectsStep, At
  <2>8. b \in Branches
    BY <1>1, <1>2 DEF GoodReq, Sound, At
  <2>9. pc = "read" =>
          b \in done' /\ \A c \in Branches \ {b} : req[q].list[c] # "none" => c \in done'
    BY <1>1, <1>2, <2>1, <2>4 DEF Sound, ListedIn, LastOfStage, Others, At
  <2>10. ListedIn(done', r)
    BY <2>2, <2>5, <2>9 DEF ListedIn
  <2>11. Sound(events', done', r)
    BY <1>1, <1>2, <2>2, <2>5, <2>7, <2>10 DEF Sound, RecordedIn
  <2>12. branch' \in [Branches -> BranchStatus]
    BY <2>1 DEF StatusOf, BranchStatus, HandoffInv, TypeOK
  <2>13. done' \subseteq Branches /\ done \subseteq done'
    BY <2>1, <2>8 DEF HandoffInv, TypeOK
  <2>14. \A c \in Branches : branch'[c] = "completed" => c \in done'
    BY <2>1, <2>8 DEF HandoffInv, TypeOK, StatusOf
  <2> QED  BY <1>1, <1>3, <2>6, <2>11, <2>12, <2>13, <2>14, StepKeepsInv
           DEF HandoffInv, TypeOK
<1> QED  BY <1>4, <1>5

LEMMA SkipOthersKeepsInv ==
  ASSUME HandoffInv, NEW q \in Requests, SkipOthers(q)
  PROVE  HandoffInv'
<1> DEFINE r == [req[q] EXCEPT !.joined = TRUE, !.pc = "read"]
<1>1. /\ req' = [req EXCEPT ![q] = r] /\ At(q, {"branch"}, "skip")
      /\ UNCHANGED <<run, inst, events, tasks, arun, history, plain, extra>>
  BY DEF SkipOthers
<1>2. req[q] \in ReqRow /\ Sound(events, done, req[q])
  BY ReqSound
<1>3. /\ r \in ReqRow /\ r.wf = req[q].wf /\ r.pc = "read"
      /\ r.kind = req[q].kind /\ r.agent = req[q].agent
      /\ r.branch = req[q].branch /\ r.list = req[q].list
      /\ r.step = req[q].step /\ r.outcome = req[q].outcome
  BY <1>2 DEF ReqRow, Places
<1> HIDE DEF r
<1>4. Only(q) /\ req'[q] = r
  BY <1>1, <1>3 DEF Only, HandoffInv, TypeOK
<1>5. GoodReq(r)
  BY <1>2, <1>3 DEF Sound, GoodReq, ExpectsStep
<1>6. StageOf[r.branch] \in AnyJoin
  BY <1>1, <1>2, <1>3 DEF Sound, GoodReq, At
<1>7. Sound(events', done', r)
  BY <1>1, <1>2, <1>3, <1>5, <1>6 DEF Sound, RecordedIn, ListedIn, history
<1>8. branch' \in [Branches -> BranchStatus]
  BY DEF SkipOthers, BranchStatus, HandoffInv, TypeOK
<1>9. \A c \in Branches : branch'[c] = "completed" => c \in done
  BY DEF SkipOthers, HandoffInv
<1>10. RestTyped'
  BY <1>1, RestIsTyped DEF RestTyped, tasks, history
<1> QED  BY <1>1, <1>4, <1>7, <1>8, <1>9, <1>10, StepKeepsInv
         DEF HandoffInv, TypeOK, history

LEMMA FindParentKeepsInv ==
  ASSUME HandoffInv, NEW q \in Requests, FindParent(q)
  PROVE  HandoffInv'
<1>1. RestTyped' /\ UNCHANGED <<run, events, branch, done>>
  BY RestIsTyped DEF FindParent, RestTyped, rows, tasks, history
<1>2. CASE \E a \in Agents : HasTask(a)
  <2> DEFINE pc == CASE req[q].outcome = Failed -> "block"
                     [] Ended(q) -> "close"
                     [] OTHER -> "place"
             r(a) == [req[q] EXCEPT !.agent = a, !.copy = task[a], !.pc = pc]
  <2>1. PICK a \in Agents : req' = [req EXCEPT ![q] = r(a)]
    BY <1>2, Zenon DEF FindParent
  <2>2. req[q] \in ReqRow /\ Sound(events, done, req[q])
    BY ReqSound
  <2>3. pc \in {"block", "close", "place"}
    OBVIOUS
  <2>4. pc = "place" => req[q].wf.active \in Steps
    <3>1. At(q, {"branch"}, "parent")
      BY DEF FindParent
    <3>2. ASSUME pc = "place" PROVE req[q].outcome # Failed /\ ~Ended(q)
      BY <3>2
    <3>3. ASSUME req[q].outcome # Failed, ~Ended(q)
          PROVE  req[q].wf.status = "active"
      BY <2>2, <3>1, <3>3 DEF Sound, GoodReq, At, Ended, RunRow, ReqRow, Completions
    <3> QED  BY <2>2, <3>2, <3>3 DEF Sound, GoodReq, RowOK
  <2> HIDE DEF pc
  <2>5. task[a] \in TaskRow
    BY DEF HandoffInv, TypeOK
  <2>6. /\ r(a) \in ReqRow /\ r(a).wf = req[q].wf /\ r(a).pc = pc
        /\ r(a).kind = req[q].kind /\ r(a).agent = a
        /\ r(a).branch = req[q].branch /\ r(a).list = req[q].list
        /\ r(a).step = req[q].step /\ r(a).outcome = req[q].outcome
    <3>1. pc \in Places
      BY <2>3 DEF Places
    <3> QED  BY <2>2, <2>5, <3>1 DEF ReqRow
  <2> DEFINE x == r(a)
  <2>7. Only(q) /\ req'[q] = x
    BY <2>1, <2>6 DEF Only, HandoffInv, TypeOK
  <2>8. /\ x \in ReqRow /\ x.wf = req[q].wf /\ x.pc = pc
        /\ x.kind = req[q].kind /\ x.agent = a
        /\ x.branch = req[q].branch /\ x.list = req[q].list
        /\ x.step = req[q].step /\ x.outcome = req[q].outcome
    BY <2>6
  <2> HIDE DEF x
  <2>9. GoodReq(x)
    BY <2>2, <2>3, <2>4, <2>8 DEF Sound, GoodReq, ExpectsStep
  <2>10. Sound(events, done, x)
    BY <2>2, <2>3, <2>8, <2>9 DEF Sound, RecordedIn, ListedIn
  <2> QED  BY <1>1, <2>7, <2>10, QuietStepKeepsInv
<1>3. CASE ~\E a \in Agents : HasTask(a)
  <2>1. Return(q)
    BY <1>3 DEF FindParent
  <2> QED  BY <1>1, <2>1, ReturnKeepsInv
<1> QED  BY <1>2, <1>3

LEMMA ArchiveBranchTaskKeepsInv ==
  ASSUME HandoffInv, NEW q \in Requests, ArchiveBranchTask(q)
  PROVE  HandoffInv'
<1>1. RestTyped' /\ UNCHANGED <<run, events, branch, done>>
  BY RestIsTyped DEF ArchiveBranchTask, RestTyped, rows, history
<1>2. CASE Goto(q, "parent") /\ (req[q].outcome = Failed \/ req[q].wf.status # "none")
  <2>1. Only(q) /\ req'[q].pc = "parent"
    BY <1>2, GotoFields DEF Places
  <2>2. Sound(events, done, req[q])
    BY ReqSound
  <2>3. GoodReq(req'[q])
    BY <1>2, <2>1, <2>2, GotoFields DEF Sound, GoodReq, ExpectsStep, Only, Places
  <2>4. Sound(events, done, req'[q])
    BY <1>2, <2>2, <2>3, GotoFields DEF Sound, RecordedIn, ListedIn, Places
  <2> QED  BY <1>1, <2>1, <2>4, QuietStepKeepsInv
<1>3. CASE Return(q)
  BY <1>1, <1>3, ReturnKeepsInv
<1> QED  BY <1>2, <1>3 DEF ArchiveBranchTask

LEMMA JoinKeepsInv ==
  ASSUME HandoffInv, NEW q \in Requests, Join(q)
  PROVE  HandoffInv'
<1>1. CASE CheckStage(q)
  <2>1. RestTyped' /\ UNCHANGED <<run, events, branch, done>>
    BY <1>1, RestIsTyped DEF CheckStage, RestTyped, rows, tasks, history
  <2>2. Goto(q, "list") \/ Return(q)
    BY <1>1 DEF CheckStage
  <2> QED  BY <2>1, <2>2, GotoKeepsInv, ReturnKeepsInv DEF Places, ExpectsStep
<1>2. CASE BlockRoot(q)
  <2>1. task' \in [Agents -> TaskRow]
    <3>1. req[q].copy.assignee \in Agents \cup People \cup {NoActor}
      BY ReqSound DEF ReqRow, TaskRow
    <3> QED  BY <1>2, <3>1, PutTyped DEF BlockRoot, HandoffInv, TypeOK, Actors, TaskStatus
  <2>2. RestTyped' /\ UNCHANGED <<run, events, branch, done>> /\ Return(q)
    BY <1>2, <2>1, RestIsTyped DEF BlockRoot, RestTyped, rows, history
  <2> QED  BY <2>2, ReturnKeepsInv
<1> QED  BY <1>1, <1>2, ListBranchesKeepsInv, SaveBranchKeepsInv,
            SkipOthersKeepsInv, ArchiveBranchTaskKeepsInv, FindParentKeepsInv
         DEF Join

-----------------------------------------------------------------------------
(* The task follows *)

LEMMA PersistTyped ==
  ASSUME HandoffInv, NEW q, NEW a, NEW w \in Actors, NEW st \in TaskStatus,
         NEW pc, Persist(q, a, st, w, pc)
  PROVE  /\ task' \in [Agents -> TaskRow]
         /\ Goto(q, pc) \/ Return(q)
<1>1. CASE Put(a, st, w) /\ Goto(q, pc)
  BY <1>1, PutTyped
<1>2. CASE UNCHANGED task /\ Return(q)
  BY <1>2 DEF HandoffInv, TypeOK
<1> QED  BY <1>1, <1>2 DEF Persist

LEMMA CardTyped ==
  ASSUME HandoffInv, NEW q, MarkCard(q) \/ UNCHANGED card
  PROVE  card' \in [Steps -> {"none", "sent", "acted"}]
  BY DEF MarkCard, HandoffInv, TypeOK

LEMMA CopyTyped ==
  ASSUME HandoffInv, NEW q \in Requests
  PROVE  req[q].copy \in TaskRow /\ req[q].copy.assignee \in Actors
  BY ReqSound DEF ReqRow, TaskRow, Actors

\* A completion that stands where it expects a step has one.
LEMMA HasStep ==
  ASSUME HandoffInv, NEW q \in Requests, NEW pc \in ExpectsStep,
         At(q, Completions, pc)
  PROVE  req[q].wf.active \in Steps /\ ActorOf[req[q].wf.active] \in Actors
  BY ReqSound DEF Sound, GoodReq, At, Actors

LEMMA UnboxKeepsInv ==
  ASSUME HandoffInv, NEW q \in Requests, Unbox(q)
  PROVE  HandoffInv'
<1>1. inbox' \subseteq People
  BY InboxTyped DEF Unbox
<1>2. card' \in [Steps -> {"none", "sent", "acted"}]
  BY CardTyped DEF Unbox
<1>3. RestTyped' /\ UNCHANGED <<run, events, branch, done>>
  BY <1>1, <1>2, RestIsTyped DEF Unbox, RestTyped, rows, history
<1>4. CASE Return(q)
  BY <1>3, <1>4, ReturnKeepsInv
<1>5. CASE Goto(q, "close")
  BY <1>3, <1>5, GotoKeepsInv DEF Places, ExpectsStep
<1>6. CASE Goto(q, "place") /\ ~Ended(q) /\ req[q].wf.status # "none"
  <2>1. At(q, {"review"}, "unbox")
    BY DEF Unbox
  <2>2. req[q].wf.status = "active"
    BY <1>6, <2>1, ReqSound
       DEF Sound, GoodReq, At, Ended, RunRow, ReqRow, Completions
  <2>3. req[q].wf.active \in Steps
    BY <2>2, ReqSound DEF Sound, GoodReq, RowOK
  <2> QED  BY <1>3, <1>6, <2>3, GotoKeepsInv DEF Places
<1> QED  BY <1>4, <1>5, <1>6 DEF Unbox

LEMMA CloseTaskKeepsInv ==
  ASSUME HandoffInv, NEW q \in Requests, CloseTask(q)
  PROVE  HandoffInv'
<1> DEFINE st == IF req[q].wf.status = "failed" THEN "done_failed"
                                                ELSE "done_success"
<1>1. \/ UNCHANGED <<task, card>>
      \/ Put(req[q].agent, st, req[q].copy.assignee) /\ MarkCard(q)
  BY DEF CloseTask
<1>2. st \in TaskStatus
  BY DEF TaskStatus
<1> HIDE DEF st
<1>3. task' \in [Agents -> TaskRow]
  <2>1. CASE UNCHANGED task
    BY <2>1 DEF HandoffInv, TypeOK
  <2>2. CASE Put(req[q].agent, st, req[q].copy.assignee)
    BY <1>2, <2>2, CopyTyped, PutTyped
  <2> QED  BY <1>1, <2>1, <2>2
<1>4. card' \in [Steps -> {"none", "sent", "acted"}]
  BY <1>1, CardTyped
<1>5. /\ RestTyped' /\ UNCHANGED <<run, events, branch, done>>
      /\ Return(q)
  BY <1>3, <1>4, RestIsTyped DEF CloseTask, RestTyped, rows, history
<1> QED  BY <1>5, ReturnKeepsInv

LEMMA StageKeepsInv ==
  ASSUME HandoffInv, NEW q \in Requests,
         EnterStage(q) \/ (\E b \in Branches : SpawnTask(q, b)) \/ SpawnRow(q)
  PROVE  HandoffInv'
<1>r. req[q] \in ReqRow /\ Sound(events, done, req[q])
  BY ReqSound
<1>m. ASSUME NEW r, r \in ReqRow, r.wf = req[q].wf, r.pc \in {"spawn", "row"},
             r.kind = req[q].kind, r.agent = req[q].agent, r.step = req[q].step,
             r.branch \in Branches \/ r.branch = req[q].branch,
             req[q].wf.active \in Steps
      PROVE  Sound(events, done, r)
  <2>1. GoodReq(r)
    BY <1>r, <1>m DEF Sound, GoodReq
  <2> QED  BY <1>r, <1>m, <2>1 DEF Sound, RecordedIn, ListedIn
<1>1. CASE EnterStage(q) /\ ~HasTask(req[q].agent)
  <2>1. Return(q) /\ RestTyped' /\ UNCHANGED <<run, events, branch, done>>
    BY <1>1, RestIsTyped DEF EnterStage, RestTyped, rows, history
  <2> QED  BY <2>1, ReturnKeepsInv
<1>2. CASE EnterStage(q) /\ HasTask(req[q].agent)
  <2> DEFINE l == Listing(req[q].wf.active)
             r == [req[q] EXCEPT !.pc = "spawn", !.list = l]
  <2>1. /\ Put(req[q].agent, "in_progress", req[q].agent)
        /\ req' = [req EXCEPT ![q] = r] /\ At(q, Completions, "place")
        /\ UNCHANGED <<rows, btask, inbox, card, arun, history, plain, extra>>
    BY <1>2 DEF EnterStage
  <2>2. l \in [Branches -> BranchStatus]
    BY DEF Listing, HandoffInv, TypeOK, BranchStatus
  <2> HIDE DEF l
  <2>3. /\ r \in ReqRow /\ r.wf = req[q].wf /\ r.pc = "spawn"
        /\ r.kind = req[q].kind /\ r.agent = req[q].agent
        /\ r.branch = req[q].branch /\ r.step = req[q].step
    BY <1>r, <2>2 DEF ReqRow, Places
  <2> HIDE DEF r
  <2>4. Only(q) /\ req'[q] = r
    BY <2>1, <2>3 DEF Only, HandoffInv, TypeOK
  <2>5. Sound(events, done, r)
    BY <1>m, <2>1, <2>3, HasStep DEF ExpectsStep
  <2>6. task' \in [Agents -> TaskRow]
    <3>1. req[q].agent \in Agents \cup People \cup {NoActor}
      BY <1>r DEF ReqRow
    <3> QED  BY <2>1, <3>1, PutTyped DEF Actors, TaskStatus
  <2>7. RestTyped'
    BY <2>1, <2>6, RestIsTyped DEF RestTyped, rows, history
  <2> QED  BY <2>1, <2>4, <2>5, <2>7, QuietStepKeepsInv DEF rows, history
<1>3. CASE \E b \in Branches : SpawnTask(q, b)
  <2>1. PICK b \in Branches : SpawnTask(q, b)
    BY <1>3
  <2> DEFINE r == [req[q] EXCEPT !.branch = b, !.pc = "row"]
  <2>2. /\ req' = [req EXCEPT ![q] = r] /\ At(q, Completions, "spawn")
        /\ btask' = [btask EXCEPT ![b] = "open"]
        /\ UNCHANGED <<rows, task, inbox, card, arun, history, plain, extra>>
    BY <2>1 DEF SpawnTask
  <2>3. /\ r \in ReqRow /\ r.wf = req[q].wf /\ r.pc = "row"
        /\ r.kind = req[q].kind /\ r.agent = req[q].agent
        /\ r.branch = b /\ r.step = req[q].step
    BY <1>r DEF ReqRow, Places
  <2> HIDE DEF r
  <2>4. Only(q) /\ req'[q] = r
    BY <2>2, <2>3 DEF Only, HandoffInv, TypeOK
  <2>5. Sound(events, done, r)
    BY <1>m, <2>2, <2>3, HasStep DEF ExpectsStep
  <2>6. RestTyped'
    BY <2>2, RestIsTyped DEF RestTyped, rows, history
  <2> QED  BY <2>2, <2>4, <2>5, <2>6, QuietStepKeepsInv DEF rows, history
<1>4. CASE SpawnRow(q)
  <2> DEFINE b == req[q].branch
             r == [req[q] EXCEPT !.list[b] = "running", !.pc = "spawn"]
  <2>1. /\ req' = [req EXCEPT ![q] = r] /\ At(q, Completions, "row")
        /\ branch' = [branch EXCEPT ![b] = "running"]
        /\ UNCHANGED <<run, inst, events, tasks, arun, history, plain, extra>>
    BY <1>4 DEF SpawnRow
  <2>2. [req[q].list EXCEPT ![b] = "running"] \in [Branches -> BranchStatus]
    BY <1>r DEF ReqRow, BranchStatus
  <2>3. /\ r \in ReqRow /\ r.wf = req[q].wf /\ r.pc = "spawn"
        /\ r.kind = req[q].kind /\ r.agent = req[q].agent
        /\ r.branch = req[q].branch /\ r.step = req[q].step
    BY <1>r, <2>2 DEF ReqRow, Places
  <2> HIDE DEF r
  <2>4. Only(q) /\ req'[q] = r
    BY <2>1, <2>3 DEF Only, HandoffInv, TypeOK
  <2>5. Sound(events', done', r)
    BY <1>m, <2>1, <2>3, HasStep DEF ExpectsStep, history
  <2>6. RestTyped'
    BY <2>1, RestIsTyped DEF RestTyped, tasks, history
  <2>7. /\ branch' \in [Branches -> BranchStatus]
        /\ \A c \in Branches : branch'[c] = "completed" => c \in done
    BY <2>1 DEF BranchStatus, HandoffInv, TypeOK
  <2> QED  BY <2>1, <2>4, <2>5, <2>6, <2>7, StepKeepsInv
           DEF HandoffInv, TypeOK, history
<1> QED  BY <1>1, <1>2, <1>3, <1>4

LEMMA HandToAgentKeepsInv ==
  ASSUME HandoffInv, NEW q \in Requests, HandToAgent(q)
  PROVE  HandoffInv'
<1> DEFINE a == ActorOf[req[q].wf.active]
<1>1. /\ At(q, Completions, "place") /\ a \in Agents
      /\ UNCHANGED <<rows, btask, inbox, card, arun, history, plain, extra>>
  BY DEF HandToAgent
<1>2. req[q].wf.active \in Steps
  BY <1>1, HasStep DEF ExpectsStep
<1>3. CASE Persist(q, a, "pending", a, "queue")
  <2>1. task' \in [Agents -> TaskRow] /\ (Goto(q, "queue") \/ Return(q))
    BY <1>1, <1>3, PersistTyped DEF Actors, TaskStatus
  <2>2. RestTyped' /\ UNCHANGED <<run, events, branch, done>>
    BY <1>1, <2>1, RestIsTyped DEF RestTyped, rows, history
  <2> QED  BY <1>1, <1>2, <2>1, <2>2, GotoKeepsInv, ReturnKeepsInv DEF Places
<1>4. CASE Put(a, "pending", a) /\ Goto(q, "drop")
  <2>1. task' \in [Agents -> TaskRow]
    BY <1>1, <1>4, PutTyped DEF Actors, TaskStatus
  <2>2. RestTyped' /\ UNCHANGED <<run, events, branch, done>>
    BY <1>1, <2>1, RestIsTyped DEF RestTyped, rows, history
  <2> QED  BY <1>1, <1>2, <1>4, <2>2, GotoKeepsInv DEF Places
<1> QED  BY <1>3, <1>4 DEF HandToAgent

LEMMA NoTaskTyped == NoTask \in TaskRow
  BY DEF NoTask, TaskRow

LEMMA DropOldKeepsInv ==
  ASSUME HandoffInv, NEW q \in Requests, DropOld(q)
  PROVE  HandoffInv'
<1>1. task' \in [Agents -> TaskRow]
  BY NoTaskTyped DEF DropOld, HandoffInv, TypeOK
<1>2. RestTyped' /\ UNCHANGED <<run, events, branch, done>>
  BY <1>1, RestIsTyped DEF DropOld, RestTyped, rows, history
<1>3. CASE Return(q)
  BY <1>2, <1>3, ReturnKeepsInv
<1>4. CASE Goto(q, "queue") /\ req[q].kind # "view"
  <2>1. At(q, Completions, "drop")
    BY <1>4 DEF DropOld, At
  <2>2. req[q].wf.active \in Steps
    BY <2>1, HasStep DEF ExpectsStep
  <2>3. ActorOf[req[q].wf.active] \in Agents
    BY <2>1, ReqSound DEF Sound, GoodReq, At
  <2> QED  BY <1>2, <1>4, <2>2, <2>3, GotoKeepsInv DEF Places
<1> QED  BY <1>3, <1>4 DEF DropOld

LEMMA QueueRunKeepsInv ==
  ASSUME HandoffInv, NEW q \in Requests, QueueRun(q)
  PROVE  HandoffInv'
<1> DEFINE a == ActorOf[req[q].wf.active]
<1>1. /\ At(q, Completions, "queue")
      /\ UNCHANGED <<rows, btask, inbox, arun, history, plain, extra>>
  BY DEF QueueRun
<1>2. a \in Agents
  BY <1>1, ReqSound DEF Sound, GoodReq, At
<1>3. card' \in [Steps -> {"none", "sent", "acted"}]
  BY CardTyped DEF QueueRun, HandoffInv, TypeOK
<1>4. CASE Return(q) /\ UNCHANGED task
  <2>1. RestTyped' /\ UNCHANGED <<run, events, branch, done>>
    BY <1>1, <1>3, <1>4, RestIsTyped DEF RestTyped, rows, history
  <2> QED  BY <1>4, <2>1, ReturnKeepsInv
<1>5. CASE ~(Return(q) /\ UNCHANGED task)
  <2> DEFINE r == [req[q] EXCEPT !.pc = "enqueue", !.agent = a,
                     !.copy = [status |-> "pending", assignee |-> a]]
  <2>1. HasTask(a) /\ Put(a, "in_progress", a) /\ req' = [req EXCEPT ![q] = r]
    BY <1>5 DEF QueueRun
  <2>2. task' \in [Agents -> TaskRow]
    BY <1>2, <2>1, PutTyped DEF TaskStatus, Actors
  <2>3. RestTyped' /\ UNCHANGED <<run, events, branch, done>>
    BY <1>1, <1>3, <2>2, RestIsTyped DEF RestTyped, rows, history
  <2>4. req[q] \in ReqRow /\ Sound(events, done, req[q])
    BY ReqSound
  <2>5. r \in ReqRow
    BY <1>2, <2>4 DEF ReqRow, Places, TaskRow
  <2>6. /\ r.pc = "enqueue" /\ r.agent = a /\ r.kind = req[q].kind /\ r.wf = req[q].wf
        /\ r.outcome = req[q].outcome /\ r.branch = req[q].branch /\ r.list = req[q].list
        /\ r.step = req[q].step
    BY <2>4 DEF ReqRow
  <2> HIDE DEF r
  <2>7. Sound(events, done, r)
    BY <1>1, <1>2, <2>4, <2>5, <2>6
    DEF Sound, GoodReq, RecordedIn, ListedIn, At, ExpectsStep, Completions
  <2>8. Only(q) /\ req'[q] = r
    BY <2>1, <2>5 DEF Only, HandoffInv, TypeOK
  <2> QED  BY <2>3, <2>7, <2>8, QuietStepKeepsInv
<1> QED  BY <1>4, <1>5

\* A task's run is started.
LEMMA StartKeepsInv ==
  ASSUME HandoffInv, NEW q \in Requests, Start(q)
  PROVE  HandoffInv'
<1>1. CASE StartTask(q)
  <2>1. req[q].agent \in Agents /\ req[q].kind = "start"
    BY <1>1, ReqSound DEF StartTask, At, Sound, GoodReq
  <2>2. /\ Persist(q, req[q].agent, "in_progress", req[q].copy.assignee, "enqueue")
        /\ UNCHANGED <<rows, btask, inbox, card, arun, history, plain, extra>>
    BY <1>1 DEF StartTask
  <2>3. task' \in [Agents -> TaskRow] /\ (Goto(q, "enqueue") \/ Return(q))
    BY <2>2, CopyTyped, PersistTyped DEF TaskStatus
  <2>4. RestTyped' /\ UNCHANGED <<run, events, branch, done>>
    BY <2>2, <2>3, RestIsTyped DEF RestTyped, rows, history
  <2> QED  BY <2>1, <2>3, <2>4, GotoKeepsInv, ReturnKeepsInv DEF Places, Completions
<1>2. CASE EnqueueRun(q)
  <2>1. card' \in [Steps -> {"none", "sent", "acted"}]
    BY <1>2, CardTyped DEF EnqueueRun
  <2>2. arun' \in [Agents -> {"none", "queued", "running", "settling"}]
    BY <1>2 DEF EnqueueRun, HandoffInv, TypeOK
  <2>3. /\ RestTyped' /\ UNCHANGED <<run, events, branch, done>>
        /\ Return(q)
    BY <1>2, <2>1, <2>2, RestIsTyped DEF EnqueueRun, RestTyped, rows, history
  <2> QED  BY <2>3, ReturnKeepsInv
<1>3. CASE EnqueueUndone(q)
  <2>1. extra' \in 0..MaxExtra
    BY <1>3, RestIsTyped DEF RestTyped, EnqueueUndone
  <2>2. task' \in [Agents -> TaskRow]
    <3>1. CASE HasTask(req[q].agent)
      <4>1. Put(req[q].agent, "pending", req[q].copy.assignee)
        BY <1>3, <3>1 DEF EnqueueUndone
      <4> QED  BY <4>1, CopyTyped, PutTyped DEF TaskStatus
    <3>2. CASE ~HasTask(req[q].agent)
      BY <1>3, <3>2 DEF EnqueueUndone, HandoffInv, TypeOK
    <3> QED  BY <3>1, <3>2
  <2>3. /\ RestTyped' /\ UNCHANGED <<run, events, branch, done>>
        /\ Return(q)
    BY <1>3, <2>1, <2>2, RestIsTyped DEF EnqueueUndone, RestTyped, rows, history
  <2> QED  BY <2>3, ReturnKeepsInv
<1>4. CASE StartStrands(q)
  <2>1. extra' \in 0..MaxExtra
    BY <1>4, RestIsTyped DEF RestTyped, StartStrands
  <2>2. /\ RestTyped' /\ UNCHANGED <<run, events, branch, done>>
        /\ Return(q)
    BY <1>4, <2>1, RestIsTyped DEF StartStrands, RestTyped, rows, tasks, history
  <2> QED  BY <2>2, ReturnKeepsInv
<1> QED  BY <1>1, <1>2, <1>3, <1>4 DEF Start

LEMMA HandToPersonKeepsInv ==
  ASSUME HandoffInv, NEW q \in Requests, HandToPerson(q) \/ Notify(q)
  PROVE  HandoffInv'
<1>1. CASE HandToPerson(q)
  <2> DEFINE w == ActorOf[req[q].wf.active]
  <2>1. /\ At(q, Completions, "place")
        /\ Persist(q, req[q].agent, "awaiting_confirmation", w, "notify")
        /\ UNCHANGED <<rows, btask, inbox, card, arun, history, plain, extra>>
    BY <1>1 DEF HandToPerson
  <2>2. req[q].wf.active \in Steps /\ w \in Actors /\ w \in People
    BY <1>1, <2>1, HasStep DEF ExpectsStep, HandToPerson
  <2>3. task' \in [Agents -> TaskRow] /\ (Goto(q, "notify") \/ Return(q))
    BY <2>1, <2>2, PersistTyped DEF TaskStatus
  <2>4. RestTyped' /\ UNCHANGED <<run, events, branch, done>>
    BY <2>1, <2>3, RestIsTyped DEF RestTyped, rows, history
  <2> QED  BY <2>2, <2>3, <2>4, GotoKeepsInv, ReturnKeepsInv DEF Places
<1>2. CASE Notify(q)
  <2>1. /\ At(q, Completions, "notify") /\ Return(q)
        /\ inbox' = inbox \cup {ActorOf[req[q].wf.active]}
        /\ UNCHANGED <<rows, task, btask, arun, history, plain, extra>>
    BY <1>2 DEF Notify
  <2>2. ActorOf[req[q].wf.active] \in People
    BY <2>1, ReqSound DEF Sound, GoodReq, At
  <2>3. inbox' \subseteq People
    BY <2>1, <2>2 DEF HandoffInv, TypeOK
  <2>4. card' \in [Steps -> {"none", "sent", "acted"}]
    BY <1>2 DEF Notify, HandoffInv, TypeOK
  <2>5. RestTyped' /\ UNCHANGED <<run, events, branch, done>>
    BY <2>1, <2>3, <2>4, RestIsTyped DEF RestTyped, rows, history
  <2> QED  BY <2>1, <2>5, ReturnKeepsInv
<1> QED  BY <1>1, <1>2

LEMMA FollowKeepsInv ==
  ASSUME HandoffInv, NEW q \in Requests, Follow(q)
  PROVE  HandoffInv'
<1>1. CASE EndSpawning(q)
  <2>1. card' \in [Steps -> {"none", "sent", "acted"}]
    BY <1>1, CardTyped DEF EndSpawning
  <2>2. /\ RestTyped' /\ UNCHANGED <<run, events, branch, done>>
        /\ Return(q)
    BY <1>1, <2>1, RestIsTyped DEF EndSpawning, RestTyped, rows, history
  <2> QED  BY <2>2, ReturnKeepsInv
<1> QED  BY <1>1, UnboxKeepsInv, CloseTaskKeepsInv, StageKeepsInv,
            HandToAgentKeepsInv, DropOldKeepsInv, QueueRunKeepsInv,
            HandToPersonKeepsInv
         DEF Follow

-----------------------------------------------------------------------------
(* Settling a run, cancelling, looking *)

LEMMA SettleKeepsInv ==
  ASSUME HandoffInv, NEW q \in Requests, Settle(q)
  PROVE  HandoffInv'
<1>1. CASE FailTask(q)
  <2>1. task' \in [Agents -> TaskRow]
    BY <1>1, CopyTyped, PutTyped DEF FailTask, TaskStatus
  <2>2. /\ RestTyped' /\ UNCHANGED <<run, events, branch, done>>
        /\ Goto(q, "report")
    BY <1>1, <2>1, RestIsTyped DEF FailTask, RestTyped, rows, history
  <2> QED  BY <2>2, GotoKeepsInv DEF Places, ExpectsStep
<1>2. CASE EndRun(q)
  <2>1. arun' \in [Agents -> {"none", "queued", "running", "settling"}]
    BY <1>2 DEF EndRun, HandoffInv, TypeOK
  <2>2. /\ RestTyped' /\ UNCHANGED <<run, events, branch, done>>
        /\ Return(q)
    BY <1>2, <2>1, RestIsTyped DEF EndRun, RestTyped, rows, tasks, history
  <2> QED  BY <2>2, ReturnKeepsInv
<1> QED  BY <1>1, <1>2 DEF Settle

LEMMA CancelKeepsInv ==
  ASSUME HandoffInv, NEW q \in Requests, Cancel(q)
  PROVE  HandoffInv'
<1>1. CASE CancelTask(q)
  <2>1. task' \in [Agents -> TaskRow] /\ (Goto(q, "clear") \/ Return(q))
    BY <1>1, CopyTyped, PersistTyped DEF CancelTask, TaskStatus
  <2>2. RestTyped' /\ UNCHANGED <<run, events, branch, done>>
    BY <1>1, <2>1, RestIsTyped DEF CancelTask, RestTyped, rows, history
  <2> QED  BY <2>1, <2>2, GotoKeepsInv, ReturnKeepsInv DEF Places, ExpectsStep
<1>2. CASE ClearInbox(q)
  <2>1. inbox' \subseteq People
    BY <1>2, InboxTyped DEF ClearInbox
  <2>2. /\ RestTyped' /\ UNCHANGED <<run, events, branch, done>>
        /\ Goto(q, "cancelRead")
    BY <1>2, <2>1, RestIsTyped DEF ClearInbox, RestTyped, rows, history
  <2> QED  BY <2>2, GotoKeepsInv DEF Places, ExpectsStep
<1>3. CASE ReadRunToCancel(q)
  <2>1. RestTyped' /\ UNCHANGED <<run, events, branch, done>>
    BY <1>3, RestIsTyped DEF ReadRunToCancel, RestTyped, rows, tasks, history
  <2>2. CASE Goto(q, "cancelRuns")
    BY <2>1, <2>2, GotoKeepsInv DEF Places, ExpectsStep
  <2>3. CASE req' = [req EXCEPT ![q].wf = run, ![q].pc = "cancelRun"]
    <3> DEFINE r == [req[q] EXCEPT !.wf = run, !.pc = "cancelRun"]
    <3>1. req[q] \in ReqRow /\ Sound(events, done, req[q])
      BY ReqSound
    <3>2. req' = [req EXCEPT ![q] = r]
      BY <2>3
    <3>3. At(q, {"cancel"}, "cancelRead") /\ run \in RunRow
      BY <1>3 DEF ReadRunToCancel, HandoffInv, TypeOK
    <3>4. /\ r \in ReqRow /\ r.wf = run /\ r.pc = "cancelRun"
          /\ r.kind = "cancel" /\ r.agent = req[q].agent
      BY <3>1, <3>3 DEF ReqRow, Places, At
    <3> HIDE DEF r
    <3>5. Only(q) /\ req'[q] = r
      BY <3>2, <3>4 DEF Only, HandoffInv, TypeOK
    <3>6. Sound(events, done, r)
      <4>1. GoodReq(r)
        BY <3>1, <3>3, <3>4 DEF Sound, GoodReq, HandoffInv, Completions, At
      <4> QED  BY <3>4, <4>1 DEF Sound, RecordedIn, ListedIn, HandoffInv, Completions
    <3> QED  BY <2>1, <3>5, <3>6, QuietStepKeepsInv
  <2> QED  BY <1>3, <2>2, <2>3 DEF ReadRunToCancel
<1>4. CASE CancelWorkflow(q)
  <2>1. /\ run' = [status |-> "cancelled", active |-> NoStep]
        /\ Goto(q, "cancelStep")
        /\ UNCHANGED <<inst, events, branch, tasks, arun, history, plain, extra>>
    BY <1>4 DEF CancelWorkflow
  <2>2. run' \in RunRow /\ RowOK(run') /\ BackedBy(events, run')
    BY <2>1 DEF RunRow, RowOK, BackedBy
  <2>3. RestTyped'
    BY <2>1, RestIsTyped DEF RestTyped, tasks, history
  <2>4. Only(q) /\ Sound(events, done, req'[q])
    BY <2>1, GotoSound DEF Places, ExpectsStep
  <2> QED  BY <2>1, <2>2, <2>3, <2>4, StepKeepsInv DEF HandoffInv, TypeOK, history
<1>5. CASE CancelStep(q)
  <2>1. inst' \in [Steps -> {"pending", "completed", "failed", "cancelled"}]
    BY <1>5 DEF CancelStep, HandoffInv, TypeOK
  <2>2. /\ RestTyped' /\ UNCHANGED <<run, events, branch, done>>
        /\ Goto(q, "cancelRuns")
    BY <1>5, <2>1, RestIsTyped DEF CancelStep, RestTyped, tasks, history
  <2> QED  BY <2>2, GotoKeepsInv DEF Places, ExpectsStep
<1>6. CASE CancelRuns(q)
  <2>1. arun' \in [Agents -> {"none", "queued", "running", "settling"}]
    BY <1>6 DEF CancelRuns, HandoffInv, TypeOK
  <2>2. /\ RestTyped' /\ UNCHANGED <<run, events, branch, done>>
        /\ Return(q)
    BY <1>6, <2>1, RestIsTyped DEF CancelRuns, RestTyped, rows, tasks, history
  <2> QED  BY <2>2, ReturnKeepsInv
<1> QED  BY <1>1, <1>2, <1>3, <1>4, <1>5, <1>6 DEF Cancel

LEMMA ViewKeepsInv ==
  ASSUME HandoffInv, NEW q \in Requests, View(q)
  PROVE  HandoffInv'
<1>r. req[q] \in ReqRow /\ Sound(events, done, req[q])
  BY ReqSound
<1>s. req[q].kind = "view" /\ req[q].step \in Steps
  BY <1>r, Zenon DEF View, RereadRun, ResaveRun, FindTask, MoveTask, At, Sound, GoodReq
<1>m. ASSUME NEW r, r \in ReqRow, r.kind = "view", r.pc # "enqueue", r.step = req[q].step,
             RowOK(r.wf), BackedBy(events, r.wf), req' = [req EXCEPT ![q] = r],
             RestTyped', UNCHANGED <<run, events, branch, done>>
      PROVE  HandoffInv'
  <2>1. Only(q) /\ req'[q] = r
    BY <1>m DEF Only, HandoffInv, TypeOK
  <2>2. Sound(events, done, r)
    BY <1>s, <1>m DEF Sound, GoodReq, RecordedIn, ListedIn, Completions
  <2> QED  BY <1>m, <2>1, <2>2, QuietStepKeepsInv
<1>1. CASE RereadRun(q)
  <2> DEFINE r == [req[q] EXCEPT !.wf = run, !.pc = "resave"]
  <2>1. req' = [req EXCEPT ![q] = r]
    BY <1>1 DEF RereadRun
  <2>2. /\ r \in ReqRow /\ r.wf = run /\ r.kind = "view" /\ r.step = req[q].step
        /\ r.pc = "resave"
    BY <1>r, <1>s DEF ReqRow, Places, HandoffInv, TypeOK
  <2> HIDE DEF r
  <2>3. RestTyped' /\ UNCHANGED <<run, events, branch, done>>
    BY <1>1, RestIsTyped DEF RereadRun, RestTyped, rows, tasks, history
  <2> QED  BY <1>m, <2>1, <2>2, <2>3 DEF HandoffInv
<1>2. CASE ResaveRun(q)
  <2>1. /\ run' = req[q].wf /\ Goto(q, "find")
        /\ UNCHANGED <<inst, events, branch, tasks, arun, history, plain, extra>>
    BY <1>2 DEF ResaveRun
  <2>2. run' \in RunRow /\ RowOK(run') /\ BackedBy(events, run')
    BY <1>r, <2>1 DEF ReqRow, Sound, GoodReq
  <2>3. RestTyped'
    BY <2>1, RestIsTyped DEF RestTyped, tasks, history
  <2>4. Only(q) /\ Sound(events, done, req'[q])
    BY <2>1, GotoSound DEF Places, ExpectsStep
  <2> QED  BY <2>1, <2>2, <2>3, <2>4, StepKeepsInv DEF HandoffInv, TypeOK, history
<1>3. CASE FindTask(q)
  <2>1. RestTyped' /\ UNCHANGED <<run, events, branch, done>>
    BY <1>3, RestIsTyped DEF FindTask, RestTyped, rows, tasks, history
  <2>2. CASE Return(q)
    BY <2>1, <2>2, ReturnKeepsInv
  <2>3. CASE ~Return(q)
    <3> DEFINE p == ActorOf[req[q].step]
               st == IF p \in People THEN "awaiting_confirmation"
                     ELSE IF arun[p] = "none" THEN "pending" ELSE "in_progress"
               c == [status |-> st, assignee |-> p]
               r(a) == [req[q] EXCEPT !.agent = a, !.pc = "move", !.copy = c]
    <3>1. PICK a \in Agents : req' = [req EXCEPT ![q] = r(a)]
      BY <1>3, <2>3, Zenon DEF FindTask
    <3>2. p \in Actors
      BY <1>s DEF Actors
    <3>3. st \in TaskStatus
      BY DEF TaskStatus
    <3> HIDE DEF p, st
    <3>4. c \in TaskRow
      BY <3>2, <3>3 DEF TaskRow, Actors, TaskStatus
    <3> HIDE DEF c
    <3> DEFINE x == r(a)
    <3>5. /\ x \in ReqRow /\ x.wf = req[q].wf /\ x.kind = "view" /\ x.pc = "move"
          /\ x.step = req[q].step
      BY <1>r, <1>s, <3>4 DEF ReqRow, Places
    <3>6. req' = [req EXCEPT ![q] = x]
      BY <3>1
    <3> HIDE DEF x
    <3> QED  BY <1>r, <1>m, <2>1, <3>5, <3>6 DEF Sound, GoodReq
  <2> QED  BY <2>2, <2>3
<1>4. CASE MoveTask(q)
  <2> DEFINE p == ActorOf[req[q].step]
             c == req[q].copy
  <2>1. /\ UNCHANGED <<rows, btask, inbox, card, arun, history, plain, extra>>
        /\ \/ Put(p, c.status, c.assignee) /\ Goto(q, "drop")
           \/ Put(req[q].agent, c.status, c.assignee) /\ Return(q)
           \/ UNCHANGED task /\ Return(q)
    BY <1>4 DEF MoveTask
  <2>2. c.status \in TaskStatus /\ c.assignee \in Actors
    BY CopyTyped DEF TaskRow, TaskStatus
  <2>3. task' \in [Agents -> TaskRow]
    <3>1. CASE UNCHANGED task
      BY <3>1 DEF HandoffInv, TypeOK
    <3> HIDE DEF p, c
    <3> QED  BY <2>1, <2>2, <3>1, PutTyped
  <2>4. RestTyped' /\ UNCHANGED <<run, events, branch, done>>
    BY <2>1, <2>3, RestIsTyped DEF RestTyped, rows, history
  <2>5. CASE Goto(q, "drop")
    BY <1>s, <2>4, <2>5, GotoKeepsInv DEF Places, Completions
  <2>6. CASE Return(q)
    BY <2>4, <2>6, ReturnKeepsInv
  <2> QED  BY <2>1, <2>5, <2>6
<1> QED  BY <1>1, <1>2, <1>3, <1>4 DEF View

-----------------------------------------------------------------------------
LEMMA InitEstablishesInv == Init => HandoffInv
<1> SUFFICES ASSUME Init PROVE HandoffInv
  OBVIOUS
<1>1. run \in RunRow /\ RowOK(run) /\ BackedBy(events, run)
  BY DEF Init, RunRow, RowOK, BackedBy, ReachedBy
<1>2. task \in [Agents -> TaskRow]
  <2>1. \A a \in Agents : [status |-> "pending", assignee |-> a] \in TaskRow
    BY DEF TaskRow
  <2> QED  BY <2>1, NoTaskTyped DEF Init
<1>3. req \in [Requests -> ReqRow] /\ \A q \in Requests : Sound(events, done, req[q])
  BY IdleSound DEF Init
<1>4. branch \in [Branches -> BranchStatus]
  BY DEF Init, NoBranches, BranchStatus
<1>5. TypeOK
  BY <1>1, <1>2, <1>3, <1>4 DEF Init, TypeOK
<1> QED  BY <1>1, <1>3, <1>5 DEF Init, HandoffInv, NoBranches

LEMMA NextKeepsInv == HandoffInv /\ [Next]_vars => HandoffInv'
<1> SUFFICES ASSUME HandoffInv, [Next]_vars PROVE HandoffInv'
  OBVIOUS
<1>1. CASE UNCHANGED vars
  BY <1>1, NoHandlerKeepsInv, RestIsTyped
  DEF vars, rows, tasks, history, RestTyped
<1>2. CASE \E q \in Requests :
             \/ Call(q) \/ Start(q) \/ Transition(q) \/ Join(q) \/ Follow(q)
             \/ Settle(q) \/ Cancel(q) \/ View(q)
  BY <1>2, CallKeepsInv, StartKeepsInv, TransitionKeepsInv, JoinKeepsInv, FollowKeepsInv,
     SettleKeepsInv, CancelKeepsInv, ViewKeepsInv
<1> QED  BY <1>1, <1>2, RunStepKeepsInv, EndBranchRunKeepsInv, RestartKeepsInv
         DEF Next

THEOREM HandoffInvHolds == Spec => []HandoffInv
<1>1. Init => HandoffInv
  BY InitEstablishesInv
<1>2. HandoffInv /\ [Next]_vars => HandoffInv'
  BY NextKeepsInv
<1> QED  BY <1>1, <1>2, PTL DEF Spec

\* Rows, tasks and handlers keep their types; in particular no output takes the
\* run to a step that does not exist.
THEOREM TypeCorrect == Spec => []TypeOK
<1>1. HandoffInv => TypeOK
  BY DEF HandoffInv
<1> QED  BY <1>1, HandoffInvHolds, PTL

\* No step is skipped, for every workflow graph and any interleaving of
\* completions, cancellations, views and restarts (CompleteAndAdvance).
THEOREM StepsNotSkipped == Spec => []NoStepSkipped
<1>1. HandoffInv => NoStepSkipped
  BY DEF HandoffInv, NoStepSkipped, BackedBy, ReachedBy, Reached
<1> QED  BY <1>1, HandoffInvHolds, PTL

\* A stage with join policy "all" is left only when every branch that the last
\* one saw has been completed (CompleteBranchAndMaybeAdvance).
THEOREM JoinsWait == Spec => []JoinWaitsForListed
<1>1. HandoffInv => JoinWaitsForListed
  <2> SUFFICES ASSUME HandoffInv, NEW q \in Requests, Leaves(q)
               PROVE  req[q].branch \in done /\ Others(q) \subseteq done
    BY DEF JoinWaitsForListed
  <2> QED  BY ReqSound DEF Sound, ListedIn, Leaves, At, Others
<1> QED  BY <1>1, HandoffInvHolds, PTL

-----------------------------------------------------------------------------
(***************************************************************************)
(* The task follows the workflow.  While no two handlers overlap and none  *)
(* has been cut short, the one under way finds the task as the last one    *)
(* left it; what it has made of it so far depends on its place.            *)
(***************************************************************************)
\* The task has one record.
Lone == \A a, b \in Agents : HasTask(a) /\ HasTask(b) => a = b

\* An open record is what the active step asks for, an agent's with a run behind it.
Follows ==
  \A a \in Agents : Open(a) =>
    /\ run.active \in Steps
    /\ IF run.active \in Parallel THEN task[a].status \in {"in_progress", "blocked"}
                                  ELSE InPlace(a, run.active)

RunBehind ==
  run.active \in Steps \ Parallel =>
    \A a \in Agents : task[a].status = "in_progress" => arun[a] # "none"

\* The person whose step is active has been told, and no ended record is left
\* for him.
Told ==
  \A a \in Agents :
    HasTask(a) /\ run.active \in Steps \ Parallel /\ ActorOf[run.active] \in People
      => ~Terminal(task[a]) /\ ActorOf[run.active] \in inbox

Good == Lone /\ Follows /\ RunBehind /\ Told

\* Where a completion has not moved the run, or is through with the task.
Undecided(r) ==
  \/ r.pc \in {"read", "instance", "run", "check", "list", "save", "skip", "block"}
  \/ r.pc \in {"unbox", "archive"} /\ r.wf.status = "none"
  \/ r.pc = "parent" /\ r.outcome = Failed

Placed(r) == r.pc \in {"spawn", "row", "queue"}

\* Where it has moved the run and not yet the task.
Between(r) ==
  \/ r.pc \in {"next", "close", "place"}
  \/ r.pc \in {"unbox", "archive"} /\ r.wf.status # "none"
  \/ r.pc = "parent" /\ r.outcome # Failed

\* The record goes from agent a to the actor of step s.
Handing(a, s) ==
  /\ s = run.active /\ s \in Steps \ Parallel
  /\ LET p == ActorOf[s] IN
       /\ p \in Agents /\ p # a /\ HasTask(p) /\ InPlace(p, s)
       /\ \A b \in Agents : HasTask(b) => b \in {a, p}
       /\ task[p].status = "in_progress" => arun[p] # "none"

\* The task is in progress with the active step's agent, and about to get a run.
Starting(r) ==
  /\ Lone /\ run.active \in Steps \ Parallel
  /\ r.agent \in Agents /\ HasTask(r.agent) /\ InPlace(r.agent, run.active)
  /\ ActorOf[run.active] \in Agents
  /\ r.copy.assignee = task[r.agent].assignee

CompletionAt(r) ==
  /\ Undecided(r) \/ Placed(r) => Good
  /\ Between(r) => Lone /\ r.wf = run /\ r.wf.status # "none"
  /\ r.pc \in {"read", "check", "list", "save", "skip"} => r.wf.status = "none"
  /\ r.pc \in {"instance", "run", "queue", "notify"} => r.wf = run
  /\ r.pc = "close" => run.active = NoStep
  /\ r.pc = "unbox" /\ r.wf.status = "none" => run.active = NoStep
  /\ r.pc \in {"close", "place"} => r.agent \in Agents /\ HasTask(r.agent)
  /\ r.pc = "queue" => run.active \in Steps \ Parallel /\ ActorOf[run.active] \in Agents
  /\ r.pc = "drop" => r.wf = run /\ Handing(r.agent, run.active)
  /\ r.pc = "enqueue" => Starting(r)
  /\ r.pc = "notify" =>
       Lone /\ Follows /\ RunBehind /\ \A a \in Agents : ~Terminal(task[a])

\* A done or a review holds the task of an agent.
HolderAt(r) ==
  r.pc \in {"read", "instance", "run", "next", "unbox"} => HasTask(r.agent)

\* A branch that failed has left the run in its stage; one that moves the run
\* has joined.
BranchAt(r) ==
  /\ \/ r.pc \in {"list", "save", "skip", "block"}
     \/ r.pc \in {"archive", "parent"} /\ r.outcome = Failed
     => run.active = StageOf[r.branch]
  /\ r.pc = "skip" => r.outcome # Failed
  /\ \/ r.pc \in {"read", "instance", "run", "next"}
     \/ r.pc \in {"archive", "parent"} /\ r.wf.status # "none"
     => r.joined /\ r.outcome # Failed
  /\ r.pc = "block" => r.agent \in Agents /\ HasTask(r.agent)

CancelAt(r) ==
  /\ HasTask(r.agent) /\ Lone
  /\ r.pc = "persist" => Good
  /\ r.pc # "persist" => task[r.agent].status = "cancelled"
  /\ r.pc \in {"cancelStep", "cancelRuns"} => run.active = NoStep

ViewAt(r) ==
  /\ run.active = r.step /\ r.step \notin Parallel
  /\ r.pc # "drop" => Good
  /\ r.pc = "resave" => r.wf = run
  /\ r.pc = "drop" => Handing(r.agent, r.step)
  /\ r.pc = "move" =>
       LET p == ActorOf[r.step] IN
       /\ r.agent \in Agents /\ HasTask(r.agent)
       /\ r.copy.assignee = p
       /\ p \in People => r.copy.status = "awaiting_confirmation"
       /\ p \in Agents => \/ r.copy.status = "pending"
                          \/ r.copy.status = "in_progress" /\ arun[p] # "none"

SettleAt(r) ==
  /\ Good
  /\ r.pc = "fail" => HasTask(r.agent) /\ NotCompleted(task[r.agent])
  /\ r.pc = "report" => ~NotCompleted(task[r.agent])

StartAt(r) ==
  /\ r.pc = "start" => /\ Good /\ task[r.agent].status = "pending"
                       /\ r.copy.assignee = task[r.agent].assignee
  /\ r.pc = "enqueue" => Starting(r)

PlaceInv(r) ==
  /\ r.kind \in Completions => CompletionAt(r)
  /\ r.kind \in {"done", "review"} => HolderAt(r)
  /\ r.kind = "branch" => BranchAt(r)
  /\ r.kind = "cancel" => CancelAt(r)
  /\ r.kind = "view" => ViewAt(r)
  /\ r.kind = "settle" => SettleAt(r)
  /\ r.kind = "start" => StartAt(r)

PlainInv ==
  plain =>
    /\ \A p, q \in Requests : req[p].kind # "none" /\ req[q].kind # "none" => p = q
    /\ \A q \in Requests : PlaceInv(req[q])
    /\ Quiet => Good

InOrder(q) == IF req[q].kind = "none" THEN Good ELSE PlaceInv(req[q])

-----------------------------------------------------------------------------
(* Steps that are not a handler's *)

LEMMA IdleInPlace ==
  ASSUME NEW r, r.kind = "none"
  PROVE  PlaceInv(r)
  BY DEF PlaceInv, Completions

\* A step of handler q leaves the others as they are.
LEMMA PlainStep ==
  ASSUME PlainInv, NEW q \in Requests, \A p \in Requests \ {q} : req'[p] = req[p],
         req[q].kind # "none", plain' = plain, plain => InOrder(q)'
  PROVE  PlainInv'
<1> SUFFICES ASSUME plain PROVE PlainInv'
  BY DEF PlainInv
<1>1. \A p \in Requests \ {q} : req[p].kind = "none"
  BY DEF PlainInv
<1>2. \A p \in Requests \ {q} : req'[p].kind = "none"
  BY <1>1
<1>3. \A p \in Requests \ {q} : PlaceInv(req[p])'
  BY <1>2 DEF PlaceInv, Completions
<1>4. req'[q].kind = "none" => PlaceInv(req[q])'
  BY DEF PlaceInv, Completions
<1>5. PlaceInv(req[q])'
  BY <1>4 DEF InOrder
<1>6. Quiet' => Good'
  BY DEF InOrder, Quiet
<1> QED  BY <1>2, <1>3, <1>5, <1>6 DEF PlainInv

LEMMA PlainHandler ==
  ASSUME PlainInv, plain, NEW q \in Requests, req[q].kind # "none"
  PROVE  InOrder(q)
  BY DEF PlainInv, InOrder

\* While the run, the task and the inbox stay, so does what is good of them.
LEMMA GoodStays ==
  ASSUME Good, UNCHANGED <<run, task, inbox>>,
         \A a \in Agents : task[a].status = "in_progress" /\ arun[a] # "none"
           => arun'[a] # "none"
  PROVE  Good'
<1>1. Lone'
  BY DEF Good, Lone, HasTask
<1>2. Follows'
  BY DEF Good, Follows, Open, HasTask, Terminal, InPlace
<1>3. RunBehind'
  BY DEF Good, RunBehind
<1>4. Told'
  BY DEF Good, Told, HasTask
<1> QED  BY <1>1, <1>2, <1>3, <1>4 DEF Good

LEMMA SameGood ==
  ASSUME UNCHANGED <<run, task, inbox, arun>>
  PROVE  /\ Good => Good'
         /\ Lone => Lone'
         /\ \A a \in Agents : HasTask(a)' <=> HasTask(a)
<1>1. Good => Good'
  BY GoodStays
<1> QED  BY <1>1 DEF Lone, HasTask

LEMMA NoHandlerKeepsPlain ==
  ASSUME PlainInv, UNCHANGED <<req, plain>>, Good => Good',
         \A q \in Requests : PlaceInv(req[q]) => PlaceInv(req[q])'
  PROVE  PlainInv'
<1>1. Quiet' = Quiet
  BY DEF Quiet
<1> QED  BY <1>1 DEF PlainInv

\* Nothing a handler finds, or has done, changes with the branches' child tasks
\* or when a node claims the agent's run.
LEMMA ElsewhereKeepsPlain ==
  ASSUME HandoffInv, PlainInv, UNCHANGED <<run, task, inbox, req, plain>>,
         \A a \in Agents : arun[a] # "none" => arun'[a] # "none"
  PROVE  PlainInv'
<1>1. Good => Good'
  BY GoodStays
<1>2. ASSUME NEW q \in Requests, PlaceInv(req[q])
      PROVE  PlaceInv(req[q])'
  <2>1. /\ Lone => Lone'
        /\ Follows => Follows'
        /\ RunBehind => RunBehind'
        /\ \A a : HasTask(a)' = HasTask(a)
        /\ \A a, s : Handing(a, s) => Handing(a, s)'
        /\ \A r : Starting(r) => Starting(r)'
    BY DEF Lone, Follows, RunBehind, HasTask, Open, Terminal, InPlace, Handing, Starting
  <2>2. CompletionAt(req[q]) => CompletionAt(req[q])'
    BY <1>1, <2>1 DEF CompletionAt, Undecided, Placed, Between
  <2>3. HolderAt(req[q]) => HolderAt(req[q])'
    BY <2>1 DEF HolderAt
  <2>4. BranchAt(req[q]) => BranchAt(req[q])'
    BY <2>1 DEF BranchAt
  <2>5. CancelAt(req[q]) => CancelAt(req[q])'
    BY <1>1, <2>1 DEF CancelAt
  <2>6. GoodReq(req[q])
    BY ReqSound DEF Sound
  <2>7. req[q].kind = "view" /\ ViewAt(req[q]) => ViewAt(req[q])'
    BY <1>1, <2>1, <2>6 DEF ViewAt, GoodReq
  <2>8. SettleAt(req[q]) => SettleAt(req[q])'
    BY <1>1, <2>1 DEF SettleAt, NotCompleted
  <2>9. StartAt(req[q]) => StartAt(req[q])'
    BY <1>1, <2>1 DEF StartAt
  <2> QED  BY <1>2, <2>2, <2>3, <2>4, <2>5, <2>7, <2>8, <2>9 DEF PlaceInv
<1> QED  BY <1>1, <1>2, NoHandlerKeepsPlain

\* Where a task has ended, nobody waits for what is in the inbox.
LEMMA EndedTellsNobody ==
  ASSUME Good, NEW a \in Agents, Terminal(task[a]), UNCHANGED <<run, task>>
  PROVE  Told'
<1>1. HasTask(a)
  BY DEF Terminal, HasTask
<1>2. \A b \in Agents : HasTask(b) => b = a
  BY <1>1 DEF Good, Lone
<1>3. ~(run.active \in Steps \ Parallel /\ ActorOf[run.active] \in People)
  BY <1>1 DEF Good, Told
<1> QED  BY <1>3 DEF Told

LEMMA RunStepKeepsPlain ==
  ASSUME HandoffInv, PlainInv, RunStep
  PROVE  PlainInv'
<1>1. PICK a \in Agents : ClaimRun(a) \/ CancelEnded(a)
  BY DEF RunStep
<1>2. CASE CancelEnded(a)
  <2>1. /\ UNCHANGED <<run, task, arun, req>> /\ plain' = (plain /\ Quiet)
        /\ Terminal(task[a])
    BY <1>2 DEF CancelEnded, rows
  <2> SUFFICES ASSUME plain, Quiet PROVE PlainInv'
    BY <2>1 DEF PlainInv
  <2>2. Good
    BY DEF PlainInv
  <2>3. Lone' /\ Follows' /\ RunBehind'
    BY <2>1, <2>2 DEF Good, Lone, Follows, RunBehind, HasTask, Open, Terminal, InPlace
  <2>4. Good'
    BY <2>1, <2>2, <2>3, EndedTellsNobody DEF Good
  <2>5. \A q \in Requests : req'[q].kind = "none"
    BY <2>1 DEF Quiet
  <2>6. \A q \in Requests : PlaceInv(req[q])'
    BY <2>5 DEF PlaceInv, Completions
  <2> QED  BY <2>4, <2>5, <2>6 DEF PlainInv
<1>3. CASE ClaimRun(a)
  <2>1. UNCHANGED <<run, task, inbox, req, plain>> /\ arun' = [arun EXCEPT ![a] = "running"]
    BY <1>3 DEF ClaimRun, rows, tasks
  <2>2. \A b \in Agents : arun[b] # "none" => arun'[b] # "none"
    BY <2>1 DEF HandoffInv, TypeOK
  <2> QED  BY <2>1, <2>2, ElsewhereKeepsPlain
<1> QED  BY <1>1, <1>2, <1>3

-----------------------------------------------------------------------------
(* Calls *)

LEMMA BeginKeepsPlain ==
  ASSUME HandoffInv, PlainInv, NEW q \in Requests, NEW expected, NEW r, r.kind # "none",
         Begin(q, expected, r), plain /\ Good /\ req'[q] = r => PlaceInv(req[q])'
  PROVE  PlainInv'
<1>1. /\ req' = [req EXCEPT ![q] = r] /\ plain' = (plain /\ Quiet)
      /\ req \in [Requests -> ReqRow]
  BY DEF Begin, HandoffInv, TypeOK
<1>2. req'[q] = r /\ \A p \in Requests \ {q} : req'[p] = req[p]
  BY <1>1
<1> SUFFICES ASSUME plain, Quiet PROVE PlainInv'
  BY <1>1 DEF PlainInv
<1>3. Good
  BY DEF PlainInv
<1>4. \A p \in Requests \ {q} : req'[p].kind = "none"
  BY <1>2 DEF Quiet
<1>5. \A p \in Requests \ {q} : PlaceInv(req[p])'
  BY <1>4 DEF PlaceInv, Completions
<1>6. ~Quiet'
  BY <1>2 DEF Quiet
<1> QED  BY <1>2, <1>3, <1>4, <1>5, <1>6 DEF PlainInv

LEMMA CallKeepsPlain ==
  ASSUME HandoffInv, PlainInv, NEW q \in Requests, Call(q)
  PROVE  PlainInv'
<1>i. Idle.wf.status = "none"
  BY DEF Idle
<1>1. CASE \E a \in Agents : ReportRun(q, a)
  <2>1. PICK a \in Agents : ReportRun(q, a)
    BY <1>1
  <2> DEFINE pc == IF NotCompleted(task[a]) THEN "fail" ELSE "report"
             r == [Idle EXCEPT !.kind = "settle", !.agent = a, !.copy = task[a],
                     !.pc = pc]
  <2>2. Begin(q, a \in did, r) /\ UNCHANGED <<run, task, inbox>>
    BY <2>1 DEF ReportRun, rows, tasks
  <2>3. r.kind = "settle" /\ r.agent = a /\ r.pc = pc
    BY DEF Idle
  <2>4. \A b \in Agents : arun[b] # "none" => arun'[b] # "none"
    BY <2>1 DEF ReportRun, HandoffInv, TypeOK
  <2>5. pc \in {"fail", "report"} /\ (pc = "fail" <=> NotCompleted(task[a]))
    OBVIOUS
  <2> HIDE DEF r, pc
  <2>6. ASSUME Good, req'[q] = r
        PROVE  PlaceInv(req[q])'
    <3>1. Good'
      BY <2>2, <2>4, <2>6, GoodStays
    <3>2. SettleAt(req[q])'
      BY <2>2, <2>3, <2>5, <2>6, <3>1 DEF SettleAt, HasTask, NotCompleted
    <3> QED  BY <2>3, <2>6, <3>2 DEF PlaceInv, Completions
  <2> QED  BY <2>2, <2>3, <2>6, BeginKeepsPlain
<1>2. CASE \E a \in Agents : CallCancel(q, a)
  <2>1. PICK a \in Agents : CallCancel(q, a)
    BY <1>2
  <2> DEFINE r == [Idle EXCEPT !.kind = "cancel", !.pc = "persist",
                     !.agent = a, !.copy = task[a]]
  <2>2. Begin(q, FALSE, r) /\ UNCHANGED <<run, task, inbox, arun>> /\ HasTask(a)
    BY <2>1 DEF CallCancel, rows, tasks
  <2>3. r.kind = "cancel" /\ r.agent = a /\ r.pc = "persist"
    BY DEF Idle
  <2> HIDE DEF r
  <2>4. ASSUME Good, req'[q] = r
        PROVE  PlaceInv(req[q])'
    <3>1. CancelAt(req[q])'
      BY <2>2, <2>3, <2>4, SameGood DEF CancelAt, Good
    <3> QED  BY <2>3, <2>4, <3>1 DEF PlaceInv, Completions
  <2> QED  BY <2>2, <2>3, <2>4, BeginKeepsPlain
<1>h. ASSUME NEW r, NEW a \in Agents, r.kind \in {"done", "review"}, r.pc = "read",
             r.agent = a, r.wf = Idle.wf, HasTask(a),
             UNCHANGED <<run, task, inbox, arun>>, Good, req'[q] = r
      PROVE  PlaceInv(req[q])'
  <2>1. CompletionAt(req[q])' /\ HolderAt(req[q])'
    BY <1>h, <1>i, SameGood DEF CompletionAt, HolderAt, Undecided, Placed, Between
  <2> QED  BY <1>h, <2>1 DEF PlaceInv
<1>3. CASE \E a \in Agents, o \in Outcomes \cup {Failed} : CallStepDone(q, a, o)
  <2>1. PICK a \in Agents, o \in Outcomes \cup {Failed} : CallStepDone(q, a, o)
    BY <1>3
  <2> DEFINE r == [Idle EXCEPT !.kind = "done", !.pc = "read", !.agent = a,
                     !.copy = task[a], !.outcome = o]
             x == /\ run.active \in Steps \ Parallel
                  /\ ActorOf[run.active] = a
                  /\ task[a].status = "in_progress"
  <2>2. r.kind = "done" /\ r.agent = a /\ r.pc = "read" /\ r.wf = Idle.wf
    BY DEF Idle
  <2>3. Begin(q, x, r) /\ UNCHANGED <<run, task, inbox, arun>> /\ HasTask(a)
    BY <2>1 DEF CallStepDone, rows, tasks
  <2> HIDE DEF r, x
  <2> QED  BY <1>h, <2>2, <2>3, BeginKeepsPlain
<1>4. CASE \E a \in Agents, o \in Outcomes : CallReview(q, a, o)
  <2>1. PICK a \in Agents, o \in Outcomes : CallReview(q, a, o)
    BY <1>4
  <2> DEFINE r == [Idle EXCEPT !.kind = "review", !.pc = "read", !.agent = a,
                     !.copy = task[a], !.outcome = o]
             x == run.active # NoStep /\ ActorOf[run.active] \in inbox
  <2>2. r.kind = "review" /\ r.agent = a /\ r.pc = "read" /\ r.wf = Idle.wf
    BY DEF Idle
  <2>3. Begin(q, x, r) /\ UNCHANGED <<run, task, inbox, arun>> /\ HasTask(a)
    BY <2>1 DEF CallReview, rows, tasks
  <2> HIDE DEF r, x
  <2> QED  BY <1>h, <2>2, <2>3, BeginKeepsPlain
<1>7. CASE \E a \in Agents, o \in Outcomes, s \in Steps : CallCard(q, a, s, o)
  <2>1. PICK a \in Agents, o \in Outcomes, s \in Steps : CallCard(q, a, s, o)
    BY <1>7
  <2> DEFINE r == [Idle EXCEPT !.kind = "review", !.pc = "read", !.agent = a,
                     !.copy = task[a], !.outcome = o, !.step = s, !.card = TRUE]
  <2>2. r.kind = "review" /\ r.agent = a /\ r.pc = "read" /\ r.wf = Idle.wf
    BY DEF Idle
  <2>3. Begin(q, run.active = s, r) /\ UNCHANGED <<run, task, inbox, arun>> /\ HasTask(a)
    BY <2>1 DEF CallCard, rows, tasks
  <2> HIDE DEF r
  <2> QED  BY <1>h, <2>2, <2>3, BeginKeepsPlain
<1>8. CASE \E a \in Agents : CallStart(q, a)
  <2>1. PICK a \in Agents : CallStart(q, a)
    BY <1>8
  <2> DEFINE r == [Idle EXCEPT !.kind = "start", !.pc = "start",
                     !.agent = a, !.copy = task[a]]
  <2>2. r.kind = "start" /\ r.agent = a /\ r.pc = "start" /\ r.copy = task[a]
    BY DEF Idle
  <2>3. /\ Begin(q, TRUE, r) /\ UNCHANGED <<run, task, inbox, arun>>
        /\ task[a].status = "pending"
    BY <2>1 DEF CallStart, rows, tasks
  <2> HIDE DEF r
  <2>4. ASSUME Good, req'[q] = r
        PROVE  PlaceInv(req[q])'
    <3>1. StartAt(req[q])'
      BY <2>2, <2>3, <2>4, SameGood DEF StartAt
    <3> QED  BY <2>2, <2>4, <3>1 DEF PlaceInv, Completions
  <2> QED  BY <2>2, <2>3, <2>4, BeginKeepsPlain
<1>5. CASE \E b \in Branches, o \in Outcomes \cup {Failed} : CallBranchDone(q, b, o)
  <2>1. PICK b \in Branches, o \in Outcomes \cup {Failed} : CallBranchDone(q, b, o)
    BY <1>5
  <2> DEFINE r == [Idle EXCEPT !.kind = "branch", !.pc = "check", !.branch = b,
                     !.outcome = o]
             x == btask[b] = "open" /\ run.active = StageOf[b]
  <2>2. r.kind = "branch" /\ r.pc = "check" /\ r.wf = Idle.wf
    BY DEF Idle
  <2>3. Begin(q, x, r) /\ UNCHANGED <<run, task, inbox, arun>>
    BY <2>1 DEF CallBranchDone, rows, tasks
  <2> HIDE DEF r, x
  <2>4. ASSUME Good, req'[q] = r
        PROVE  PlaceInv(req[q])'
    <3>1. CompletionAt(req[q])' /\ BranchAt(req[q])'
      BY <1>i, <2>2, <2>3, <2>4, SameGood DEF CompletionAt, BranchAt, Undecided, Placed, Between
    <3> QED  BY <2>2, <2>4, <3>1 DEF PlaceInv
  <2> QED  BY <2>2, <2>3, <2>4, BeginKeepsPlain
<1>6. CASE CallView(q)
  <2> DEFINE r == [Idle EXCEPT !.kind = "view", !.pc = "reread",
                     !.step = run.active]
  <2>1. r.kind = "view" /\ r.pc = "reread" /\ r.step = run.active
    BY DEF Idle
  <2>2. /\ Begin(q, FALSE, r) /\ UNCHANGED <<run, task, inbox, arun>>
        /\ run.active \in Steps \ Parallel
    BY <1>6 DEF CallView, rows, tasks
  <2> HIDE DEF r
  <2>3. ASSUME Good, req'[q] = r
        PROVE  PlaceInv(req[q])'
    <3>1. ViewAt(req[q])'
      BY <2>1, <2>2, <2>3, SameGood DEF ViewAt
    <3> QED  BY <2>1, <2>3, <3>1 DEF PlaceInv, Completions
  <2> QED  BY <2>1, <2>2, <2>3, BeginKeepsPlain
<1> QED  BY <1>1, <1>2, <1>3, <1>4, <1>5, <1>6, <1>7, <1>8 DEF Call

-----------------------------------------------------------------------------
(* A step of a handler under way *)

Stays(q) == \A p \in Requests \ {q} : req'[p] = req[p]

LEMMA HandlerKeepsPlain ==
  ASSUME PlainInv, NEW q \in Requests, Stays(q), req[q].kind # "none", plain' = plain,
         PlaceInv(req[q]) => InOrder(q)'
  PROVE  PlainInv'
<1>1. plain => PlaceInv(req[q])
  BY PlainHandler DEF InOrder
<1> QED  BY <1>1, PlainStep DEF Stays

LEMMA ReturnKeepsPlain ==
  ASSUME HandoffInv, PlainInv, NEW q \in Requests, req[q].kind # "none", Return(q),
         plain' = plain, PlaceInv(req[q]) => Good'
  PROVE  PlainInv'
<1>1. req \in [Requests -> ReqRow] /\ req' = [req EXCEPT ![q] = Idle]
  BY DEF HandoffInv, TypeOK, Return
<1>2. req'[q].kind = "none" /\ Stays(q)
  BY <1>1 DEF Idle, Stays
<1> QED  BY <1>2, HandlerKeepsPlain DEF InOrder

LEMMA GotoKeepsPlain ==
  ASSUME HandoffInv, PlainInv, NEW q \in Requests, req[q].kind # "none",
         NEW pc \in Places, Goto(q, pc),
         plain' = plain, PlaceInv(req[q]) => PlaceInv(req[q])'
  PROVE  PlainInv'
<1>1. req'[q].kind = req[q].kind /\ Stays(q)
  BY GotoFields DEF Only, Stays
<1> QED  BY <1>1, HandlerKeepsPlain DEF InOrder

\* What the record of a handler is worth.
LEMMA CopyRow ==
  ASSUME HandoffInv, NEW q \in Requests
  PROVE  /\ req[q] \in ReqRow
         /\ req[q].wf.active \in Steps \/ req[q].wf.active = NoStep
         /\ req[q].wf.status = "active" <=> req[q].wf.active \in Steps
         /\ run \in RunRow
         /\ run.active \in Steps \/ run.active = NoStep
         /\ run.status = "active" <=> run.active \in Steps
         /\ req[q].kind \in {"done", "review", "settle", "cancel"} => req[q].agent \in Agents
         /\ req[q].kind = "branch" => req[q].branch \in Branches
         /\ req[q].kind = "view" => req[q].step \in Steps
         /\ req[q].kind \in Completions /\ req[q].pc \in ExpectsStep => req[q].wf.active \in Steps
         /\ req[q].kind \in Completions /\ req[q].pc = "notify" =>
              ActorOf[req[q].wf.active] \in People
<1>1. req[q] \in ReqRow /\ GoodReq(req[q]) /\ RowOK(run) /\ run \in RunRow
  BY ReqSound DEF Sound, HandoffInv, TypeOK
<1> QED  BY <1>1 DEF GoodReq, RowOK, ReqRow, RunRow

\* A completion that moves within the places where nothing is decided yet.
LEMMA UndecidedStep ==
  ASSUME NEW q \in Requests, req'[q].kind \in Completions, Good',
         req'[q].pc \in {"read", "instance", "run", "check", "list", "save", "skip", "unbox", "archive",
                         "parent", "block", "spawn", "row"},
         Between(req[q])' => Lone' /\ req'[q].wf = run' /\ req'[q].wf.status # "none",
         req'[q].pc \in {"read", "check", "list", "save", "skip"} => req'[q].wf.status = "none",
         req'[q].pc \in {"instance", "run"} => req'[q].wf = run',
         req'[q].pc = "unbox" /\ req'[q].wf.status = "none" => run'.active = NoStep,
         req'[q].kind # "branch" => HolderAt(req[q])',
         req'[q].kind = "branch" => BranchAt(req[q])'
  PROVE  PlaceInv(req[q])'
<1>1. CompletionAt(req[q])'
  BY DEF CompletionAt
<1> QED  BY <1>1 DEF PlaceInv, Completions

LEMMA ReadRunKeepsPlain ==
  ASSUME HandoffInv, PlainInv, NEW q \in Requests, ReadRun(q)
  PROVE  PlainInv'
<1>0. /\ UNCHANGED <<run, task, inbox, arun, plain>>
      /\ req[q].kind \in Completions /\ req[q].pc = "read" /\ req[q].kind # "none"
      /\ req[q] \in ReqRow /\ req \in [Requests -> ReqRow]
  BY CopyRow DEF ReadRun, rows, tasks, At, Completions, HandoffInv, TypeOK
<1>1. ASSUME PlaceInv(req[q])
      PROVE  /\ Good /\ Good' /\ req[q].wf.status = "none"
             /\ req[q].kind # "branch" => HasTask(req[q].agent)
             /\ req[q].kind = "branch" => req[q].joined /\ req[q].outcome # Failed
  BY <1>0, <1>1, SameGood DEF PlaceInv, CompletionAt, Undecided, HolderAt, BranchAt, Completions
<1>2. CASE run.active # NoStep
  <2> DEFINE r == [req[q] EXCEPT !.wf = run, !.pc = "instance"]
  <2>1. req' = [req EXCEPT ![q] = r]
    BY <1>2 DEF ReadRun
  <2>2. /\ r.wf = run /\ r.pc = "instance" /\ r.kind = req[q].kind /\ r.agent = req[q].agent
        /\ r.joined = req[q].joined /\ r.outcome = req[q].outcome
    BY <1>0 DEF ReqRow
  <2> HIDE DEF r
  <2>3. req'[q] = r /\ Stays(q)
    BY <1>0, <2>1 DEF Stays
  <2>4. ASSUME PlaceInv(req[q]) PROVE PlaceInv(req[q])'
    <3>1. HolderAt(req[q])' \/ req[q].kind = "branch"
      BY <1>0, <1>1, <2>2, <2>3, <2>4 DEF HolderAt, HasTask
    <3>2. req[q].kind = "branch" => BranchAt(req[q])'
      BY <1>0, <1>1, <2>2, <2>3, <2>4 DEF BranchAt
    <3> QED  BY <1>0, <1>1, <2>2, <2>3, <2>4, <3>1, <3>2, UndecidedStep DEF Between
  <2> QED  BY <1>0, <2>2, <2>3, <2>4, HandlerKeepsPlain DEF InOrder
<1>3. CASE run.active = NoStep
  <2>1. CASE req[q].kind = "done"
    BY <1>0, <1>1, <1>3, <2>1, ReturnKeepsPlain DEF ReadRun
  <2>2. CASE req[q].kind = "review"
    <3>1. Goto(q, "unbox") /\ "unbox" \in Places
      BY <1>3, <2>2 DEF ReadRun, Places
    <3>2. ASSUME PlaceInv(req[q]) PROVE PlaceInv(req[q])'
      <4>1. HolderAt(req[q])'
        BY <1>0, <1>1, <3>1, <3>2, <2>2, GotoFields DEF HolderAt, HasTask
      <4> QED  BY <1>0, <1>1, <1>3, <2>2, <3>1, <3>2, <4>1, GotoFields, UndecidedStep DEF Between
    <3> QED  BY <1>0, <3>1, <3>2, GotoKeepsPlain
  <2>3. CASE req[q].kind = "branch"
    <3>1. Goto(q, "archive") /\ "archive" \in Places
      BY <1>3, <2>3 DEF ReadRun, Places
    <3>2. ASSUME PlaceInv(req[q]) PROVE PlaceInv(req[q])'
      <4>1. BranchAt(req[q])'
        BY <1>0, <1>1, <3>1, <3>2, <2>3, GotoFields DEF BranchAt
      <4> QED  BY <1>0, <1>1, <1>3, <2>3, <3>1, <3>2, <4>1, GotoFields, UndecidedStep DEF Between
    <3> QED  BY <1>0, <3>1, <3>2, GotoKeepsPlain
  <2> QED  BY <1>0, <2>1, <2>2, <2>3 DEF Completions
<1> QED  BY <1>2, <1>3

LEMMA SaveInstanceKeepsPlain ==
  ASSUME HandoffInv, PlainInv, NEW q \in Requests, SaveInstance(q)
  PROVE  PlainInv'
<1>0. /\ UNCHANGED <<run, task, inbox, arun, plain>> /\ Goto(q, "run") /\ "run" \in Places
      /\ req[q].kind \in Completions /\ req[q].pc = "instance" /\ req[q].kind # "none"
  BY DEF SaveInstance, tasks, At, Completions, Places
<1>1. ASSUME PlaceInv(req[q]) PROVE PlaceInv(req[q])'
  <2>1. /\ Good /\ Good' /\ req[q].wf = run
        /\ req[q].kind # "branch" => HasTask(req[q].agent)
        /\ req[q].kind = "branch" => req[q].joined /\ req[q].outcome # Failed
    BY <1>0, <1>1, SameGood DEF PlaceInv, CompletionAt, Undecided, HolderAt, BranchAt, Completions
  <2>2. HolderAt(req[q])' \/ req[q].kind = "branch"
    BY <1>0, <2>1, GotoFields DEF HolderAt, HasTask
  <2>3. req[q].kind = "branch" => BranchAt(req[q])'
    BY <1>0, <2>1, GotoFields DEF BranchAt
  <2> QED  BY <1>0, <2>1, <2>2, <2>3, GotoFields, UndecidedStep DEF Between
<1> QED  BY <1>0, <1>1, GotoKeepsPlain

\* Between the run's move and the task's.
LEMMA BetweenStep ==
  ASSUME NEW q \in Requests, req'[q].kind \in Completions,
         Lone', req'[q].wf = run', req'[q].wf.status # "none",
         req'[q].pc \in {"next", "unbox", "archive", "close", "place"},
         req'[q].pc = "close" => run'.active = NoStep,
         req'[q].pc \in {"close", "place"} => req'[q].agent \in Agents /\ HasTask(req[q].agent)',
         req'[q].kind # "branch" => HasTask(req[q].agent)',
         req'[q].kind = "branch" => BranchAt(req[q])'
  PROVE  PlaceInv(req[q])'
<1>1. CompletionAt(req[q])'
  BY DEF CompletionAt, Undecided, Placed
<1>2. req'[q].kind # "branch" => HolderAt(req[q])'
  BY DEF HolderAt
<1> QED  BY <1>1, <1>2 DEF PlaceInv, Completions

LEMMA SaveRunKeepsPlain ==
  ASSUME HandoffInv, PlainInv, NEW q \in Requests, SaveRun(q)
  PROVE  PlainInv'
<1> DEFINE s == req[q].wf.active
           o == req[q].outcome
           new == IF Target(s, o) = End
                    THEN [status |-> StatusOf(o), active |-> NoStep]
                    ELSE [req[q].wf EXCEPT !.active = Target(s, o)]
           pc == IF Target(s, o) = End THEN AfterTransition(q) ELSE "next"
<1>0. /\ UNCHANGED <<task, inbox, arun, plain>>
      /\ req[q].kind \in Completions /\ req[q].pc = "run" /\ req[q].kind # "none"
      /\ req[q] \in ReqRow /\ req \in [Requests -> ReqRow]
  BY CopyRow DEF SaveRun, tasks, At, Completions, HandoffInv, TypeOK
<1>1. ASSUME PlaceInv(req[q])
      PROVE  /\ Good
             /\ req[q].kind # "branch" => HasTask(req[q].agent)
             /\ req[q].kind = "branch" => req[q].joined /\ req[q].outcome # Failed
  BY <1>0, <1>1 DEF PlaceInv, CompletionAt, Undecided, HolderAt, BranchAt, Completions
<1>2. CASE ~Matches(s, o)
  <2>1. Return(q) /\ run' = run
    BY <1>2 DEF SaveRun
  <2> QED  BY <1>0, <1>1, <2>1, SameGood, ReturnKeepsPlain
<1>3. CASE Matches(s, o)
  <2>1. run' = new /\ req' = [req EXCEPT ![q].wf = new, ![q].pc = pc]
    BY <1>3 DEF SaveRun
  <2>2. new.status # "none" /\ (Target(s, o) = End => new.active = NoStep)
    BY <1>0, <1>3, NewRow DEF At
  <2>3. /\ Target(s, o) = End => pc = IF req[q].kind = "review" THEN "unbox"
                                      ELSE IF req[q].kind = "branch" THEN "archive" ELSE "close"
        /\ Target(s, o) # End => pc = "next"
    BY <1>0 DEF AfterTransition
  <2> HIDE DEF new, pc
  <2>4. /\ req'[q].wf = new /\ req'[q].pc = pc /\ req'[q].kind = req[q].kind
        /\ req'[q].agent = req[q].agent /\ req'[q].outcome = o /\ req'[q].joined = req[q].joined
        /\ req'[q].branch = req[q].branch
        /\ Stays(q)
    BY <1>0, <2>1 DEF ReqRow, Stays
  <2>5. ASSUME PlaceInv(req[q]) PROVE PlaceInv(req[q])'
    <3>1. Lone' /\ (req[q].kind # "branch" => req[q].agent \in Agents /\ HasTask(req[q].agent)')
      BY <1>0, <1>1, <2>4, <2>5, CopyRow DEF Good, Lone, HasTask, Completions
    <3>2. req[q].kind = "branch" => BranchAt(req[q])'
      BY <1>1, <2>3, <2>4, <2>5 DEF BranchAt
    <3>3. pc \in {"next", "unbox", "archive", "close"} /\ (pc = "close" => req[q].kind # "branch" /\ new.active = NoStep)
      BY <1>0, <2>2, <2>3 DEF Completions
    <3> QED  BY <1>0, <2>1, <2>2, <2>4, <3>1, <3>2, <3>3, BetweenStep
  <2> QED  BY <1>0, <2>4, <2>5, HandlerKeepsPlain DEF InOrder
<1> QED  BY <1>2, <1>3

LEMMA OpenNextKeepsPlain ==
  ASSUME HandoffInv, PlainInv, NEW q \in Requests, OpenNext(q)
  PROVE  PlainInv'
<1> DEFINE pc == AfterTransition(q)
<1>0. /\ UNCHANGED <<run, task, inbox, arun, plain>> /\ Goto(q, pc)
      /\ req[q].kind \in Completions /\ req[q].pc = "next" /\ req[q].kind # "none"
  BY DEF OpenNext, tasks, At, Completions
<1>1. pc = IF req[q].kind = "review" THEN "unbox"
           ELSE IF req[q].kind = "branch" THEN "archive" ELSE "place"
  BY <1>0 DEF AfterTransition
<1>2. pc \in Places
  BY <1>1 DEF Places
<1> HIDE DEF pc
<1>3. ASSUME PlaceInv(req[q]) PROVE PlaceInv(req[q])'
  <2>1. /\ Lone' /\ req[q].wf = run /\ req[q].wf.status # "none"
        /\ req[q].kind # "branch" => req[q].agent \in Agents /\ HasTask(req[q].agent)
        /\ req[q].kind = "branch" => req[q].joined /\ req[q].outcome # Failed
    BY <1>0, <1>3, SameGood, CopyRow
    DEF PlaceInv, CompletionAt, Between, HolderAt, BranchAt, Completions
  <2>2. req[q].kind # "branch" => HasTask(req[q].agent)'
    BY <1>0, <2>1, GotoFields, <1>2 DEF HasTask
  <2>3. req[q].kind = "branch" => BranchAt(req[q])'
    BY <1>0, <1>1, <1>2, <2>1, GotoFields DEF BranchAt
  <2> QED  BY <1>0, <1>1, <1>2, <2>1, <2>2, <2>3, GotoFields, BetweenStep
<1> QED  BY <1>0, <1>2, <1>3, GotoKeepsPlain

-----------------------------------------------------------------------------
(* Branches *)

\* What a branch's handler knows before the run has moved.
BranchWaits(q) ==
  /\ req[q].kind = "branch" /\ Good /\ req[q].wf.status = "none"

LEMMA WaitingStep ==
  ASSUME NEW q \in Requests, BranchWaits(q)',
         req'[q].pc \in {"read", "list", "save", "skip", "archive"},
         \/ req'[q].pc \in {"list", "save", "skip"}
         \/ req'[q].pc = "archive" /\ req'[q].outcome = Failed
         => run'.active = StageOf[req'[q].branch],
         req'[q].pc \in {"skip", "read"} => req'[q].outcome # Failed,
         req'[q].pc = "read" => req'[q].joined
  PROVE  PlaceInv(req[q])'
<1>1. BranchAt(req[q])'
  BY DEF BranchAt, BranchWaits
<1> QED  BY <1>1, UndecidedStep DEF BranchWaits, Between, Completions

LEMMA CheckStageKeepsPlain ==
  ASSUME HandoffInv, PlainInv, NEW q \in Requests, CheckStage(q)
  PROVE  PlainInv'
<1>0. /\ UNCHANGED <<run, task, inbox, arun, plain>>
      /\ req[q].kind = "branch" /\ req[q].pc = "check" /\ req[q].kind # "none"
  BY DEF CheckStage, rows, tasks, At
<1>1. ASSUME PlaceInv(req[q]) PROVE Good' /\ req[q].wf.status = "none"
  BY <1>0, <1>1, SameGood DEF PlaceInv, CompletionAt, Undecided, Completions
<1>2. CASE run.active # StageOf[req[q].branch]
  BY <1>0, <1>1, <1>2, ReturnKeepsPlain DEF CheckStage
<1>3. CASE run.active = StageOf[req[q].branch]
  <2>1. Goto(q, "list") /\ "list" \in Places
    BY <1>3 DEF CheckStage, Places
  <2>2. ASSUME PlaceInv(req[q]) PROVE PlaceInv(req[q])'
    <3>1. BranchWaits(q)'
      BY <1>0, <1>1, <2>1, <2>2, GotoFields DEF BranchWaits
    <3> QED  BY <1>0, <1>3, <2>1, <3>1, GotoFields, WaitingStep
  <2> QED  BY <1>0, <2>1, <2>2, GotoKeepsPlain
<1> QED  BY <1>2, <1>3

LEMMA ListBranchesKeepsPlain ==
  ASSUME HandoffInv, PlainInv, NEW q \in Requests, ListBranches(q)
  PROVE  PlainInv'
<1>0. /\ UNCHANGED <<run, task, inbox, arun, plain>>
      /\ req[q].kind = "branch" /\ req[q].pc = "list" /\ req[q].kind # "none"
      /\ req[q] \in ReqRow /\ req \in [Requests -> ReqRow]
  BY CopyRow DEF ListBranches, rows, tasks, At, HandoffInv, TypeOK
<1>1. ASSUME PlaceInv(req[q])
      PROVE  Good' /\ req[q].wf.status = "none" /\ run.active = StageOf[req[q].branch]
  BY <1>0, <1>1, SameGood DEF PlaceInv, CompletionAt, Undecided, BranchAt, Completions
<1> DEFINE listed == Listing(StageOf[req[q].branch])
<1>2. req' = [req EXCEPT ![q].list = listed, ![q].pc = "save"]
  BY DEF ListBranches
<1> HIDE DEF listed
<1>3. /\ req'[q].wf = req[q].wf /\ req'[q].pc = "save" /\ req'[q].kind = "branch"
      /\ req'[q].branch = req[q].branch /\ Stays(q)
  BY <1>0, <1>2 DEF ReqRow, Stays
<1>4. ASSUME PlaceInv(req[q]) PROVE PlaceInv(req[q])'
  <2>1. BranchWaits(q)'
    BY <1>1, <1>3, <1>4 DEF BranchWaits
  <2> QED  BY <1>0, <1>1, <1>3, <1>4, <2>1, WaitingStep
<1> QED  BY <1>0, <1>3, <1>4, HandlerKeepsPlain DEF InOrder

LEMMA SaveBranchKeepsPlain ==
  ASSUME HandoffInv, PlainInv, NEW q \in Requests, SaveBranch(q)
  PROVE  PlainInv'
<1> DEFINE b == req[q].branch
           o == req[q].outcome
           last == LastOfStage(q)
           any == StageOf[b] \in AnyJoin
           j == o # Failed /\ last /\ ~any
           pc == IF o = Failed \/ (~any /\ ~last) THEN "archive" ELSE IF any THEN "skip" ELSE "read"
<1>0. /\ UNCHANGED <<run, task, inbox, arun, plain>>
      /\ req[q].kind = "branch" /\ req[q].pc = "save" /\ req[q].kind # "none"
      /\ req[q] \in ReqRow /\ req \in [Requests -> ReqRow]
  BY CopyRow DEF SaveBranch, tasks, At, HandoffInv, TypeOK
<1>1. ASSUME PlaceInv(req[q])
      PROVE  Good' /\ req[q].wf.status = "none" /\ run.active = StageOf[b]
  BY <1>0, <1>1, SameGood DEF PlaceInv, CompletionAt, Undecided, BranchAt, Completions
<1>2. CASE req[q].list[b] = "none"
  BY <1>0, <1>1, <1>2, ReturnKeepsPlain DEF SaveBranch
<1>3. CASE req[q].list[b] # "none"
  <2>1. req' = [req EXCEPT ![q].joined = j, ![q].pc = pc]
    BY <1>3 DEF SaveBranch
  <2>2. /\ pc \in {"archive", "skip", "read"}
        /\ pc \in {"skip", "read"} => o # Failed
        /\ pc = "read" => j
    OBVIOUS
  <2> HIDE DEF j, pc
  <2>3. /\ req'[q].wf = req[q].wf /\ req'[q].pc = pc /\ req'[q].kind = "branch"
        /\ req'[q].branch = b /\ req'[q].outcome = o /\ req'[q].joined = j /\ Stays(q)
    BY <1>0, <2>1 DEF ReqRow, Stays
  <2>4. ASSUME PlaceInv(req[q]) PROVE PlaceInv(req[q])'
    <3>1. BranchWaits(q)'
      BY <1>1, <2>3, <2>4 DEF BranchWaits
    <3> QED  BY <1>0, <1>1, <2>2, <2>3, <2>4, <3>1, WaitingStep
  <2> QED  BY <1>0, <2>3, <2>4, HandlerKeepsPlain DEF InOrder
<1> QED  BY <1>2, <1>3

LEMMA SkipOthersKeepsPlain ==
  ASSUME HandoffInv, PlainInv, NEW q \in Requests, SkipOthers(q)
  PROVE  PlainInv'
<1>0. /\ UNCHANGED <<run, task, inbox, arun, plain>>
      /\ req[q].kind = "branch" /\ req[q].pc = "skip" /\ req[q].kind # "none"
      /\ req[q] \in ReqRow /\ req \in [Requests -> ReqRow]
      /\ req' = [req EXCEPT ![q].joined = TRUE, ![q].pc = "read"]
  BY CopyRow DEF SkipOthers, tasks, At, HandoffInv, TypeOK
<1>1. ASSUME PlaceInv(req[q])
      PROVE  Good' /\ req[q].wf.status = "none" /\ req[q].outcome # Failed
  BY <1>0, <1>1, SameGood DEF PlaceInv, CompletionAt, Undecided, BranchAt, Completions
<1>3. /\ req'[q].wf = req[q].wf /\ req'[q].pc = "read" /\ req'[q].kind = "branch"
      /\ req'[q].outcome = req[q].outcome /\ req'[q].joined /\ Stays(q)
  BY <1>0 DEF ReqRow, Stays
<1>4. ASSUME PlaceInv(req[q]) PROVE PlaceInv(req[q])'
  <2>1. BranchWaits(q)'
    BY <1>1, <1>3, <1>4 DEF BranchWaits
  <2> QED  BY <1>0, <1>1, <1>3, <1>4, <2>1, WaitingStep
<1> QED  BY <1>0, <1>3, <1>4, HandlerKeepsPlain DEF InOrder

LEMMA ArchiveKeepsPlain ==
  ASSUME HandoffInv, PlainInv, NEW q \in Requests, ArchiveBranchTask(q)
  PROVE  PlainInv'
<1>0. /\ UNCHANGED <<run, task, inbox, arun, plain>>
      /\ req[q].kind = "branch" /\ req[q].pc = "archive" /\ req[q].kind # "none"
  BY DEF ArchiveBranchTask, rows, At
<1>1. ASSUME PlaceInv(req[q])
      PROVE  /\ req[q].wf.status = "none" => Good'
             /\ req[q].wf.status # "none" =>
                  Lone' /\ req[q].wf = run /\ req[q].joined /\ req[q].outcome # Failed
             /\ req[q].outcome = Failed => run.active = StageOf[req[q].branch]
  BY <1>0, <1>1, SameGood DEF PlaceInv, CompletionAt, Undecided, Between, BranchAt, Completions
<1>2. CASE req[q].outcome = Failed \/ (req[q].joined /\ req[q].wf.status # "none")
  <2>1. Goto(q, "parent") /\ "parent" \in Places
    BY <1>2 DEF ArchiveBranchTask, Places
  <2>2. ASSUME PlaceInv(req[q]) PROVE PlaceInv(req[q])'
    <3>1. BranchAt(req[q])'
      BY <1>0, <1>1, <2>1, <2>2, GotoFields DEF BranchAt
    <3>2. CompletionAt(req[q])'
      BY <1>0, <1>1, <1>2, <2>1, <2>2, GotoFields DEF CompletionAt, Undecided, Placed, Between
    <3> QED  BY <1>0, <2>1, <3>1, <3>2, GotoFields DEF PlaceInv
  <2> QED  BY <1>0, <2>1, <2>2, GotoKeepsPlain
<1>3. CASE ~(req[q].outcome = Failed \/ (req[q].joined /\ req[q].wf.status # "none"))
  BY <1>0, <1>1, <1>3, ReturnKeepsPlain DEF ArchiveBranchTask
<1> QED  BY <1>2, <1>3

LEMMA NoRecordIsGood ==
  ASSUME \A a \in Agents : ~HasTask(a)
  PROVE  Good
  BY DEF Good, Lone, Follows, Open, RunBehind, Told, HasTask

LEMMA FindParentKeepsPlain ==
  ASSUME HandoffInv, PlainInv, NEW q \in Requests, FindParent(q)
  PROVE  PlainInv'
<1>0. /\ UNCHANGED <<run, task, inbox, arun, plain>>
      /\ req[q].kind = "branch" /\ req[q].pc = "parent" /\ req[q].kind # "none"
      /\ req[q] \in ReqRow /\ req \in [Requests -> ReqRow]
  BY CopyRow DEF FindParent, rows, tasks, At, HandoffInv, TypeOK
<1>1. ASSUME PlaceInv(req[q])
      PROVE  /\ req[q].outcome = Failed => Good' /\ run.active = StageOf[req[q].branch]
             /\ req[q].outcome # Failed =>
                  Lone' /\ req[q].wf = run /\ req[q].wf.status # "none" /\ req[q].joined
             /\ req[q].outcome = Failed => req[q].wf.status = "none"
  BY <1>0, <1>1, SameGood DEF PlaceInv, CompletionAt, Undecided, Between, BranchAt, Completions
<1>2. CASE ~ \E a \in Agents : HasTask(a)
  <2>1. Good'
    BY <1>0, <1>2, NoRecordIsGood, SameGood
  <2> QED  BY <1>0, <1>2, <2>1, ReturnKeepsPlain DEF FindParent
<1>3. CASE \E a \in Agents : HasTask(a)
  <2> DEFINE pc == CASE req[q].outcome = Failed -> "block" [] Ended(q) -> "close" [] OTHER -> "place"
  <2>1. PICK a \in Agents : /\ HasTask(a)
                            /\ req' = [req EXCEPT ![q] = [@ EXCEPT !.agent = a, !.copy = task[a], !.pc = pc]]
    BY <1>3 DEF FindParent
  <2>2. ASSUME PlaceInv(req[q])
        PROVE  /\ req[q].outcome = Failed => pc = "block"
               /\ req[q].outcome # Failed => pc = IF Ended(q) THEN "close" ELSE "place"
    <3>1. CASE req[q].outcome = Failed
      <4>1. ~Ended(q)
        BY <1>1, <2>2, <3>1 DEF Ended
      <4> QED  BY <3>1, <4>1
    <3>2. CASE req[q].outcome # Failed /\ Ended(q)
      BY <3>2
    <3>3. CASE req[q].outcome # Failed /\ ~Ended(q)
      BY <3>3
    <3> QED  BY <3>1, <3>2, <3>3
  <2> HIDE DEF pc
  <2> DEFINE r == [req[q] EXCEPT !.agent = a, !.copy = task[a], !.pc = pc]
  <2>3. /\ r.wf = req[q].wf /\ r.pc = pc /\ r.kind = "branch"
        /\ r.branch = req[q].branch /\ r.outcome = req[q].outcome
        /\ r.agent = a /\ r.joined = req[q].joined
    BY <1>0 DEF ReqRow
  <2>4. req' = [req EXCEPT ![q] = r]
    BY <2>1
  <2> HIDE DEF r
  <2>5. req'[q] = r /\ Stays(q)
    BY <1>0, <2>4 DEF Stays
  <2>6. ASSUME PlaceInv(req[q]) PROVE PlaceInv(req[q])'
    <3>1. HasTask(a)' /\ a \in Agents
      BY <1>0, <2>1, SameGood
    <3>2. CASE req[q].outcome = Failed
      <4>1. BranchAt(req[q])'
        BY <1>0, <1>1, <2>2, <2>3, <2>5, <2>6, <3>1, <3>2 DEF BranchAt
      <4> QED  BY <1>0, <1>1, <2>2, <2>3, <2>5, <2>6, <3>2, <4>1, UndecidedStep DEF Between, Completions
    <3>3. CASE req[q].outcome # Failed
      <4>1. BranchAt(req[q])'
        BY <1>1, <2>2, <2>3, <2>5, <2>6, <3>3 DEF BranchAt
      <4>2. pc \in {"close", "place"} /\ (pc = "close" => run.active = NoStep)
        BY <1>1, <2>2, <2>6, <3>3, CopyRow DEF Ended
      <4> QED  BY <1>0, <1>1, <2>3, <2>5, <2>6, <3>1, <3>3, <4>1, <4>2, BetweenStep DEF Completions
    <3> QED  BY <3>2, <3>3
  <2> QED  BY <1>0, <2>3, <2>5, <2>6, HandlerKeepsPlain DEF InOrder
<1> QED  BY <1>2, <1>3

\* A write to the task's one record.
LEMMA PutAlone ==
  ASSUME HandoffInv, Lone, NEW a \in Agents, HasTask(a), NEW st, NEW who, Put(a, st, who)
  PROVE  /\ task'[a] = [status |-> st, assignee |-> who]
         /\ \A b \in Agents \ {a} : task'[b] = task[b] /\ task'[b].status = "none"
         /\ \A b \in Agents : HasTask(b)' => b = a
         /\ Lone'
<1>1. /\ task'[a] = [status |-> st, assignee |-> who]
      /\ \A b \in Agents \ {a} : task'[b] = task[b]
  BY DEF Put, HandoffInv, TypeOK
<1>2. \A b \in Agents \ {a} : task[b].status = "none"
  BY DEF Lone, HasTask
<1> QED  BY <1>1, <1>2 DEF Lone, HasTask

\* The record a write leaves alone in being good.
LEMMA GoodAlone ==
  ASSUME NEW a \in Agents, \A b \in Agents \ {a} : ~HasTask(b)',
         Open(a)' => /\ run'.active \in Steps
                     /\ IF run'.active \in Parallel
                          THEN task'[a].status \in {"in_progress", "blocked"}
                          ELSE InPlace(a, run.active)',
         task'[a].status = "in_progress" /\ run'.active \in Steps \ Parallel => arun'[a] # "none"
  PROVE  Lone' /\ Follows' /\ RunBehind'
  BY DEF Lone, Follows, Open, RunBehind, HasTask

LEMMA BlockRootKeepsPlain ==
  ASSUME HandoffInv, PlainInv, NEW q \in Requests, BlockRoot(q)
  PROVE  PlainInv'
<1>0. /\ UNCHANGED <<run, inbox, arun, plain>> /\ Return(q)
      /\ req[q].kind = "branch" /\ req[q].pc = "block" /\ req[q].kind # "none"
  BY DEF BlockRoot, rows, At
<1>1. ASSUME PlaceInv(req[q]) PROVE Good'
  <2> DEFINE a == req[q].agent
  <2>1. Good /\ a \in Agents /\ HasTask(a) /\ run.active = StageOf[req[q].branch]
    BY <1>0, <1>1 DEF PlaceInv, CompletionAt, Undecided, BranchAt, Completions
  <2>2. run.active \in Parallel
    BY <1>0, <2>1, CopyRow
  <2>3. Put(a, "blocked", req[q].copy.assignee)
    BY <2>1 DEF BlockRoot
  <2>4. /\ task'[a].status = "blocked"
        /\ \A b \in Agents \ {a} : ~HasTask(b)'
    <3>1. \A b \in Agents \ {a} : task'[b].status = "none"
      BY <2>1, <2>3, PutAlone DEF Good
    <3>2. task'[a] = [status |-> "blocked", assignee |-> req[q].copy.assignee]
      BY <2>1, <2>3, PutAlone DEF Good
    <3> QED  BY <3>1, <3>2 DEF HasTask
  <2>5. Lone' /\ Follows' /\ RunBehind'
    BY <1>0, <2>1, <2>2, <2>4, GoodAlone
  <2>6. Told'
    BY <1>0, <2>2 DEF Told
  <2> QED  BY <2>5, <2>6 DEF Good
<1> QED  BY <1>0, <1>1, ReturnKeepsPlain

-----------------------------------------------------------------------------
(* The task follows *)

\* Nobody is due to be told of a step that is an agent's, a stage, or none.
LEMMA NobodyToTell ==
  ASSUME \/ run'.active \notin Steps \ Parallel
         \/ ActorOf[run'.active] \in Agents
  PROVE  Told'
  BY DEF Told

\* The task's one record is closed.
LEMMA ClosedAlone ==
  ASSUME NEW a \in Agents, \A b \in Agents \ {a} : ~HasTask(b)', Terminal(task'[a])
  PROVE  Lone' /\ Follows' /\ RunBehind'
<1>1. ~Open(a)' /\ task'[a].status # "in_progress"
  BY DEF Open, Terminal
<1> QED  BY <1>1, GoodAlone

\* What a write to the task's one record leaves.
LEMMA WriteAlone ==
  ASSUME HandoffInv, Lone, NEW a \in Agents, HasTask(a), NEW st, NEW who, Put(a, st, who)
  PROVE  /\ task'[a].status = st /\ task'[a].assignee = who
         /\ \A b \in Agents \ {a} : ~HasTask(b)'
<1>1. task'[a] = [status |-> st, assignee |-> who]
  BY PutAlone
<1>2. \A b \in Agents \ {a} : task'[b].status = "none"
  BY PutAlone
<1> QED  BY <1>1, <1>2 DEF HasTask

LEMMA UnboxKeepsPlain ==
  ASSUME HandoffInv, PlainInv, NEW q \in Requests, Unbox(q)
  PROVE  PlainInv'
<1>0. /\ UNCHANGED <<run, task, arun, plain>>
      /\ req[q].kind = "review" /\ req[q].pc = "unbox" /\ req[q].kind # "none"
  BY DEF Unbox, rows, At
<1>1. /\ Lone => Lone'
      /\ Follows => Follows'
      /\ RunBehind => RunBehind'
      /\ \A a \in Agents : HasTask(a) => HasTask(a)'
  BY <1>0 DEF Lone, Follows, RunBehind, HasTask, Open, Terminal, InPlace
<1>2. CASE req[q].wf.status = "none"
  <2>1. ASSUME PlaceInv(req[q]) PROVE Good'
    <3>1. Good /\ run.active = NoStep
      BY <1>0, <1>2, <2>1 DEF PlaceInv, CompletionAt, Undecided, Completions
    <3> QED  BY <1>0, <1>1, <3>1, NobodyToTell DEF Good
  <2> QED  BY <1>0, <1>2, <2>1, ReturnKeepsPlain DEF Unbox
<1>3. CASE req[q].wf.status # "none"
  <2> DEFINE pc == IF Ended(q) THEN "close" ELSE "place"
  <2>1. Goto(q, pc) /\ pc \in Places
    BY <1>3 DEF Unbox, Places
  <2>2. pc \in {"close", "place"} /\ (pc = "close" => Ended(q))
    OBVIOUS
  <2> HIDE DEF pc
  <2>3. ASSUME PlaceInv(req[q]) PROVE PlaceInv(req[q])'
    <3>1. /\ Lone /\ req[q].wf = run /\ req[q].agent \in Agents
          /\ HasTask(req[q].agent)
      BY <1>0, <1>3, <2>3, CopyRow
      DEF PlaceInv, CompletionAt, Between, HolderAt, Completions
    <3>2. pc = "close" => run.active = NoStep
      BY <2>2, <3>1, CopyRow DEF Ended
    <3>3. /\ req'[q].kind = "review" /\ req'[q].pc = pc
          /\ req'[q].wf = run /\ req'[q].agent = req[q].agent
      BY <1>0, <2>1, <3>1, GotoFields
    <3>4. HasTask(req[q].agent)'
      BY <1>1, <3>1, <3>3 DEF HasTask
    <3> QED  BY <1>0, <1>1, <1>3, <2>2, <3>1, <3>2, <3>3, <3>4, BetweenStep DEF Completions
  <2> QED  BY <1>0, <2>1, <2>3, GotoKeepsPlain
<1> QED  BY <1>2, <1>3

LEMMA CloseTaskKeepsPlain ==
  ASSUME HandoffInv, PlainInv, NEW q \in Requests, CloseTask(q)
  PROVE  PlainInv'
<1>0. /\ UNCHANGED <<run, inbox, arun, plain>> /\ Return(q)
      /\ req[q].kind \in Completions /\ req[q].pc = "close" /\ req[q].kind # "none"
  BY DEF CloseTask, rows, At, Completions
<1>1. ASSUME PlaceInv(req[q]) PROVE Good'
  <2> DEFINE a == req[q].agent
             status == IF req[q].wf.status = "failed" THEN "done_failed" ELSE "done_success"
  <2>1. Lone /\ run.active = NoStep /\ a \in Agents /\ HasTask(a)
    BY <1>0, <1>1 DEF PlaceInv, CompletionAt, Between
  <2>2. Put(a, status, req[q].copy.assignee)
    BY <2>1 DEF CloseTask
  <2>3. status \in {"done_success", "done_failed"}
    OBVIOUS
  <2> HIDE DEF a, status
  <2>4. task'[a].status = status /\ \A b \in Agents \ {a} : ~HasTask(b)'
    BY <2>1, <2>2, WriteAlone
  <2>5. Terminal(task'[a])
    BY <2>3, <2>4 DEF Terminal
  <2>6. Lone' /\ Follows' /\ RunBehind'
    BY <2>1, <2>4, <2>5, ClosedAlone
  <2>7. Told'
    BY <1>0, <2>1, NobodyToTell
  <2> QED  BY <2>6, <2>7 DEF Good
<1> QED  BY <1>0, <1>1, ReturnKeepsPlain

\* Where the task is to be moved.
LEMMA ToPlace ==
  ASSUME HandoffInv, NEW q \in Requests, At(q, Completions, "place"), PlaceInv(req[q])
  PROVE  /\ Lone /\ req[q].wf = run
         /\ run.active \in Steps
         /\ req[q].agent \in Agents /\ HasTask(req[q].agent)
<1>1. Lone /\ req[q].wf = run /\ req[q].agent \in Agents /\ HasTask(req[q].agent)
  BY DEF At, PlaceInv, CompletionAt, Between
<1>2. req[q].wf.active \in Steps
  BY CopyRow DEF At, ExpectsStep
<1> QED  BY <1>1, <1>2

\* A completion that is spawning branches.
LEMMA SpawningStep ==
  ASSUME NEW q \in Requests, req'[q].kind \in Completions, Good',
         req'[q].pc \in {"spawn", "row"}
  PROVE  PlaceInv(req[q])'
<1>1. HolderAt(req[q])' /\ BranchAt(req[q])'
  BY DEF HolderAt, BranchAt
<1> QED  BY <1>1, UndecidedStep DEF Between

LEMMA EnterStageKeepsPlain ==
  ASSUME HandoffInv, PlainInv, NEW q \in Requests, EnterStage(q)
  PROVE  PlainInv'
<1> DEFINE a == req[q].agent
<1>0. /\ UNCHANGED <<run, inbox, arun, plain>> /\ At(q, Completions, "place")
      /\ req[q].kind \in Completions /\ req[q].kind # "none"
      /\ req[q].wf.active \in Parallel
      /\ req[q] \in ReqRow /\ req \in [Requests -> ReqRow]
  BY CopyRow DEF EnterStage, rows, At, Completions, HandoffInv, TypeOK
<1>1. CASE ~HasTask(a)
  <2>1. ASSUME PlaceInv(req[q]) PROVE Good'
    BY <1>0, <1>1, <2>1, ToPlace
  <2> QED  BY <1>0, <1>1, <2>1, ReturnKeepsPlain DEF EnterStage
<1>2. CASE HasTask(a)
  <2> DEFINE listed == Listing(req[q].wf.active)
  <2>1. /\ Put(a, "in_progress", a)
        /\ req' = [req EXCEPT ![q].pc = "spawn", ![q].list = listed]
    BY <1>2 DEF EnterStage
  <2> HIDE DEF listed
  <2>2. req'[q].pc = "spawn" /\ req'[q].kind = req[q].kind /\ Stays(q)
    BY <1>0, <2>1 DEF ReqRow, Stays
  <2>3. ASSUME PlaceInv(req[q]) PROVE Good'
    <3>1. Lone /\ a \in Agents /\ HasTask(a) /\ run.active \in Parallel
      BY <1>0, <2>3, ToPlace
    <3>2. task'[a].status = "in_progress" /\ \A b \in Agents \ {a} : ~HasTask(b)'
      BY <2>1, <3>1, WriteAlone
    <3> HIDE DEF a
    <3>3. Lone' /\ Follows' /\ RunBehind'
      BY <1>0, <3>1, <3>2, GoodAlone
    <3>4. Told'
      BY <1>0, <3>1, NobodyToTell
    <3> QED  BY <3>3, <3>4 DEF Good
  <2>4. PlaceInv(req[q]) => PlaceInv(req[q])'
    BY <1>0, <2>2, <2>3, SpawningStep
  <2> QED  BY <1>0, <2>2, <2>4, HandlerKeepsPlain DEF InOrder
<1> QED  BY <1>1, <1>2

LEMMA SpawningKeepsPlain ==
  ASSUME HandoffInv, PlainInv, NEW q \in Requests,
         SpawnRow(q) \/ EndSpawning(q) \/ \E b \in Branches : SpawnTask(q, b)
  PROVE  PlainInv'
<1>0. /\ UNCHANGED <<run, task, inbox, arun, plain>>
      /\ req[q].kind \in Completions /\ req[q].kind # "none"
      /\ req[q].pc \in {"spawn", "row"}
      /\ req[q] \in ReqRow /\ req \in [Requests -> ReqRow]
  BY CopyRow DEF SpawnRow, EndSpawning, SpawnTask, rows, tasks, At, Completions, HandoffInv, TypeOK
<1>1. ASSUME PlaceInv(req[q]) PROVE Good'
  BY <1>0, <1>1, SameGood DEF PlaceInv, CompletionAt, Placed
<1>2. CASE EndSpawning(q)
  BY <1>0, <1>1, <1>2, ReturnKeepsPlain DEF EndSpawning
<1>3. CASE SpawnRow(q)
  <2> DEFINE b == req[q].branch
  <2>1. req' = [req EXCEPT ![q].list[b] = "running", ![q].pc = "spawn"]
    BY <1>3 DEF SpawnRow
  <2>2. req'[q].pc = "spawn" /\ req'[q].kind = req[q].kind /\ Stays(q)
    BY <1>0, <2>1 DEF ReqRow, Stays
  <2>3. PlaceInv(req[q]) => PlaceInv(req[q])'
    BY <1>0, <1>1, <2>2, SpawningStep
  <2> QED  BY <1>0, <2>2, <2>3, HandlerKeepsPlain DEF InOrder
<1>4. CASE \E b \in Branches : SpawnTask(q, b)
  <2>1. PICK b \in Branches : req' = [req EXCEPT ![q].branch = b, ![q].pc = "row"]
    BY <1>4 DEF SpawnTask
  <2>2. req'[q].pc = "row" /\ req'[q].kind = req[q].kind /\ Stays(q)
    BY <1>0, <2>1 DEF ReqRow, Stays
  <2>3. PlaceInv(req[q]) => PlaceInv(req[q])'
    BY <1>0, <1>1, <2>2, SpawningStep
  <2> QED  BY <1>0, <2>2, <2>3, HandlerKeepsPlain DEF InOrder
<1> QED  BY <1>2, <1>3, <1>4

-----------------------------------------------------------------------------
(* From actor to actor *)

\* The task's one record is what the active step asks for; a person's has
\* been told of if it was before.
LEMMA PlacedAlone ==
  ASSUME NEW a \in Agents, \A b \in Agents \ {a} : ~HasTask(b)',
         run'.active \in Steps \ Parallel, InPlace(a, run.active)',
         task'[a].status = "in_progress" => arun'[a] # "none"
  PROVE  Lone' /\ Follows' /\ RunBehind'
  BY GoodAlone

LEMMA HandToAgentKeepsPlain ==
  ASSUME HandoffInv, PlainInv, NEW q \in Requests, HandToAgent(q)
  PROVE  PlainInv'
<1>0. /\ UNCHANGED <<run, inbox, arun, plain>> /\ At(q, Completions, "place")
      /\ req[q].kind \in Completions /\ req[q].kind # "none"
      /\ req[q].wf.active \in Steps \ Parallel
      /\ ActorOf[req[q].wf.active] \in Agents
  BY DEF HandToAgent, rows, At, Completions
<1> PICK a \in Agents : a = ActorOf[req[q].wf.active]
  BY <1>0
<1>1. CASE a = req[q].agent /\ HasTask(a)
  <2>1. Put(a, "pending", a) /\ Goto(q, "queue") /\ "queue" \in Places
    BY <1>1 DEF HandToAgent, Persist, Places
  <2>2. ASSUME PlaceInv(req[q]) PROVE PlaceInv(req[q])'
    <3>1. Lone /\ req[q].wf = run
      BY <1>0, <2>2, ToPlace
    <3>2. task'[a].status = "pending" /\ task'[a].assignee = a /\ \A b \in Agents \ {a} : ~HasTask(b)'
      BY <1>1, <2>1, <3>1, WriteAlone
    <3>3. InPlace(a, run.active)'
      BY <1>0, <3>1, <3>2 DEF InPlace
    <3>4. Lone' /\ Follows' /\ RunBehind'
      BY <1>0, <3>1, <3>2, <3>3, PlacedAlone
    <3>5. Good'
      BY <1>0, <3>1, <3>4, NobodyToTell DEF Good
    <3>6. req'[q].pc = "queue" /\ req'[q].kind = req[q].kind /\ req'[q].wf = run
      BY <2>1, <3>1, GotoFields
    <3>7. CompletionAt(req[q])'
      BY <1>0, <3>1, <3>5, <3>6 DEF CompletionAt, Between
    <3>8. HolderAt(req[q])' /\ BranchAt(req[q])'
      BY <3>6 DEF HolderAt, BranchAt
    <3> QED  BY <1>0, <3>6, <3>7, <3>8 DEF PlaceInv, Completions
  <2> QED  BY <1>0, <2>1, <2>2, GotoKeepsPlain
<1>2. CASE a = req[q].agent /\ ~HasTask(a)
  <2>1. ASSUME PlaceInv(req[q]) PROVE Good'
    BY <1>0, <1>2, <2>1, ToPlace
  <2> QED  BY <1>0, <1>2, <2>1, ReturnKeepsPlain DEF HandToAgent, Persist
<1>3. CASE a # req[q].agent
  <2>1. Put(a, "pending", a) /\ Goto(q, "drop") /\ "drop" \in Places
    BY <1>3 DEF HandToAgent, Places
  <2>2. ASSUME PlaceInv(req[q]) PROVE PlaceInv(req[q])'
    <3>1. Lone /\ req[q].wf = run /\ req[q].agent \in Agents /\ HasTask(req[q].agent)
      BY <1>0, <2>2, ToPlace
    <3>2. /\ task'[a] = [status |-> "pending", assignee |-> a]
          /\ \A b \in Agents \ {a} : task'[b] = task[b]
      BY <2>1 DEF Put, HandoffInv, TypeOK
    <3>3. \A b \in Agents : HasTask(b)' => b \in {req[q].agent, a}
      BY <3>1, <3>2 DEF Lone, HasTask
    <3>4. /\ req'[q].pc = "drop" /\ req'[q].kind = req[q].kind /\ req'[q].wf = run
          /\ req'[q].agent = req[q].agent
      BY <2>1, <3>1, GotoFields
    <3>5. Handing(req[q].agent, run.active)'
      BY <1>0, <1>3, <3>1, <3>2, <3>3, <3>4 DEF Handing, InPlace, HasTask
    <3>6. CompletionAt(req[q])'
      BY <1>0, <3>1, <3>4, <3>5 DEF CompletionAt, Undecided, Placed, Between
    <3>7. HolderAt(req[q])' /\ BranchAt(req[q])'
      BY <3>4 DEF HolderAt, BranchAt
    <3> QED  BY <1>0, <3>4, <3>6, <3>7 DEF PlaceInv, Completions
  <2> QED  BY <1>0, <2>1, <2>2, GotoKeepsPlain
<1> QED  BY <1>1, <1>2, <1>3

\* The record has been handed over once the old one is deleted.
LEMMA HandedOver ==
  ASSUME HandoffInv, NEW a, NEW s, Handing(a, s), UNCHANGED <<run, inbox, arun>>,
         task' = [task EXCEPT ![a] = NoTask]
  PROVE  Good'
<1> PICK p \in Agents : p = ActorOf[s]
  BY DEF Handing
<1>1. \A b \in Agents : task'[b] = IF b = a THEN NoTask ELSE task[b]
  BY DEF HandoffInv, TypeOK
<1>2. /\ p # a /\ task'[p] = task[p]
      /\ \A b \in Agents \ {p} : task'[b].status = "none"
  <2>1. \A b \in Agents \ {p, a} : task[b].status = "none"
    BY DEF Handing, HasTask
  <2> QED  BY <1>1, <2>1 DEF Handing, NoTask
<1>3. \A b \in Agents \ {p} : ~HasTask(b)'
  BY <1>2 DEF HasTask
<1>4. InPlace(p, run.active)' /\ run'.active \in Steps \ Parallel
  BY <1>2 DEF Handing, InPlace
<1>5. task'[p].status = "in_progress" => arun'[p] # "none"
  BY <1>2 DEF Handing
<1>6. Told'
  BY NobodyToTell DEF Handing
<1> QED  BY <1>3, <1>4, <1>5, <1>6, PlacedAlone DEF Good

LEMMA DropOldKeepsPlain ==
  ASSUME HandoffInv, PlainInv, NEW q \in Requests, DropOld(q)
  PROVE  PlainInv'
<1>0. /\ UNCHANGED <<run, inbox, arun, plain>> /\ req[q].pc = "drop"
      /\ req[q].kind \in Completions \cup {"view"} /\ req[q].kind # "none"
      /\ task' = [task EXCEPT ![req[q].agent] = NoTask]
  BY DEF DropOld, rows, At, Completions
<1>1. CASE req[q].kind = "view"
  <2>1. ASSUME PlaceInv(req[q]) PROVE Good'
    <3>1. Handing(req[q].agent, req[q].step)
      BY <1>0, <1>1, <2>1 DEF PlaceInv, ViewAt
    <3> QED  BY <1>0, <3>1, HandedOver
  <2> QED  BY <1>0, <1>1, <2>1, ReturnKeepsPlain DEF DropOld
<1>2. CASE req[q].kind # "view"
  <2>1. Goto(q, "queue") /\ "queue" \in Places
    BY <1>2 DEF DropOld, Places
  <2>2. ASSUME PlaceInv(req[q]) PROVE PlaceInv(req[q])'
    <3>1. Handing(req[q].agent, run.active) /\ req[q].wf = run
      BY <1>0, <1>2, <2>2 DEF PlaceInv, CompletionAt
    <3>2. Good' /\ run.active \in Steps \ Parallel /\ ActorOf[run.active] \in Agents
      BY <1>0, <3>1, HandedOver DEF Handing
    <3>3. req'[q].pc = "queue" /\ req'[q].kind = req[q].kind /\ req'[q].wf = run
      BY <2>1, <3>1, GotoFields
    <3>4. CompletionAt(req[q])'
      BY <1>0, <3>2, <3>3 DEF CompletionAt, Between
    <3>5. HolderAt(req[q])' /\ BranchAt(req[q])'
      BY <3>3 DEF HolderAt, BranchAt
    <3> QED  BY <1>0, <1>2, <3>3, <3>4, <3>5 DEF PlaceInv, Completions
  <2> QED  BY <1>0, <2>1, <2>2, GotoKeepsPlain
<1> QED  BY <1>1, <1>2

LEMMA QueueRunKeepsPlain ==
  ASSUME HandoffInv, PlainInv, NEW q \in Requests, QueueRun(q)
  PROVE  PlainInv'
<1> DEFINE a == ActorOf[req[q].wf.active]
<1>0. /\ UNCHANGED <<run, inbox, arun, plain>> /\ req[q].pc = "queue"
      /\ req[q].kind \in Completions /\ req[q].kind # "none"
      /\ req[q] \in ReqRow /\ req \in [Requests -> ReqRow]
  BY CopyRow DEF QueueRun, rows, At, Completions, HandoffInv, TypeOK
<1>1. ASSUME PlaceInv(req[q])
      PROVE  /\ Good /\ req[q].wf = run
             /\ run.active \in Steps \ Parallel /\ ActorOf[run.active] \in Agents
  BY <1>0, <1>1 DEF PlaceInv, CompletionAt, Placed
<1>2. CASE Return(q) /\ UNCHANGED task
  <2>1. ASSUME PlaceInv(req[q]) PROVE Good'
    BY <1>0, <1>1, <1>2, <2>1, SameGood
  <2> QED  BY <1>0, <1>2, <2>1, ReturnKeepsPlain
<1>3. CASE ~(Return(q) /\ UNCHANGED task)
  <2> DEFINE r == [req[q] EXCEPT !.pc = "enqueue", !.agent = a,
                     !.copy = [status |-> "pending", assignee |-> a]]
  <2>1. HasTask(a) /\ Put(a, "in_progress", a) /\ req' = [req EXCEPT ![q] = r]
    BY <1>3 DEF QueueRun
  <2>2. /\ r.pc = "enqueue" /\ r.agent = a /\ r.copy.assignee = a /\ r.kind = req[q].kind
    BY <1>0 DEF ReqRow
  <2> HIDE DEF r
  <2>3. req'[q] = r /\ Stays(q)
    BY <1>0, <2>1 DEF Stays
  <2>4. ASSUME PlaceInv(req[q]) PROVE PlaceInv(req[q])'
    <3> PICK b \in Agents : b = a
      BY <1>1, <2>4
    <3>1. /\ task'[b].status = "in_progress" /\ task'[b].assignee = b
          /\ \A c \in Agents \ {b} : ~HasTask(c)'
      BY <1>1, <2>1, <2>4, WriteAlone DEF Good
    <3>2. Lone' /\ HasTask(b)'
      BY <3>1 DEF Lone, HasTask
    <3>3. InPlace(b, run.active)'
      BY <1>0, <1>1, <2>4, <3>1 DEF InPlace
    <3>4. Starting(req[q])'
      BY <1>0, <1>1, <2>2, <2>3, <2>4, <3>1, <3>2, <3>3 DEF Starting
    <3>5. CompletionAt(req[q])'
      BY <2>2, <2>3, <3>4 DEF CompletionAt, Undecided, Placed, Between
    <3>6. HolderAt(req[q])' /\ BranchAt(req[q])'
      BY <2>2, <2>3 DEF HolderAt, BranchAt
    <3> QED  BY <1>0, <2>2, <2>3, <3>5, <3>6 DEF PlaceInv, Completions
  <2> QED  BY <1>0, <2>2, <2>3, <2>4, HandlerKeepsPlain DEF InOrder
<1> QED  BY <1>2, <1>3

\* While a task's run is started.
LEMMA StartingAt ==
  ASSUME HandoffInv, NEW q \in Requests, req[q].kind \in Completions \cup {"start"},
         req[q].pc = "enqueue", PlaceInv(req[q])
  PROVE  Starting(req[q])
  BY DEF PlaceInv, CompletionAt, StartAt

LEMMA StartTaskKeepsPlain ==
  ASSUME HandoffInv, PlainInv, NEW q \in Requests, StartTask(q)
  PROVE  PlainInv'
<1> DEFINE a == req[q].agent
           who == req[q].copy.assignee
<1>0. /\ UNCHANGED <<run, inbox, arun, plain>> /\ req[q].kind = "start" /\ req[q].pc = "start"
      /\ Persist(q, a, "in_progress", who, "enqueue") /\ req[q].kind # "none"
      /\ a \in Agents
  BY ReqSound DEF StartTask, rows, At, Sound, GoodReq
<1>1. CASE ~HasTask(a)
  <2>1. ASSUME PlaceInv(req[q]) PROVE Good'
    BY <1>0, <1>1, <2>1, SameGood DEF PlaceInv, StartAt, Persist
  <2> QED  BY <1>0, <1>1, <2>1, ReturnKeepsPlain DEF Persist
<1>2. CASE HasTask(a)
  <2>1. Put(a, "in_progress", who) /\ Goto(q, "enqueue") /\ "enqueue" \in Places
    BY <1>0, <1>2 DEF Persist, Places
  <2>2. ASSUME PlaceInv(req[q]) PROVE PlaceInv(req[q])'
    <3>1. Good /\ Lone /\ task[a].status = "pending" /\ who = task[a].assignee
      BY <1>0, <2>2 DEF PlaceInv, StartAt, Good
    <3> PICK b \in Agents : b = a
      BY <1>0
    <3>2. Open(b)
      BY <3>1 DEF Open, HasTask, Terminal
    <3>3. run.active \in Steps \ Parallel /\ InPlace(b, run.active)
      BY <3>1, <3>2 DEF Good, Follows
    <3>4. ActorOf[run.active] \in Agents /\ ActorOf[run.active] = b /\ who = b
      BY <3>1, <3>3 DEF InPlace
    <3>5. /\ task'[b].status = "in_progress" /\ task'[b].assignee = who
          /\ \A c \in Agents \ {b} : ~HasTask(c)'
      BY <1>2, <2>1, <3>1, WriteAlone
    <3>6. Lone' /\ HasTask(b)'
      BY <3>5 DEF Lone, HasTask
    <3>7. InPlace(b, run.active)'
      BY <1>0, <3>4, <3>5 DEF InPlace
    <3>8. /\ req'[q].pc = "enqueue" /\ req'[q].kind = "start" /\ req'[q].agent = b
          /\ req'[q].copy.assignee = who
      BY <1>0, <2>1, GotoFields
    <3>9. Starting(req[q])'
      BY <1>0, <3>3, <3>4, <3>5, <3>6, <3>7, <3>8 DEF Starting
    <3> QED  BY <3>8, <3>9 DEF PlaceInv, StartAt, Completions
  <2> QED  BY <1>0, <2>1, <2>2, GotoKeepsPlain
<1> QED  BY <1>1, <1>2

LEMMA EnqueueRunKeepsPlain ==
  ASSUME HandoffInv, PlainInv, NEW q \in Requests, EnqueueRun(q)
  PROVE  PlainInv'
<1>0. /\ UNCHANGED <<run, task, inbox, plain>> /\ Return(q) /\ req[q].pc = "enqueue"
      /\ req[q].kind \in Completions \cup {"start"} /\ req[q].kind # "none"
  BY DEF EnqueueRun, rows, At, Completions
<1>1. ASSUME PlaceInv(req[q]) PROVE Good'
  <2>1. Starting(req[q])
    BY <1>0, <1>1, StartingAt
  <2> PICK a \in Agents : a = req[q].agent
    BY <2>1 DEF Starting
  <2>2. arun'[a] # "none"
    BY DEF EnqueueRun, HandoffInv, TypeOK
  <2>3. \A b \in Agents \ {a} : ~HasTask(b)'
    BY <1>0, <2>1 DEF Starting, Lone, HasTask
  <2>4. InPlace(a, run.active)' /\ run'.active \in Steps \ Parallel
    BY <1>0, <2>1 DEF Starting, InPlace
  <2>5. Told'
    BY <1>0, <2>1, NobodyToTell DEF Starting
  <2> QED  BY <2>2, <2>3, <2>4, <2>5, PlacedAlone DEF Good
<1> QED  BY <1>0, <1>1, ReturnKeepsPlain

LEMMA EnqueueUndoneKeepsPlain ==
  ASSUME HandoffInv, PlainInv, NEW q \in Requests, EnqueueUndone(q)
  PROVE  PlainInv'
<1>0. /\ UNCHANGED <<run, arun, inbox, plain>> /\ Return(q) /\ req[q].pc = "enqueue"
      /\ req[q].kind \in Completions \cup {"start"} /\ req[q].kind # "none"
  BY DEF EnqueueUndone, rows, At, Completions
<1>1. ASSUME PlaceInv(req[q]) PROVE Good'
  <2>1. Starting(req[q])
    BY <1>0, <1>1, StartingAt
  <2> PICK a \in Agents : a = req[q].agent
    BY <2>1 DEF Starting
  <2>2. /\ Lone /\ HasTask(a) /\ InPlace(a, run.active) /\ ActorOf[run.active] \in Agents
        /\ run.active \in Steps \ Parallel /\ req[q].copy.assignee = task[a].assignee
    BY <2>1 DEF Starting
  <2>3. Put(a, "pending", req[q].copy.assignee)
    BY <2>2 DEF EnqueueUndone
  <2>4. /\ task'[a].status = "pending" /\ task'[a].assignee = task[a].assignee
        /\ \A b \in Agents \ {a} : ~HasTask(b)'
    BY <2>2, <2>3, WriteAlone
  <2>5. InPlace(a, run.active)' /\ run'.active \in Steps \ Parallel
    BY <1>0, <2>2, <2>4 DEF InPlace
  <2>6. Told'
    BY <1>0, <2>2, NobodyToTell
  <2> QED  BY <2>4, <2>5, <2>6, PlacedAlone DEF Good
<1> QED  BY <1>0, <1>1, ReturnKeepsPlain

LEMMA StartKeepsPlain ==
  ASSUME HandoffInv, PlainInv, NEW q \in Requests, Start(q)
  PROVE  PlainInv'
<1>1. CASE StartStrands(q)
  BY <1>1 DEF StartStrands, PlainInv
<1> QED  BY <1>1, StartTaskKeepsPlain, EnqueueRunKeepsPlain, EnqueueUndoneKeepsPlain DEF Start

LEMMA HandToPersonKeepsPlain ==
  ASSUME HandoffInv, PlainInv, NEW q \in Requests, HandToPerson(q)
  PROVE  PlainInv'
<1> DEFINE a == req[q].agent
           who == ActorOf[req[q].wf.active]
<1>0. /\ UNCHANGED <<run, inbox, arun, plain>> /\ At(q, Completions, "place")
      /\ req[q].kind \in Completions /\ req[q].kind # "none"
      /\ req[q].wf.active \in Steps \ Parallel /\ who \in People
      /\ Persist(q, a, "awaiting_confirmation", who, "notify")
  BY DEF HandToPerson, rows, At, Completions
<1>1. CASE ~HasTask(a)
  <2>1. ASSUME PlaceInv(req[q]) PROVE Good'
    BY <1>0, <1>1, <2>1, ToPlace
  <2> QED  BY <1>0, <1>1, <2>1, ReturnKeepsPlain DEF Persist
<1>2. CASE HasTask(a)
  <2>1. Put(a, "awaiting_confirmation", who) /\ Goto(q, "notify") /\ "notify" \in Places
    BY <1>0, <1>2 DEF Persist, Places
  <2>2. ASSUME PlaceInv(req[q]) PROVE PlaceInv(req[q])'
    <3>1. Lone /\ req[q].wf = run /\ a \in Agents
      BY <1>0, <2>2, ToPlace
    <3> PICK b \in Agents : b = a
      BY <3>1
    <3>2. /\ task'[b].status = "awaiting_confirmation" /\ task'[b].assignee = who
          /\ \A c \in Agents \ {b} : ~HasTask(c)'
      BY <1>2, <2>1, <3>1, WriteAlone
    <3>3. InPlace(b, run.active)'
      BY <1>0, <3>1, <3>2 DEF InPlace
    <3>4. Lone' /\ Follows' /\ RunBehind'
      BY <1>0, <3>1, <3>2, <3>3, PlacedAlone
    <3>5. req'[q].pc = "notify" /\ req'[q].kind = req[q].kind /\ req'[q].wf = run
      BY <2>1, <3>1, GotoFields
    <3>t. \A c \in Agents : ~Terminal(task'[c])
      BY <3>2 DEF Terminal, HasTask
    <3>6. CompletionAt(req[q])'
      BY <1>0, <3>4, <3>5, <3>t DEF CompletionAt, Undecided, Placed, Between
    <3>7. HolderAt(req[q])' /\ BranchAt(req[q])'
      BY <3>5 DEF HolderAt, BranchAt
    <3> QED  BY <1>0, <3>5, <3>6, <3>7 DEF PlaceInv, Completions
  <2> QED  BY <1>0, <2>1, <2>2, GotoKeepsPlain
<1> QED  BY <1>1, <1>2

LEMMA NotifyKeepsPlain ==
  ASSUME HandoffInv, PlainInv, NEW q \in Requests, Notify(q)
  PROVE  PlainInv'
<1>0. /\ UNCHANGED <<run, task, arun, plain>> /\ Return(q)
      /\ inbox' = inbox \cup {ActorOf[req[q].wf.active]}
      /\ req[q].kind \in Completions /\ req[q].pc = "notify" /\ req[q].kind # "none"
  BY DEF Notify, rows, At, Completions
<1>1. ASSUME PlaceInv(req[q]) PROVE Good'
  <2>1. /\ Lone /\ Follows /\ RunBehind /\ req[q].wf = run
        /\ \A a \in Agents : ~Terminal(task[a])
    BY <1>0, <1>1 DEF PlaceInv, CompletionAt
  <2>2. Lone' /\ Follows' /\ RunBehind'
    BY <1>0, <2>1 DEF Lone, Follows, RunBehind, HasTask, Open, Terminal, InPlace
  <2>3. Told'
    BY <1>0, <2>1 DEF Told
  <2> QED  BY <2>2, <2>3 DEF Good
<1> QED  BY <1>0, <1>1, ReturnKeepsPlain

-----------------------------------------------------------------------------
(* Settling, cancelling, looking *)

LEMMA SettleKeepsPlain ==
  ASSUME HandoffInv, PlainInv, NEW q \in Requests, Settle(q)
  PROVE  PlainInv'
<1>1. CASE FailTask(q)
  <2>0. /\ UNCHANGED <<run, inbox, arun, plain>> /\ req[q].kind = "settle" /\ req[q].pc = "fail"
        /\ Put(req[q].agent, "done_failed", req[q].copy.assignee)
        /\ Goto(q, "report") /\ "report" \in Places /\ req[q].kind # "none"
    BY <1>1 DEF FailTask, rows, At, Places
  <2>1. ASSUME PlaceInv(req[q]) PROVE PlaceInv(req[q])'
    <3>1. Good /\ Lone /\ HasTask(req[q].agent) /\ req[q].agent \in Agents
      BY <2>0, <2>1, CopyRow DEF PlaceInv, SettleAt, Good
    <3> PICK a \in Agents : a = req[q].agent
      BY <3>1
    <3>2. task'[a].status = "done_failed" /\ \A b \in Agents \ {a} : ~HasTask(b)'
      BY <2>0, <3>1, WriteAlone
    <3>3. Lone' /\ Follows' /\ RunBehind'
      BY <3>2, ClosedAlone DEF Terminal
    <3>n. NotCompleted(task[a])
      BY <2>0, <2>1 DEF PlaceInv, SettleAt
    <3>o. Open(a)
      BY <3>n DEF NotCompleted, Open, HasTask, Terminal
    <3>p. run.active \in Steps \ Parallel => ActorOf[run.active] \in Agents
      BY <3>1, <3>n, <3>o, StepAssumption DEF Good, Follows, InPlace, NotCompleted
    <3>4. Told'
      BY <2>0, <3>p, NobodyToTell
    <3>5. req'[q].kind = "settle" /\ req'[q].pc = "report" /\ req'[q].agent = a
      BY <2>0, GotoFields
    <3>6. SettleAt(req[q])'
      BY <3>2, <3>3, <3>4, <3>5 DEF SettleAt, Good, NotCompleted
    <3> QED  BY <3>5, <3>6 DEF PlaceInv, Completions
  <2> QED  BY <2>0, <2>1, GotoKeepsPlain
<1>2. CASE EndRun(q)
  <2>0. /\ UNCHANGED <<run, task, inbox, plain>> /\ req[q].kind = "settle" /\ req[q].pc = "report"
        /\ Return(q) /\ req[q].kind # "none"
        /\ \A a \in Agents \ {req[q].agent} : arun'[a] = arun[a]
    BY <1>2 DEF EndRun, rows, tasks, At, HandoffInv, TypeOK
  <2>1. ASSUME PlaceInv(req[q]) PROVE Good'
    <3>1. Good /\ task[req[q].agent].status # "in_progress"
      BY <2>0, <2>1 DEF PlaceInv, SettleAt, NotCompleted
    <3> QED  BY <2>0, <3>1, GoodStays
  <2> QED  BY <2>0, <2>1, ReturnKeepsPlain
<1> QED  BY <1>1, <1>2 DEF Settle

\* Once the task is cancelled its handler only has the run left to close.
LEMMA CancellingStep ==
  ASSUME HandoffInv, NEW q \in Requests, req[q].kind = "cancel", req[q].pc # "persist",
         PlaceInv(req[q]), task' = task, req'[q].kind = "cancel", req'[q].pc # "persist",
         req'[q].agent = req[q].agent,
         req'[q].pc \in {"cancelStep", "cancelRuns"} => run'.active = NoStep
  PROVE  PlaceInv(req[q])'
<1>1. HasTask(req[q].agent) /\ Lone /\ task[req[q].agent].status = "cancelled"
  BY DEF PlaceInv, CancelAt
<1>2. HasTask(req[q].agent)' /\ Lone'
  BY <1>1 DEF HasTask, Lone
<1>3. CancelAt(req[q])'
  BY <1>1, <1>2 DEF CancelAt
<1> QED  BY <1>3 DEF PlaceInv, Completions

LEMMA CancelKeepsPlain ==
  ASSUME HandoffInv, PlainInv, NEW q \in Requests, Cancel(q)
  PROVE  PlainInv'
<1>p. {"clear", "cancelRead", "cancelRun", "cancelStep", "cancelRuns"} \subseteq Places
  BY DEF Places
<1>1. CASE CancelTask(q)
  <2>0. /\ UNCHANGED <<run, inbox, arun, plain>> /\ req[q].kind = "cancel" /\ req[q].pc = "persist"
        /\ Persist(q, req[q].agent, "cancelled", req[q].copy.assignee, "clear")
        /\ req[q].kind # "none"
    BY <1>1 DEF CancelTask, rows, At
  <2>1. CASE ~HasTask(req[q].agent)
    <3>1. ~PlaceInv(req[q])
      BY <2>0, <2>1 DEF PlaceInv, CancelAt
    <3> QED  BY <2>0, <2>1, <3>1, ReturnKeepsPlain DEF Persist
  <2>2. CASE HasTask(req[q].agent)
    <3>1. Put(req[q].agent, "cancelled", req[q].copy.assignee) /\ Goto(q, "clear")
      BY <2>0, <2>2 DEF Persist
    <3>2. ASSUME PlaceInv(req[q]) PROVE PlaceInv(req[q])'
      <4>1. Lone /\ req[q].agent \in Agents
        BY <2>0, <3>2, CopyRow DEF PlaceInv, CancelAt
      <4> PICK a \in Agents : a = req[q].agent
        BY <4>1
      <4>2. task'[a].status = "cancelled" /\ \A b \in Agents \ {a} : ~HasTask(b)'
        BY <2>2, <3>1, <4>1, WriteAlone
      <4>3. req'[q].kind = "cancel" /\ req'[q].pc = "clear" /\ req'[q].agent = a
        BY <1>p, <2>0, <3>1, GotoFields
      <4>4. CancelAt(req[q])'
        BY <4>2, <4>3 DEF CancelAt, HasTask, Lone
      <4> QED  BY <4>3, <4>4 DEF PlaceInv, Completions
    <3> QED  BY <1>p, <2>0, <3>1, <3>2, GotoKeepsPlain
  <2> QED  BY <2>1, <2>2
<1>2. CASE ClearInbox(q)
  <2>1. /\ UNCHANGED <<run, task, plain>> /\ req[q].kind = "cancel" /\ req[q].pc = "clear"
        /\ Goto(q, "cancelRead") /\ req[q].kind # "none"
    BY <1>2 DEF ClearInbox, rows, At
  <2>2. PlaceInv(req[q]) => PlaceInv(req[q])'
    BY <1>p, <2>1, GotoFields, CancellingStep
  <2> QED  BY <1>p, <2>1, <2>2, GotoKeepsPlain
<1>3. CASE ReadRunToCancel(q)
  <2>0. /\ UNCHANGED <<run, task, plain>> /\ req[q].kind = "cancel" /\ req[q].pc = "cancelRead"
        /\ req[q].kind # "none"
        /\ req[q] \in ReqRow /\ req \in [Requests -> ReqRow]
    BY <1>3, CopyRow DEF ReadRunToCancel, rows, tasks, At, HandoffInv, TypeOK
  <2>1. CASE run.status \in {"completed", "cancelled"}
    <3>1. Goto(q, "cancelRuns") /\ run.active = NoStep
      BY <1>3, <2>1, CopyRow DEF ReadRunToCancel
    <3>2. PlaceInv(req[q]) => PlaceInv(req[q])'
      BY <1>p, <2>0, <3>1, GotoFields, CancellingStep
    <3> QED  BY <1>p, <2>0, <3>1, <3>2, GotoKeepsPlain
  <2>2. CASE run.status \notin {"completed", "cancelled"}
    <3>1. req' = [req EXCEPT ![q].wf = run, ![q].pc = "cancelRun"]
      BY <1>3, <2>2 DEF ReadRunToCancel
    <3>2. /\ req'[q].pc = "cancelRun" /\ req'[q].kind = "cancel"
          /\ req'[q].agent = req[q].agent /\ Stays(q)
      BY <2>0, <3>1 DEF ReqRow, Stays
    <3>3. PlaceInv(req[q]) => PlaceInv(req[q])'
      BY <2>0, <3>2, CancellingStep
    <3> QED  BY <2>0, <3>2, <3>3, HandlerKeepsPlain DEF InOrder
  <2> QED  BY <2>1, <2>2
<1>4. CASE CancelWorkflow(q)
  <2>1. /\ UNCHANGED <<task, plain>> /\ req[q].kind = "cancel" /\ req[q].pc = "cancelRun"
        /\ run'.active = NoStep /\ Goto(q, "cancelStep") /\ req[q].kind # "none"
    BY <1>4 DEF CancelWorkflow, tasks, At
  <2>2. PlaceInv(req[q]) => PlaceInv(req[q])'
    BY <1>p, <2>1, GotoFields, CancellingStep
  <2> QED  BY <1>p, <2>1, <2>2, GotoKeepsPlain
<1>5. CASE CancelStep(q)
  <2>1. /\ UNCHANGED <<run, task, plain>> /\ req[q].kind = "cancel" /\ req[q].pc = "cancelStep"
        /\ Goto(q, "cancelRuns") /\ req[q].kind # "none"
    BY <1>5 DEF CancelStep, tasks, At
  <2>2. ASSUME PlaceInv(req[q]) PROVE PlaceInv(req[q])'
    <3>1. run.active = NoStep
      BY <2>1, <2>2 DEF PlaceInv, CancelAt
    <3> QED  BY <1>p, <2>1, <2>2, <3>1, GotoFields, CancellingStep
  <2> QED  BY <1>p, <2>1, <2>2, GotoKeepsPlain
<1>6. CASE CancelRuns(q)
  <2>1. /\ UNCHANGED <<run, task, inbox, plain>> /\ req[q].kind = "cancel" /\ req[q].pc = "cancelRuns"
        /\ Return(q) /\ req[q].kind # "none"
    BY <1>6 DEF CancelRuns, rows, tasks, At
  <2>2. ASSUME PlaceInv(req[q]) PROVE Good'
    <3>1. /\ HasTask(req[q].agent) /\ Lone /\ run.active = NoStep
          /\ task[req[q].agent].status = "cancelled" /\ req[q].agent \in Agents
      BY <2>1, <2>2, CopyRow DEF PlaceInv, CancelAt
    <3> PICK a \in Agents : a = req[q].agent
      BY <3>1
    <3>2. \A b \in Agents \ {a} : ~HasTask(b)'
      BY <2>1, <3>1 DEF Lone, HasTask
    <3>3. Lone' /\ Follows' /\ RunBehind'
      BY <2>1, <3>1, <3>2, ClosedAlone DEF Terminal
    <3> QED  BY <2>1, <3>1, <3>3, NobodyToTell DEF Good
  <2> QED  BY <2>1, <2>2, ReturnKeepsPlain
<1> QED  BY <1>1, <1>2, <1>3, <1>4, <1>5, <1>6 DEF Cancel

LEMMA LookingKeepsPlain ==
  ASSUME HandoffInv, PlainInv, NEW q \in Requests, RereadRun(q) \/ ResaveRun(q)
  PROVE  PlainInv'
<1>0. /\ UNCHANGED <<task, inbox, arun, plain>> /\ req[q].kind = "view" /\ req[q].kind # "none"
      /\ req[q] \in ReqRow /\ req \in [Requests -> ReqRow]
  BY CopyRow DEF RereadRun, ResaveRun, tasks, At, HandoffInv, TypeOK
<1>1. CASE RereadRun(q)
  <2>1. run' = run /\ req' = [req EXCEPT ![q].wf = run, ![q].pc = "resave"] /\ req[q].pc = "reread"
    BY <1>1 DEF RereadRun, rows, At
  <2>2. /\ req'[q].pc = "resave" /\ req'[q].kind = "view" /\ req'[q].wf = run
        /\ req'[q].step = req[q].step /\ Stays(q)
    BY <1>0, <2>1 DEF ReqRow, Stays
  <2>3. ASSUME PlaceInv(req[q]) PROVE PlaceInv(req[q])'
    <3>1. ViewAt(req[q])'
      BY <1>0, <2>1, <2>2, <2>3, SameGood DEF PlaceInv, ViewAt
    <3> QED  BY <2>2, <3>1 DEF PlaceInv, Completions
  <2> QED  BY <1>0, <2>2, <2>3, HandlerKeepsPlain DEF InOrder
<1>2. CASE ResaveRun(q)
  <2>1. run' = req[q].wf /\ Goto(q, "find") /\ req[q].pc = "resave" /\ "find" \in Places
    BY <1>2 DEF ResaveRun, At, Places
  <2>2. ASSUME PlaceInv(req[q]) PROVE PlaceInv(req[q])'
    <3>1. /\ Good /\ req[q].wf = run
          /\ run.active = req[q].step /\ req[q].step \notin Parallel
      BY <1>0, <2>1, <2>2 DEF PlaceInv, ViewAt
    <3>2. Good'
      BY <1>0, <2>1, <3>1, SameGood
    <3>3. req'[q].pc = "find" /\ req'[q].kind = "view" /\ req'[q].step = req[q].step
      BY <1>0, <2>1, GotoFields
    <3>4. ViewAt(req[q])'
      BY <2>1, <3>1, <3>2, <3>3 DEF ViewAt
    <3> QED  BY <3>3, <3>4 DEF PlaceInv, Completions
  <2> QED  BY <1>0, <2>1, <2>2, GotoKeepsPlain
<1> QED  BY <1>1, <1>2

LEMMA FindTaskKeepsPlain ==
  ASSUME HandoffInv, PlainInv, NEW q \in Requests, FindTask(q)
  PROVE  PlainInv'
<1>0. /\ UNCHANGED <<run, task, inbox, arun, plain>> /\ req[q].kind = "view" /\ req[q].kind # "none"
      /\ req[q].pc = "find"
      /\ req[q] \in ReqRow /\ req \in [Requests -> ReqRow]
  BY CopyRow DEF FindTask, rows, tasks, At, HandoffInv, TypeOK
<1>1. ASSUME PlaceInv(req[q])
      PROVE  Good /\ Good' /\ run.active = req[q].step /\ req[q].step \notin Parallel
  BY <1>0, <1>1, SameGood DEF PlaceInv, ViewAt
<1>2. CASE Return(q)
  BY <1>0, <1>1, <1>2, ReturnKeepsPlain
<1>3. CASE ~Return(q)
  <2> DEFINE p == ActorOf[req[q].step]
             status == IF p \in People THEN "awaiting_confirmation"
                       ELSE IF arun[p] = "none" THEN "pending"
                       ELSE "in_progress"
             c == [status |-> status, assignee |-> p]
  <2>1. PICK a \in Agents : /\ HasTask(a)
                            /\ req' = [req EXCEPT ![q] = [@ EXCEPT !.agent = a, !.pc = "move", !.copy = c]]
    BY <1>3 DEF FindTask
  <2>2. /\ c.assignee = p
        /\ p \in People => c.status = "awaiting_confirmation"
        /\ p \notin People => \/ c.status = "pending"
                              \/ c.status = "in_progress" /\ arun[p] # "none"
    OBVIOUS
  <2>3. p \in Agents => p \notin People
    OBVIOUS
  <2> HIDE DEF c, p
  <2>4. /\ req'[q].pc = "move" /\ req'[q].kind = "view" /\ req'[q].agent = a
        /\ req'[q].step = req[q].step /\ req'[q].copy = c /\ Stays(q)
    BY <1>0, <2>1 DEF ReqRow, Stays
  <2>5. ASSUME PlaceInv(req[q]) PROVE PlaceInv(req[q])'
    <3>1. HasTask(a)'
      BY <1>0, <2>1 DEF HasTask
    <3>2. ViewAt(req[q])'
      BY <1>0, <1>1, <2>1, <2>2, <2>3, <2>4, <2>5, <3>1 DEF ViewAt, p
    <3> QED  BY <2>4, <3>2 DEF PlaceInv, Completions
  <2> QED  BY <1>0, <2>4, <2>5, HandlerKeepsPlain DEF InOrder
<1> QED  BY <1>2, <1>3

LEMMA MoveTaskKeepsPlain ==
  ASSUME HandoffInv, PlainInv, NEW q \in Requests, MoveTask(q)
  PROVE  PlainInv'
<1> DEFINE p == ActorOf[req[q].step]
           c == req[q].copy
<1>0. /\ UNCHANGED <<run, inbox, arun, plain>> /\ req[q].kind = "view" /\ req[q].kind # "none"
      /\ req[q].pc = "move"
  BY DEF MoveTask, rows, At
<1>1. ASSUME PlaceInv(req[q])
      PROVE  /\ Good /\ run.active = req[q].step /\ run.active \in Steps \ Parallel
             /\ req[q].agent \in Agents /\ HasTask(req[q].agent)
             /\ c.assignee = p
             /\ p \in People => c.status = "awaiting_confirmation"
             /\ p \in Agents => \/ c.status = "pending"
                                \/ c.status = "in_progress" /\ arun[p] # "none"
  BY <1>0, <1>1, CopyRow DEF PlaceInv, ViewAt
<1>2. CASE p \in Agents /\ p # req[q].agent
  <2>1. Put(p, c.status, c.assignee) /\ Goto(q, "drop") /\ "drop" \in Places
    BY <1>2 DEF MoveTask, Places
  <2>2. ASSUME PlaceInv(req[q]) PROVE PlaceInv(req[q])'
    <3> PICK a \in Agents, w \in Agents : a = req[q].agent /\ w = p
      BY <1>1, <1>2, <2>2
    <3>1. /\ task'[w] = [status |-> c.status, assignee |-> w]
          /\ \A b \in Agents \ {w} : task'[b] = task[b]
      BY <1>1, <2>1, <2>2 DEF Put, HandoffInv, TypeOK
    <3>2. \A b \in Agents : HasTask(b)' => b \in {a, w}
      <4>1. \A b \in Agents \ {a} : task[b].status = "none"
        BY <1>1, <2>2 DEF Good, Lone, HasTask
      <4> QED  BY <3>1, <4>1 DEF HasTask
    <3>3. task'[w].status \in {"pending", "in_progress"} /\ (task'[w].status = "in_progress" => arun[w] # "none")
      BY <1>1, <1>2, <2>2, <3>1
    <3>4. /\ req'[q].pc = "drop" /\ req'[q].kind = "view" /\ req'[q].step = req[q].step
          /\ req'[q].agent = a
      BY <1>0, <2>1, GotoFields
    <3>5. Handing(a, req[q].step)'
      BY <1>0, <1>1, <1>2, <2>2, <3>1, <3>2, <3>3, <3>4 DEF Handing, InPlace, HasTask
    <3>6. ViewAt(req[q])'
      BY <1>0, <1>1, <2>2, <3>4, <3>5 DEF ViewAt
    <3> QED  BY <3>4, <3>6 DEF PlaceInv, Completions
  <2> QED  BY <1>0, <2>1, <2>2, GotoKeepsPlain
<1>3. CASE ~(p \in Agents /\ p # req[q].agent)
  <2>1. ASSUME PlaceInv(req[q]) PROVE Good'
    <3> PICK a \in Agents : a = req[q].agent
      BY <1>1, <2>1
    <3>1. Put(a, c.status, p)
      BY <1>1, <1>3, <2>1 DEF MoveTask
    <3>2. /\ task'[a].status = c.status /\ task'[a].assignee = p
          /\ \A b \in Agents \ {a} : ~HasTask(b)'
      BY <1>1, <2>1, <3>1, WriteAlone DEF Good
    <3>3. p \in Agents \/ p \in People
      BY <1>1, <2>1
    <3>4. InPlace(a, run.active)'
      BY <1>0, <1>1, <1>3, <2>1, <3>2, <3>3 DEF InPlace
    <3>5. task'[a].status = "in_progress" => arun'[a] # "none"
      BY <1>0, <1>1, <1>3, <2>1, <3>2, <3>3
    <3>6. Lone' /\ Follows' /\ RunBehind'
      BY <1>0, <1>1, <2>1, <3>2, <3>4, <3>5, PlacedAlone
    <3>7. Told'
      <4>1. CASE p \in Agents
        BY <1>0, <1>1, <2>1, <4>1, NobodyToTell
      <4>2. CASE p \notin Agents
        <5>1. ~Terminal(task'[a])
          BY <1>1, <2>1, <3>2, <3>3, <4>2 DEF Terminal
        <5>2. HasTask(a) /\ ActorOf[run.active] \in inbox
          BY <1>1, <2>1, <3>3, <4>2 DEF Good, Told
        <5> QED  BY <1>0, <3>2, <5>1, <5>2 DEF Told
      <4> QED  BY <4>1, <4>2
    <3> QED  BY <3>6, <3>7 DEF Good
  <2> QED  BY <1>0, <1>3, <2>1, ReturnKeepsPlain DEF MoveTask
<1> QED  BY <1>2, <1>3

-----------------------------------------------------------------------------
(* Every step *)

LEMMA NextKeepsPlain ==
  ASSUME HandoffInv, PlainInv, [Next]_vars
  PROVE  PlainInv'
<1>1. CASE UNCHANGED vars
  <2>1. UNCHANGED <<run, task, inbox, arun, req, plain>>
    BY <1>1 DEF vars, rows, tasks
  <2>2. \A a \in Agents : arun[a] # "none" => arun'[a] # "none"
    BY <2>1
  <2> QED  BY <2>1, <2>2, ElsewhereKeepsPlain
<1>2. CASE RunStep
  BY <1>2, RunStepKeepsPlain
<1>3. ASSUME NEW b \in Branches, EndBranchRun(b) PROVE PlainInv'
  <2>1. UNCHANGED <<run, task, inbox, arun, req, plain>>
    BY <1>3 DEF EndBranchRun, rows
  <2>2. \A a \in Agents : arun[a] # "none" => arun'[a] # "none"
    BY <2>1
  <2> QED  BY <2>1, <2>2, ElsewhereKeepsPlain
<1>4. CASE Restart
  BY <1>4 DEF Restart, PlainInv
<1>5. ASSUME NEW q \in Requests PROVE Call(q) => PlainInv'
  BY CallKeepsPlain
<1>6. ASSUME NEW q \in Requests PROVE Transition(q) => PlainInv'
  BY ReadRunKeepsPlain, SaveInstanceKeepsPlain, SaveRunKeepsPlain, OpenNextKeepsPlain
  DEF Transition
<1>7. ASSUME NEW q \in Requests PROVE Join(q) => PlainInv'
  BY CheckStageKeepsPlain, ListBranchesKeepsPlain, SaveBranchKeepsPlain,
     SkipOthersKeepsPlain, ArchiveKeepsPlain, FindParentKeepsPlain, BlockRootKeepsPlain
  DEF Join
<1>8. ASSUME NEW q \in Requests PROVE Follow(q) => PlainInv'
  BY UnboxKeepsPlain, CloseTaskKeepsPlain, EnterStageKeepsPlain, SpawningKeepsPlain,
     HandToAgentKeepsPlain, DropOldKeepsPlain, QueueRunKeepsPlain,
     HandToPersonKeepsPlain, NotifyKeepsPlain
  DEF Follow
<1>9. ASSUME NEW q \in Requests PROVE Settle(q) \/ Cancel(q) => PlainInv'
  BY SettleKeepsPlain, CancelKeepsPlain
<1>10. ASSUME NEW q \in Requests PROVE View(q) => PlainInv'
  BY LookingKeepsPlain, FindTaskKeepsPlain, MoveTaskKeepsPlain DEF View
<1>11. ASSUME NEW q \in Requests PROVE Start(q) => PlainInv'
  BY StartKeepsPlain
<1> QED  BY <1>1, <1>2, <1>3, <1>4, <1>5, <1>6, <1>7, <1>8, <1>9, <1>10, <1>11 DEF Next

\* The first step is a single actor's.
LEMMA PlainAtFirst ==
  ASSUME Init, StartStep \notin Parallel
  PROVE  PlainInv
<1>1. \A q \in Requests : req[q].kind = "none"
  BY DEF Init, Idle
<1>2. \A a \in Agents : HasTask(a) => /\ a = ActorOf[StartStep]
                                      /\ task[a].status = "pending" /\ task[a].assignee = a
  BY DEF Init, HasTask, NoTask
<1>3. run.active = StartStep /\ run.active \in Steps \ Parallel
  BY DEF Init
<1>4. Lone
  BY <1>2 DEF Lone
<1>5. Follows
  BY <1>2, <1>3 DEF Follows, Open, InPlace
<1>6. RunBehind
  BY <1>2 DEF RunBehind, HasTask
<1>7. Told
  BY <1>2, <1>3 DEF Told, Terminal
<1> QED  BY <1>1, <1>4, <1>5, <1>6, <1>7, IdleInPlace DEF PlainInv, Good

LEMMA PlainInvHolds == ASSUME StartStep \notin Parallel PROVE Spec => []PlainInv
<1>1. Init => PlainInv
  BY PlainAtFirst
<1>2. HandoffInv /\ PlainInv /\ [Next]_vars => PlainInv'
  BY NextKeepsPlain
<1> QED  BY <1>1, <1>2, HandoffInvHolds, PTL DEF Spec

\* Where the first step is not a stage: as long as no two handlers overlapped
\* and none was cut short, an open task is in one queue, with the active step's
\* actor, who has been told if it is a person (activateNextWorkflowStep).
THEOREM TaskFollows == ASSUME StartStep \notin Parallel PROVE Spec => []TaskFollowsWorkflow
<1>1. HandoffInv /\ PlainInv => TaskFollowsWorkflow
  <2> SUFFICES ASSUME HandoffInv, PlainInv, Quiet, plain, NEW a \in Agents, Open(a)
               PROVE  /\ run.status = "active"
                      /\ \A b \in Agents \ {a} : ~HasTask(b)
                      /\ IF run.active \in Parallel
                           THEN task[a].status \in {"in_progress", "blocked"}
                           ELSE /\ InPlace(a, run.active)
                                /\ task[a].status = "awaiting_confirmation" =>
                                     ActorOf[run.active] \in inbox
    BY DEF TaskFollowsWorkflow
  <2>1. Good
    BY DEF PlainInv
  <2>2. HasTask(a)
    BY DEF Open
  <2>3. \A b \in Agents \ {a} : ~HasTask(b)
    BY <2>1, <2>2 DEF Good, Lone
  <2>4. run.active \in Steps
    BY <2>1 DEF Good, Follows
  <2>5. run.status = "active"
    BY <2>4 DEF HandoffInv, RowOK
  <2>6. CASE run.active \in Parallel
    BY <2>1, <2>3, <2>5, <2>6 DEF Good, Follows
  <2>7. CASE run.active \notin Parallel
    <3>1. InPlace(a, run.active)
      BY <2>1, <2>7 DEF Good, Follows
    <3>2. task[a].status = "awaiting_confirmation" => ActorOf[run.active] \in People
      BY <2>4, <3>1 DEF InPlace
    <3> QED  BY <2>1, <2>2, <2>3, <2>4, <2>5, <2>7, <3>1, <3>2 DEF Good, Told
  <2> QED  BY <2>6, <2>7
<1> QED  BY <1>1, PlainInvHolds, HandoffInvHolds, PTL

\* Under the same conditions, and as long as no tick of the scheduler failed to
\* enqueue the run of a task it had written in progress, nobody's step is in
\* progress without a run of that agent behind it, although the task is written
\* before the run is enqueued and the enqueue may fail
\* (fireTaskTriggerOrQueueRuntime).
THEOREM ProgressHasRun == ASSUME StartStep \notin Parallel PROVE Spec => []InProgressHasRun
<1>1. PlainInv => InProgressHasRun
  BY DEF PlainInv, InProgressHasRun, Good, RunBehind
<1> QED  BY <1>1, PlainInvHolds, PTL

-----------------------------------------------------------------------------
(***************************************************************************)
(* The engine implements WorkflowCourse.  Out of order it is enough that   *)
(* every copy of the row is backed by the events (HandoffInv); in order    *)
(* the copy of the one handler under way is the row.                       *)
(***************************************************************************)
CopyPlaces == {"instance", "run", "resave", "cancelRun"}

Fresh(r, w) ==
  /\ r.kind # "none" /\ r.pc \in CopyPlaces => r.wf = w
  /\ r.pc = "cancelRun" => w.status \notin {"completed", "cancelled"}

CopyFresh ==
  plain =>
    /\ \A p, q \in Requests : req[p].kind # "none" /\ req[q].kind # "none" => p = q
    /\ \A q \in Requests : req[q].kind # "none" => Fresh(req[q], run)

\* The task has a run, and who writes one back has read one.
Begun ==
  /\ run.status # "none"
  /\ \A q \in Requests : req[q].pc = "resave" => req[q].wf.status # "none"

\* What a step has to leave right: the other handlers are idle in order.
LEMMA FreshStep ==
  ASSUME HandoffInv, HandoffInv', CopyFresh, NEW q \in Requests,
         \A p \in Requests \ {q} : req'[p] = req[p],
         plain' => plain /\ (req[q].kind # "none" \/ Quiet),
         plain' => Fresh(req'[q], run')
  PROVE  CopyFresh'
<1> SUFFICES ASSUME plain'
             PROVE  /\ \A p, s \in Requests : req'[p].kind # "none" /\ req'[s].kind # "none" => p = s
                    /\ \A p \in Requests : req'[p].kind # "none" => Fresh(req'[p], run')
  BY DEF CopyFresh
<1>1. \A p \in Requests \ {q} : req'[p].kind = "none"
  BY DEF CopyFresh, Quiet
<1> QED  BY <1>1

LEMMA FreshStays ==
  ASSUME CopyFresh, UNCHANGED <<run, req>>, plain' => plain
  PROVE  CopyFresh'
BY DEF CopyFresh

\* A call starts at a place where nothing has been copied yet.
LEMMA BeginFresh ==
  ASSUME HandoffInv, HandoffInv', CopyFresh, Begun, NEW q \in Requests, run' = run,
         NEW e, NEW r, Begin(q, e, r), r.pc \notin CopyPlaces
  PROVE  CopyFresh' /\ Begun'
<1>1. req' = [req EXCEPT ![q] = r] /\ plain' = (plain /\ Quiet) /\ req \in [Requests -> ReqRow]
  BY DEF Begin, HandoffInv, TypeOK
<1>2. req'[q] = r /\ \A p \in Requests \ {q} : req'[p] = req[p]
  BY <1>1
<1>3. Fresh(req'[q], run')
  BY <1>2 DEF Fresh, CopyPlaces
<1>4. Begun'
  BY <1>2 DEF Begun, CopyPlaces
<1> QED  BY <1>1, <1>2, <1>3, <1>4, FreshStep

LEMMA CallFresh ==
  ASSUME HandoffInv, HandoffInv', CopyFresh, Begun, NEW q \in Requests, Call(q)
  PROVE  CopyFresh' /\ Begun'
<1>1. ASSUME NEW a \in Agents, ReportRun(q, a)
      PROVE  CopyFresh' /\ Begun'
  <2> DEFINE r == [Idle EXCEPT !.kind = "settle", !.agent = a, !.copy = task[a],
                     !.pc = IF NotCompleted(task[a]) THEN "fail" ELSE "report"]
  <2>1. r.pc \notin CopyPlaces
    BY DEF Idle, CopyPlaces
  <2>2. Begin(q, a \in did, r) /\ run' = run
    BY <1>1 DEF ReportRun, rows
  <2> QED  BY <2>1, <2>2, BeginFresh
<1>2. ASSUME NEW a \in Agents, CallCancel(q, a)
      PROVE  CopyFresh' /\ Begun'
  <2> DEFINE r == [Idle EXCEPT !.kind = "cancel", !.pc = "persist", !.agent = a, !.copy = task[a]]
  <2>1. r.pc \notin CopyPlaces
    BY DEF Idle, CopyPlaces
  <2>2. Begin(q, FALSE, r) /\ run' = run
    BY <1>2 DEF CallCancel, rows
  <2> QED  BY <2>1, <2>2, BeginFresh
<1>3. ASSUME NEW a \in Agents, NEW o, CallStepDone(q, a, o)
      PROVE  CopyFresh' /\ Begun'
  <2> DEFINE r == [Idle EXCEPT !.kind = "done", !.pc = "read", !.agent = a,
                     !.copy = task[a], !.outcome = o]
  <2>1. r.pc \notin CopyPlaces
    BY DEF Idle, CopyPlaces
  <2> HIDE DEF r
  <2>2. (\E e : Begin(q, e, r)) /\ run' = run
    BY <1>3 DEF CallStepDone, r, rows
  <2> QED  BY <2>1, <2>2, BeginFresh
<1>4. ASSUME NEW a \in Agents, NEW o, CallReview(q, a, o)
      PROVE  CopyFresh' /\ Begun'
  <2> DEFINE r == [Idle EXCEPT !.kind = "review", !.pc = "read", !.agent = a,
                     !.copy = task[a], !.outcome = o]
  <2>1. r.pc \notin CopyPlaces
    BY DEF Idle, CopyPlaces
  <2> HIDE DEF r
  <2>2. (\E e : Begin(q, e, r)) /\ run' = run
    BY <1>4 DEF CallReview, r, rows
  <2> QED  BY <2>1, <2>2, BeginFresh
<1>5. ASSUME NEW a \in Agents, NEW s \in Steps, NEW o, CallCard(q, a, s, o)
      PROVE  CopyFresh' /\ Begun'
  <2> DEFINE r == [Idle EXCEPT !.kind = "review", !.pc = "read", !.agent = a,
                     !.copy = task[a], !.outcome = o, !.step = s, !.card = TRUE]
  <2>1. r.pc \notin CopyPlaces
    BY DEF Idle, CopyPlaces
  <2>2. Begin(q, run.active = s, r) /\ run' = run
    BY <1>5 DEF CallCard, rows
  <2> QED  BY <2>1, <2>2, BeginFresh
<1>6. ASSUME NEW b \in Branches, NEW o, CallBranchDone(q, b, o)
      PROVE  CopyFresh' /\ Begun'
  <2> DEFINE r == [Idle EXCEPT !.kind = "branch", !.pc = "check", !.branch = b, !.outcome = o]
  <2>1. r.pc \notin CopyPlaces
    BY DEF Idle, CopyPlaces
  <2>2. Begin(q, btask[b] = "open" /\ run.active = StageOf[b], r) /\ run' = run
    BY <1>6 DEF CallBranchDone, rows
  <2> QED  BY <2>1, <2>2, BeginFresh
<1>7. CASE CallView(q)
  <2> DEFINE r == [Idle EXCEPT !.kind = "view", !.pc = "reread", !.step = run.active]
  <2>1. r.pc \notin CopyPlaces
    BY DEF Idle, CopyPlaces
  <2>2. Begin(q, FALSE, r) /\ run' = run
    BY <1>7 DEF CallView, rows
  <2> QED  BY <2>1, <2>2, BeginFresh
<1>8. ASSUME NEW a \in Agents, CallStart(q, a)
      PROVE  CopyFresh' /\ Begun'
  <2> DEFINE r == [Idle EXCEPT !.kind = "start", !.pc = "start", !.agent = a, !.copy = task[a]]
  <2>1. r.pc \notin CopyPlaces
    BY DEF Idle, CopyPlaces
  <2>2. Begin(q, TRUE, r) /\ run' = run
    BY <1>8 DEF CallStart, rows
  <2> QED  BY <2>1, <2>2, BeginFresh
<1> QED  BY <1>1, <1>2, <1>3, <1>4, <1>5, <1>6, <1>7, <1>8 DEF Call

\* A handler that goes on leaves the others alone; what it has copied, if it
\* gets to a place where that matters, it has read in this very step.
LEMMA HandlerFresh ==
  ASSUME HandoffInv, HandoffInv', CopyFresh, NEW q \in Requests, req[q].kind # "none",
         NEW r, req' = [req EXCEPT ![q] = r], plain' = plain, plain => Fresh(r, run')
  PROVE  CopyFresh'
<1>1. req \in [Requests -> ReqRow]
  BY DEF HandoffInv, TypeOK
<1>2. req'[q] = r /\ \A p \in Requests \ {q} : req'[p] = req[p]
  BY <1>1
<1> QED  BY <1>2, FreshStep

\* The steps of a handler that end at no place where its copy matters.
Elsewhere(q) ==
  /\ req[q].kind # "none" /\ plain' \in {plain, FALSE}
  /\ \A p \in Requests \ {q} : req'[p] = req[p]
  /\ req'[q].pc \notin CopyPlaces

LEMMA ElsewhereFresh ==
  ASSUME CopyFresh, NEW q \in Requests, Elsewhere(q)
  PROVE  CopyFresh'
<1> SUFFICES ASSUME plain'
             PROVE  /\ \A p, s \in Requests : req'[p].kind # "none" /\ req'[s].kind # "none" => p = s
                    /\ \A p \in Requests : req'[p].kind # "none" => Fresh(req'[p], run')
  BY DEF CopyFresh
<1>1. plain /\ \A p \in Requests \ {q} : req[p].kind = "none" /\ req'[p] = req[p]
  BY DEF CopyFresh, Elsewhere
<1>2. req'[q].kind # "none" => Fresh(req'[q], run')
  BY DEF Elsewhere, Fresh, CopyPlaces
<1>3. \A p \in Requests : req'[p].kind # "none" => p = q
  BY <1>1
<1> QED  BY <1>2, <1>3

LEMMA GotoElsewhere ==
  ASSUME HandoffInv, NEW q \in Requests, req[q].kind # "none", plain' \in {plain, FALSE},
         Return(q) \/ \E pc : Goto(q, pc) /\ pc \notin CopyPlaces
  PROVE  Elsewhere(q)
<1>1. req \in [Requests -> ReqRow] /\ req[q] \in ReqRow
  BY DEF HandoffInv, TypeOK
<1>2. CASE Return(q)
  BY <1>1, <1>2 DEF Return, Elsewhere, Idle, CopyPlaces
<1>3. ASSUME NEW pc, Goto(q, pc), pc \notin CopyPlaces
      PROVE  Elsewhere(q)
  <2>1. [req[q] EXCEPT !.pc = pc].pc = pc
    BY <1>1 DEF ReqRow
  <2>2. req'[q] = [req[q] EXCEPT !.pc = pc] /\ \A p \in Requests \ {q} : req'[p] = req[p]
    BY <1>1, <1>3 DEF Goto
  <2> QED  BY <1>3, <2>1, <2>2 DEF Elsewhere
<1> QED  BY <1>2, <1>3

\* The places that steps of one word lead to.
OtherPlaces == {"next", "unbox", "archive", "block", "close", "place", "drop", "queue",
                "notify", "list", "clear", "cancelRead", "cancelStep", "cancelRuns",
                "find", "report", "parent", "enqueue"}

LEMMA GoingElsewhere ==
  ASSUME HandoffInv, NEW q \in Requests, req[q].kind # "none", plain' \in {plain, FALSE},
         Return(q) \/ \E pc \in OtherPlaces : Goto(q, pc)
  PROVE  Elsewhere(q)
<1>1. OtherPlaces \cap CopyPlaces = {}
  BY DEF OtherPlaces, CopyPlaces
<1> QED  BY <1>1, GotoElsewhere

LEMMA FollowElsewhere ==
  ASSUME HandoffInv, NEW q \in Requests, Follow(q)
  PROVE  Elsewhere(q)
<1>1. req \in [Requests -> ReqRow] /\ req[q] \in ReqRow
  BY DEF HandoffInv, TypeOK
<1>2. CASE \/ Unbox(q) \/ CloseTask(q) \/ EndSpawning(q) \/ DropOld(q) \/ Notify(q)
  <2>1. req[q].kind # "none" /\ plain' = plain
    BY <1>2 DEF Unbox, CloseTask, EndSpawning, DropOld, Notify, At, Completions
  <2>2. Return(q) \/ \E pc \in OtherPlaces : Goto(q, pc)
    BY <1>2 DEF Unbox, CloseTask, EndSpawning, DropOld, Notify, OtherPlaces
  <2> QED  BY <2>1, <2>2, GoingElsewhere
<1>3. CASE HandToAgent(q) \/ HandToPerson(q)
  <2>1. req[q].kind # "none" /\ plain' = plain
    BY <1>3 DEF HandToAgent, HandToPerson, At, Completions
  <2>2. Return(q) \/ \E pc \in OtherPlaces : Goto(q, pc)
    BY <1>3 DEF HandToAgent, HandToPerson, Persist, OtherPlaces
  <2> QED  BY <2>1, <2>2, GoingElsewhere
<1>4. CASE EnterStage(q)
  <2>1. req[q].kind # "none" /\ plain' = plain
    BY <1>4 DEF EnterStage, At, Completions
  <2>2. CASE Return(q)
    BY <1>4, <2>1, <2>2, GoingElsewhere
  <2>3. CASE ~Return(q)
    <3>1. req' = [req EXCEPT ![q].pc = "spawn", ![q].list = Listing(req[q].wf.active)]
      BY <1>4, <2>3 DEF EnterStage
    <3>2. req'[q].pc = "spawn" /\ \A p \in Requests \ {q} : req'[p] = req[p]
      BY <1>1, <3>1 DEF ReqRow
    <3> QED  BY <2>1, <3>2 DEF Elsewhere, CopyPlaces
  <2> QED  BY <2>2, <2>3
<1>5. ASSUME NEW b \in Branches, SpawnTask(q, b)
      PROVE  Elsewhere(q)
  <2>1. req' = [req EXCEPT ![q].branch = b, ![q].pc = "row"]
    BY <1>5 DEF SpawnTask
  <2>2. req'[q].pc = "row" /\ \A p \in Requests \ {q} : req'[p] = req[p]
    BY <1>1, <2>1 DEF ReqRow
  <2> QED  BY <1>5, <2>2 DEF Elsewhere, CopyPlaces, SpawnTask, At, Completions
<1>6. CASE SpawnRow(q)
  <2>1. PICK b : req' = [req EXCEPT ![q].list[b] = "running", ![q].pc = "spawn"]
    BY <1>6 DEF SpawnRow
  <2>2. req'[q].pc = "spawn" /\ \A p \in Requests \ {q} : req'[p] = req[p]
    BY <1>1, <2>1 DEF ReqRow
  <2> QED  BY <1>6, <2>2 DEF Elsewhere, CopyPlaces, SpawnRow, At, Completions
<1>7. CASE QueueRun(q)
  <2>1. req[q].kind # "none" /\ plain' = plain
    BY <1>7 DEF QueueRun, At, Completions
  <2>2. CASE Return(q)
    BY <2>1, <2>2, GoingElsewhere
  <2>3. CASE ~Return(q)
    <3>1. PICK a, c : req' = [req EXCEPT ![q] = [@ EXCEPT !.pc = "enqueue", !.agent = a, !.copy = c]]
      BY <1>7, <2>3 DEF QueueRun
    <3>2. req'[q].pc = "enqueue" /\ \A p \in Requests \ {q} : req'[p] = req[p]
      BY <1>1, <3>1 DEF ReqRow
    <3> QED  BY <2>1, <3>2 DEF Elsewhere, CopyPlaces
  <2> QED  BY <2>2, <2>3
<1> QED  BY <1>2, <1>3, <1>4, <1>5, <1>6, <1>7 DEF Follow

LEMMA StartElsewhere ==
  ASSUME HandoffInv, NEW q \in Requests, Start(q)
  PROVE  Elsewhere(q)
<1>1. req[q].kind # "none" /\ plain' \in {plain, FALSE}
  BY DEF Start, StartTask, EnqueueRun, EnqueueUndone, StartStrands, At, Completions
<1>2. Return(q) \/ \E pc \in OtherPlaces : Goto(q, pc)
  BY DEF Start, StartTask, EnqueueRun, EnqueueUndone, StartStrands, Persist, OtherPlaces
<1> QED  BY <1>1, <1>2, GoingElsewhere

LEMMA JoinElsewhere ==
  ASSUME HandoffInv, NEW q \in Requests, Join(q)
  PROVE  Elsewhere(q)
<1>1. req \in [Requests -> ReqRow] /\ req[q] \in ReqRow
  BY DEF HandoffInv, TypeOK
<1>2. CASE CheckStage(q) \/ ArchiveBranchTask(q) \/ BlockRoot(q)
  <2>1. req[q].kind # "none" /\ plain' = plain
    BY <1>2 DEF CheckStage, ArchiveBranchTask, BlockRoot, At
  <2>2. Return(q) \/ \E pc \in OtherPlaces : Goto(q, pc)
    BY <1>2 DEF CheckStage, ArchiveBranchTask, BlockRoot, OtherPlaces
  <2> QED  BY <2>1, <2>2, GoingElsewhere
<1>3. CASE ListBranches(q)
  <2>1. req' = [req EXCEPT ![q].list = Listing(StageOf[req[q].branch]), ![q].pc = "save"]
    BY <1>3 DEF ListBranches
  <2>2. req'[q].pc = "save" /\ \A p \in Requests \ {q} : req'[p] = req[p]
    BY <1>1, <2>1 DEF ReqRow
  <2> QED  BY <1>3, <2>2 DEF Elsewhere, CopyPlaces, ListBranches, At
<1>4. CASE SaveBranch(q)
  <2>1. req[q].kind # "none" /\ plain' = plain
    BY <1>4 DEF SaveBranch, At
  <2>2. CASE Return(q)
    BY <1>4, <2>1, <2>2, GoingElsewhere
  <2>3. CASE ~Return(q)
    <3>1. PICK j, pc : req' = [req EXCEPT ![q].joined = j, ![q].pc = pc] /\ pc \in {"archive", "skip", "read"}
      BY <1>4, <2>3 DEF SaveBranch
    <3>2. req'[q].pc = pc /\ \A p \in Requests \ {q} : req'[p] = req[p]
      BY <1>1, <3>1 DEF ReqRow
    <3> QED  BY <2>1, <3>1, <3>2 DEF Elsewhere, CopyPlaces
  <2> QED  BY <2>2, <2>3
<1>5. CASE SkipOthers(q)
  <2>1. req' = [req EXCEPT ![q].joined = TRUE, ![q].pc = "read"]
    BY <1>5 DEF SkipOthers
  <2>2. req'[q].pc = "read" /\ \A p \in Requests \ {q} : req'[p] = req[p]
    BY <1>1, <2>1 DEF ReqRow
  <2> QED  BY <1>5, <2>2 DEF Elsewhere, CopyPlaces, SkipOthers, At
<1>6. CASE FindParent(q)
  <2>1. req[q].kind # "none" /\ plain' = plain
    BY <1>6 DEF FindParent, At
  <2>2. CASE Return(q)
    BY <1>6, <2>1, <2>2, GoingElsewhere
  <2>3. CASE ~Return(q)
    <3>1. PICK a, pc : /\ req' = [req EXCEPT ![q] = [@ EXCEPT !.agent = a, !.copy = task[a], !.pc = pc]]
                       /\ pc \in {"block", "close", "place"}
      BY <1>6, <2>3 DEF FindParent
    <3>2. req'[q].pc = pc /\ \A p \in Requests \ {q} : req'[p] = req[p]
      BY <1>1, <3>1 DEF ReqRow
    <3> QED  BY <2>1, <3>1, <3>2 DEF Elsewhere, CopyPlaces
  <2> QED  BY <2>2, <2>3
<1> QED  BY <1>2, <1>3, <1>4, <1>5, <1>6 DEF Join

LEMMA SettleElsewhere ==
  ASSUME HandoffInv, NEW q \in Requests, Settle(q)
  PROVE  Elsewhere(q)
<1>1. req[q].kind # "none" /\ plain' = plain
  BY DEF Settle, FailTask, EndRun, At
<1>2. Return(q) \/ \E pc \in OtherPlaces : Goto(q, pc)
  BY DEF Settle, FailTask, EndRun, OtherPlaces
<1> QED  BY <1>1, <1>2, GoingElsewhere

LEMMA CancelElsewhere ==
  ASSUME HandoffInv, NEW q \in Requests, Cancel(q), ~ReadRunToCancel(q)
  PROVE  Elsewhere(q)
<1>1. req[q].kind # "none" /\ plain' = plain
  BY DEF Cancel, CancelTask, ClearInbox, CancelWorkflow, CancelStep, CancelRuns, At
<1>2. Return(q) \/ \E pc \in OtherPlaces : Goto(q, pc)
  BY DEF Cancel, CancelTask, ClearInbox, CancelWorkflow, CancelStep, CancelRuns, Persist, OtherPlaces
<1> QED  BY <1>1, <1>2, GoingElsewhere

LEMMA ViewElsewhere ==
  ASSUME HandoffInv, NEW q \in Requests, View(q), ~RereadRun(q)
  PROVE  Elsewhere(q)
<1>1. req \in [Requests -> ReqRow] /\ req[q] \in ReqRow
  BY DEF HandoffInv, TypeOK
<1>2. req[q].kind # "none" /\ plain' = plain
  BY Zenon DEF View, ResaveRun, FindTask, MoveTask, At
<1>3. CASE ResaveRun(q) \/ MoveTask(q)
  <2>1. Return(q) \/ \E pc \in OtherPlaces : Goto(q, pc)
    BY <1>3 DEF ResaveRun, MoveTask, OtherPlaces
  <2> QED  BY <1>2, <2>1, GoingElsewhere
<1>4. CASE FindTask(q)
  <2>1. CASE Return(q)
    BY <1>2, <2>1, GoingElsewhere
  <2>2. CASE ~Return(q)
    <3>1. PICK a, c : req' = [req EXCEPT ![q] = [@ EXCEPT !.agent = a, !.pc = "move", !.copy = c]]
      BY <1>4, <2>2 DEF FindTask
    <3>2. req'[q].pc = "move" /\ \A p \in Requests \ {q} : req'[p] = req[p]
      BY <1>1, <3>1 DEF ReqRow
    <3> QED  BY <1>2, <3>2 DEF Elsewhere, CopyPlaces
  <2> QED  BY <2>1, <2>2
<1> QED  BY <1>3, <1>4 DEF View

\* The steps that copy the row, and the completion's own writes.
LEMMA ReadFresh ==
  ASSUME HandoffInv, HandoffInv', CopyFresh, Begun, NEW q \in Requests,
         ReadRun(q) \/ RereadRun(q) \/ ReadRunToCancel(q)
  PROVE  CopyFresh' /\ Begun'
<1>1. /\ req \in [Requests -> ReqRow] /\ req[q] \in ReqRow
      /\ req[q].kind # "none" /\ plain' = plain /\ run' = run
  BY DEF HandoffInv, TypeOK, ReadRun, RereadRun, ReadRunToCancel, At, Completions, rows
<1>2. CASE \E pc \in {"instance", "resave", "cancelRun"} :
             /\ req' = [req EXCEPT ![q].wf = run, ![q].pc = pc]
             /\ pc = "cancelRun" => run.status \notin {"completed", "cancelled"}
  <2>1. PICK pc \in {"instance", "resave", "cancelRun"} :
             /\ req' = [req EXCEPT ![q].wf = run, ![q].pc = pc]
             /\ pc = "cancelRun" => run.status \notin {"completed", "cancelled"}
    BY <1>2
  <2>2. /\ req'[q].wf = run /\ req'[q].pc = pc
        /\ \A p \in Requests \ {q} : req'[p] = req[p]
    BY <1>1, <2>1 DEF ReqRow
  <2>3. Fresh(req'[q], run')
    BY <1>1, <2>1, <2>2 DEF Fresh
  <2>4. Begun'
    BY <1>1, <2>2 DEF Begun
  <2> QED  BY <1>1, <2>2, <2>3, <2>4, FreshStep
<1>3. CASE Return(q) \/ \E pc \in OtherPlaces : Goto(q, pc)
  <2>1. Elsewhere(q)
    BY <1>1, <1>3, GoingElsewhere
  <2>2. Begun'
    BY <1>1, <2>1 DEF Begun, Elsewhere, CopyPlaces
  <2> QED  BY <2>1, <2>2, ElsewhereFresh
<1>4. ReadRun(q) => \/ req' = [req EXCEPT ![q].wf = run, ![q].pc = "instance"]
                    \/ Return(q) \/ Goto(q, "unbox") \/ Goto(q, "archive")
  BY DEF ReadRun, At, Completions
<1>5. ReadRunToCancel(q) =>
        \/ Goto(q, "cancelRuns")
        \/ /\ req' = [req EXCEPT ![q].wf = run, ![q].pc = "cancelRun"]
           /\ run.status \notin {"completed", "cancelled"}
  BY DEF ReadRunToCancel
<1>6. RereadRun(q) => req' = [req EXCEPT ![q].wf = run, ![q].pc = "resave"]
  BY DEF RereadRun
<1>7. {"unbox", "archive", "cancelRuns"} \subseteq OtherPlaces
  BY DEF OtherPlaces
<1> QED  BY <1>2, <1>3, <1>4, <1>5, <1>6, <1>7

LEMMA SaveInstanceFresh ==
  ASSUME HandoffInv, HandoffInv', CopyFresh, Begun, NEW q \in Requests, SaveInstance(q)
  PROVE  CopyFresh' /\ Begun'
<1>1. /\ req \in [Requests -> ReqRow] /\ req[q] \in ReqRow
      /\ req[q].kind # "none" /\ req[q].pc = "instance" /\ plain' = plain /\ run' = run
      /\ req' = [req EXCEPT ![q].pc = "run"]
  BY DEF HandoffInv, TypeOK, SaveInstance, At, Completions, Goto
<1>2. /\ req'[q].wf = req[q].wf /\ req'[q].pc = "run"
      /\ \A p \in Requests \ {q} : req'[p] = req[p]
  BY <1>1 DEF ReqRow
<1>3. plain => Fresh(req'[q], run')
  <2>1. plain => req[q].wf = run
    BY <1>1 DEF CopyFresh, Fresh, CopyPlaces
  <2> QED  BY <1>1, <1>2, <2>1 DEF Fresh
<1>4. Begun'
  BY <1>1, <1>2 DEF Begun
<1> QED  BY <1>1, <1>2, <1>3, <1>4, FreshStep

LEMMA SaveRunElsewhere ==
  ASSUME HandoffInv, NEW q \in Requests, SaveRun(q) \/ OpenNext(q)
  PROVE  Elsewhere(q)
<1>1. req \in [Requests -> ReqRow] /\ req[q] \in ReqRow
  BY DEF HandoffInv, TypeOK
<1>2. req[q].kind # "none" /\ plain' = plain /\ req[q].pc \in {"run", "next"}
  BY DEF SaveRun, OpenNext, At, Completions
<1>3. AfterTransition(q) \in OtherPlaces
  BY DEF AfterTransition, OtherPlaces
<1>4. CASE Return(q) \/ OpenNext(q)
  BY <1>2, <1>3, <1>4, GoingElsewhere DEF OpenNext
<1>5. CASE SaveRun(q) /\ ~Return(q)
  <2>1. PICK w, pc : /\ req' = [req EXCEPT ![q].wf = w, ![q].pc = pc]
                     /\ pc \in {AfterTransition(q), "next"}
    BY <1>5 DEF SaveRun
  <2>2. req'[q].pc = pc /\ \A p \in Requests \ {q} : req'[p] = req[p]
    BY <1>1, <2>1 DEF ReqRow
  <2> QED  BY <1>2, <1>3, <2>1, <2>2 DEF Elsewhere, CopyPlaces, OtherPlaces
<1> QED  BY <1>4, <1>5

\* Where recorded outcomes lead.
CourseStep == [Course!Next]_<<run, events, plain>>

LEMMA PlaceOf ==
  ASSUME NEW w \in RunRow, RowOK(w), BackedBy(events, w), w.status # "none",
         events \subseteq [step : Steps, outcome : Outcomes \cup {Failed}]
  PROVE  /\ w \in Course!Places
         /\ w.active \in Steps => w = Course!Running(w.active)
<1>1. w = [status |-> w.status, active |-> w.active]
  BY DEF RunRow
<1>2. CASE w.status = "active"
  <2>1. w = Course!Running(w.active) /\ w.active \in Steps
    BY <1>1, <1>2 DEF RowOK, Course!Running
  <2>2. CASE w.active = StartStep
    BY <2>1, <2>2 DEF Course!Places
  <2>3. CASE w.active # StartStep
    <3>1. PICK e \in events : e.outcome # Failed /\ Edge[e.step][e.outcome] = w.active
      BY <2>1, <2>3 DEF BackedBy, ReachedBy
    <3>2. Course!Leading(e) /\ Course!After(e) = w
      BY <2>1, <3>1 DEF Course!Leading, Course!After
    <3> QED  BY <2>1, <3>1, <3>2 DEF Course!Places
  <2> QED  BY <2>1, <2>2, <2>3
<1>3. CASE w.status # "active"
  <2>1. w = Course!Over(w.status) /\ w.active \notin Steps
    BY <1>1, <1>3 DEF RowOK, Course!Over, RunRow
  <2>2. CASE w.status = "cancelled"
    BY <2>1, <2>2 DEF Course!Places
  <2>3. CASE w.status = "completed"
    <3>1. PICK e \in events : e.outcome # Failed /\ Edge[e.step][e.outcome] = End
      BY <2>3 DEF BackedBy
    <3>2. Course!Leading(e) /\ Course!After(e) = w
      BY <2>1, <2>3, <3>1 DEF Course!Leading, Course!After
    <3> QED  BY <2>1, <3>1, <3>2 DEF Course!Places
  <2>4. CASE w.status = "failed"
    <3>1. PICK e \in events : e.outcome = Failed
      BY <2>4 DEF BackedBy
    <3>2. Course!Leading(e) /\ Course!After(e) = w
      BY <2>1, <2>4, <3>1 DEF Course!Leading, Course!After
    <3> QED  BY <2>1, <3>1, <3>2 DEF Course!Places
  <2> QED  BY <1>3, <2>1, <2>2, <2>3, <2>4 DEF RunRow
<1> QED  BY <1>2, <1>3

LEMMA NothingMoves ==
  ASSUME UNCHANGED <<run, events>>, plain' \in {plain, FALSE}
  PROVE  CourseStep
BY DEF CourseStep, Course!Next, Course!Disorder

\* The row a completion has copied is one with an active step.
LEMMA CopiedRow ==
  ASSUME HandoffInv, CopyFresh, NEW q \in Requests, At(q, Completions, "instance") \/ At(q, Completions, "run")
  PROVE  /\ req[q].wf.active \in Steps /\ req[q].outcome \in Outcomes \cup {Failed}
         /\ req[q].wf = Course!Running(req[q].wf.active)
         /\ req[q].wf \in Course!Places
         /\ plain => run = req[q].wf
<1>1. req[q] \in ReqRow /\ Sound(events, done, req[q])
      /\ events \subseteq [step : Steps, outcome : Outcomes \cup {Failed}]
  BY DEF HandoffInv, TypeOK
<1>2. req[q].kind \in Completions /\ req[q].pc \in ExpectsStep
  BY DEF At, ExpectsStep
<1>3. /\ req[q].wf.active \in Steps /\ RowOK(req[q].wf) /\ BackedBy(events, req[q].wf)
      /\ req[q].wf \in RunRow /\ req[q].outcome \in Outcomes \cup {Failed}
  BY <1>1, <1>2 DEF Sound, GoodReq, ReqRow
<1>4. req[q].wf.status = "active"
  BY <1>3 DEF RowOK
<1>5. plain => run = req[q].wf
  BY DEF CopyFresh, Fresh, CopyPlaces, At, Completions
<1> QED  BY <1>1, <1>3, <1>4, <1>5, PlaceOf

LEMMA RecordStep ==
  ASSUME HandoffInv, CopyFresh, NEW q \in Requests, SaveInstance(q)
  PROVE  CourseStep
<1>1. PICK s, o : s = req[q].wf.active /\ o = req[q].outcome
  OBVIOUS
<1>2. events' = events \cup {[step |-> s, outcome |-> o]} /\ run' = run /\ plain' = plain
  BY <1>1 DEF SaveInstance
<1>3. /\ s \in Steps /\ o \in Outcomes \cup {Failed}
      /\ Course!Running(s) \in Course!Places
      /\ plain => run = Course!Running(s)
  BY <1>1, CopiedRow DEF SaveInstance
<1>4. PICK e : e = [step |-> s, outcome |-> o]
  OBVIOUS
<1>5. Course!Record(e)
  BY <1>2, <1>3, <1>4 DEF Course!Record
<1> QED  BY <1>3, <1>4, <1>5 DEF CourseStep, Course!Next

LEMMA MoveStep ==
  ASSUME HandoffInv, CopyFresh, NEW q \in Requests, SaveRun(q)
  PROVE  CourseStep
<1>1. PICK s, o : s = req[q].wf.active /\ o = req[q].outcome
  OBVIOUS
<1>2. /\ s \in Steps /\ o \in Outcomes \cup {Failed}
      /\ req[q].wf = Course!Running(s)
      /\ plain => run = Course!Running(s)
  BY <1>1, CopiedRow DEF SaveRun
<1>3. events' = events /\ plain' = plain
  BY DEF SaveRun
<1>4. CASE ~Matches(s, o)
  <2>1. run' = run
    BY <1>1, <1>4 DEF SaveRun
  <2> QED  BY <1>3, <2>1, NothingMoves
<1>5. CASE Matches(s, o)
  <2>1. PICK e : e = [step |-> s, outcome |-> o]
    OBVIOUS
  <2>2. e \in events
    BY <1>1, <2>1 DEF SaveRun, At, HandoffInv, Sound, RecordedIn
  <2>3. run' = IF Target(s, o) = End THEN [status |-> StatusOf(o), active |-> NoStep]
               ELSE [req[q].wf EXCEPT !.active = Target(s, o)]
    BY <1>1, <1>5 DEF SaveRun
  <2>4. Course!Leading(e) /\ run' = Course!After(e)
    BY <1>2, <1>5, <2>1, <2>3 DEF Matches, Target, StatusOf, Course!Leading, Course!After,
       Course!Over, Course!Running
  <2>5. Course!Move(e)
    BY <1>2, <1>3, <2>1, <2>2, <2>4 DEF Course!Move
  <2> QED  BY <1>2, <2>1, <2>5 DEF CourseStep, Course!Next
<1> QED  BY <1>4, <1>5

LEMMA ResaveStep ==
  ASSUME HandoffInv, CopyFresh, Begun, NEW q \in Requests, ResaveRun(q)
  PROVE  CourseStep
<1>1. /\ run' = req[q].wf /\ events' = events /\ plain' = plain
      /\ req[q].kind = "view" /\ req[q].pc = "resave"
  BY DEF ResaveRun, At
<1>2. CASE plain
  <2>1. req[q].wf = run
    BY <1>1, <1>2 DEF CopyFresh, Fresh, CopyPlaces
  <2> QED  BY <1>1, <2>1, NothingMoves
<1>3. CASE ~plain
  <2>1. req[q].wf \in Course!Places
    <3>1. /\ req[q].wf \in RunRow /\ req[q].wf.status # "none"
          /\ RowOK(req[q].wf) /\ BackedBy(events, req[q].wf)
          /\ events \subseteq [step : Steps, outcome : Outcomes \cup {Failed}]
      BY <1>1 DEF HandoffInv, TypeOK, ReqRow, Begun, Sound, GoodReq
    <3> QED  BY <3>1, PlaceOf
  <2>2. Course!SetBack
    BY <1>1, <1>3, <2>1 DEF Course!SetBack
  <2> QED  BY <2>2 DEF CourseStep, Course!Next
<1> QED  BY <1>2, <1>3

LEMMA CancelWorkflowStep ==
  ASSUME CopyFresh, NEW q \in Requests, CancelWorkflow(q)
  PROVE  CourseStep
<1>1. plain => run.status \notin {"completed", "cancelled"}
  BY DEF CancelWorkflow, At, CopyFresh, Fresh
<1>2. Course!Cancel
  BY <1>1 DEF CancelWorkflow, Course!Cancel, Course!Over
<1> QED  BY <1>2 DEF CourseStep, Course!Next

CourseKept == CourseStep /\ CopyFresh' /\ Begun'

\* A handler that goes elsewhere and leaves the row and the history alone.
LEMMA ElsewhereKept ==
  ASSUME CopyFresh, Begun, NEW q \in Requests, Elsewhere(q), UNCHANGED <<run, events>>
  PROVE  CourseKept
<1>1. Begun'
  BY DEF Begun, Elsewhere, CopyPlaces
<1> QED  BY <1>1, ElsewhereFresh, NothingMoves DEF CourseKept, Elsewhere

LEMMA RowWritten ==
  ASSUME CopyFresh, Begun, NEW q \in Requests, Elsewhere(q), CourseStep, run'.status # "none"
  PROVE  CourseKept
<1>1. Begun'
  BY DEF Begun, Elsewhere, CopyPlaces
<1> QED  BY <1>1, ElsewhereFresh DEF CourseKept

LEMMA HandlerKept ==
  ASSUME HandoffInv, HandoffInv', CopyFresh, Begun, NEW q \in Requests,
         Start(q) \/ Transition(q) \/ Join(q) \/ Follow(q) \/ Settle(q) \/ Cancel(q) \/ View(q)
  PROVE  CourseKept
<1>1. CASE ReadRun(q) \/ RereadRun(q) \/ ReadRunToCancel(q)
  <2>1. UNCHANGED <<run, events, plain>>
    BY <1>1 DEF ReadRun, RereadRun, ReadRunToCancel, rows
  <2> QED  BY <1>1, <2>1, ReadFresh, NothingMoves DEF CourseKept
<1>2. CASE SaveInstance(q)
  BY <1>2, SaveInstanceFresh, RecordStep DEF CourseKept
<1>3. CASE SaveRun(q)
  <2>1. run'.status # "none"
    <3>1. run' = run \/ run' = [status |-> StatusOf(req[q].outcome), active |-> NoStep]
          \/ run' = [req[q].wf EXCEPT !.active = Target(req[q].wf.active, req[q].outcome)]
      BY <1>3 DEF SaveRun
    <3>2. req[q].wf.status = "active"
      <4>1. req[q].wf = Course!Running(req[q].wf.active)
        BY <1>3, CopiedRow DEF SaveRun
      <4> QED  BY <4>1 DEF Course!Running
    <3>3. StatusOf(req[q].outcome) # "none"
      BY DEF StatusOf
    <3>4. req[q].wf \in RunRow
      BY DEF HandoffInv, TypeOK, ReqRow
    <3>5. CASE run' = [req[q].wf EXCEPT !.active = Target(req[q].wf.active, req[q].outcome)]
      BY <3>2, <3>4, <3>5 DEF RunRow
    <3> QED  BY <3>1, <3>3, <3>5 DEF Begun
  <2> QED  BY <1>3, <2>1, MoveStep, SaveRunElsewhere, RowWritten
<1>4. CASE OpenNext(q)
  BY <1>4, SaveRunElsewhere, ElsewhereKept DEF OpenNext
<1>5. CASE Join(q)
  <2>1. UNCHANGED <<run, events>>
    BY <1>5, Zenon DEF Join, CheckStage, ListBranches, SaveBranch, SkipOthers, ArchiveBranchTask,
       FindParent, BlockRoot, rows
  <2> QED  BY <1>5, <2>1, JoinElsewhere, ElsewhereKept
<1>6. CASE Follow(q)
  <2>1. UNCHANGED <<run, events>>
    BY <1>6, Zenon DEF Follow, Unbox, CloseTask, EnterStage, EndSpawning, SpawnTask, SpawnRow,
       HandToAgent, DropOld, QueueRun, HandToPerson, Notify, rows
  <2> QED  BY <1>6, <2>1, FollowElsewhere, ElsewhereKept
<1>7. CASE Settle(q)
  <2>1. UNCHANGED <<run, events>>
    BY <1>7 DEF Settle, FailTask, EndRun, rows
  <2> QED  BY <1>7, <2>1, SettleElsewhere, ElsewhereKept
<1>8. CASE CancelWorkflow(q)
  <2>1. run'.status # "none" /\ Elsewhere(q)
    <3>1. ~ReadRunToCancel(q)
      BY <1>8 DEF CancelWorkflow, ReadRunToCancel, At
    <3> QED  BY <1>8, <3>1, CancelElsewhere DEF CancelWorkflow, Cancel
  <2> QED  BY <1>8, <2>1, CancelWorkflowStep, RowWritten
<1>9. CASE Cancel(q) /\ ~ReadRunToCancel(q) /\ ~CancelWorkflow(q)
  <2>1. UNCHANGED <<run, events>>
    BY <1>9 DEF Cancel, CancelTask, ClearInbox, CancelStep, CancelRuns, rows
  <2> QED  BY <1>9, <2>1, CancelElsewhere, ElsewhereKept
<1>10. CASE ResaveRun(q)
  <2>1. run'.status # "none" /\ Elsewhere(q)
    <3>1. ~RereadRun(q)
      BY <1>10 DEF ResaveRun, RereadRun, At
    <3>2. run'.status # "none"
      BY <1>10 DEF ResaveRun, At, Begun
    <3> QED  BY <1>10, <3>1, <3>2, ViewElsewhere DEF View
  <2> QED  BY <1>10, <2>1, ResaveStep, RowWritten
<1>11. CASE FindTask(q) \/ MoveTask(q)
  <2>1. UNCHANGED <<run, events>> /\ ~RereadRun(q)
    BY <1>11, Zenon DEF FindTask, MoveTask, RereadRun, At, rows
  <2> QED  BY <1>11, <2>1, ViewElsewhere, ElsewhereKept DEF View
<1>12. CASE Start(q)
  <2>1. UNCHANGED <<run, events>>
    BY <1>12 DEF Start, StartTask, EnqueueRun, EnqueueUndone, StartStrands, rows
  <2> QED  BY <1>12, <2>1, StartElsewhere, ElsewhereKept
<1> QED  BY <1>1, <1>2, <1>3, <1>4, <1>5, <1>6, <1>7, <1>8, <1>9, <1>10, <1>11, <1>12 DEF Transition, View

LEMMA NextKept ==
  ASSUME HandoffInv, HandoffInv', CopyFresh, Begun, [Next]_vars
  PROVE  CourseKept
<1>1. CASE RunStep \/ (\E b \in Branches : EndBranchRun(b)) \/ UNCHANGED vars
  <2>1. UNCHANGED <<run, events, req>>
    BY <1>1, Zenon DEF RunStep, ClaimRun, CancelEnded, EndBranchRun, vars, rows
  <2>2. plain' = plain \/ plain' = (plain /\ Quiet)
    BY <1>1, Zenon DEF RunStep, ClaimRun, CancelEnded, EndBranchRun, vars
  <2>3. plain' \in {plain, FALSE}
    BY <2>2 DEF HandoffInv, TypeOK
  <2>4. plain' => plain
    BY <2>2, Zenon
  <2>5. Begun'
    BY <2>1 DEF Begun
  <2> QED  BY <2>1, <2>3, <2>4, <2>5, FreshStays, NothingMoves DEF CourseKept
<1>2. ASSUME NEW q \in Requests, Call(q)
      PROVE  CourseKept
  <2>1. UNCHANGED <<run, events>> /\ plain' = (plain /\ Quiet)
    BY <1>2, Zenon DEF Call, CallStart, ReportRun, CallCancel, CallStepDone, CallReview, CallCard,
       CallBranchDone, CallView, Begin, rows
  <2>2. plain' \in {plain, FALSE}
    BY <2>1 DEF HandoffInv, TypeOK
  <2> QED  BY <1>2, <2>1, <2>2, CallFresh, NothingMoves DEF CourseKept
<1>3. CASE Restart
  <2>1. /\ UNCHANGED <<run, events>> /\ plain' = FALSE
        /\ \A q \in Requests : req'[q] = Idle
    BY <1>3 DEF Restart, rows
  <2>2. CopyFresh' /\ Begun'
    BY <2>1 DEF CopyFresh, Begun, Idle
  <2> QED  BY <2>1, <2>2, NothingMoves DEF CourseKept
<1> QED  BY <1>1, <1>2, <1>3, HandlerKept DEF Next

\* The workflow engine implements the course of a workflow, for every
\* definition, any number of handlers, and however they overlap, repeat, are
\* cut short or write back old rows: what a run does is what its recorded
\* outcomes lead to, and in order it leaves each step by the outcome recorded
\* there (CompleteAndAdvance, store.go:1557, CancelRunForTask, store.go:1115,
\* ReconcileRunCurrentAssignee, store.go:1073).
THEOREM EngineKeepsCourse == Spec => KeepsCourse
<1>1. Init => Course!Init /\ CopyFresh /\ Begun
  <2> SUFFICES ASSUME Init PROVE Course!Init /\ CopyFresh /\ Begun
    OBVIOUS
  <2>1. \A q \in Requests : req[q] = Idle
    BY DEF Init
  <2>2. CopyFresh /\ Begun
    BY <2>1 DEF Init, CopyFresh, Begun, Idle
  <2> QED  BY <2>2 DEF Init, Course!Init, Course!Running
<1>2. HandoffInv /\ HandoffInv' /\ CopyFresh /\ Begun /\ [Next]_vars =>
        CopyFresh' /\ Begun' /\ [Course!Next]_Course!vars
  BY NextKept DEF CourseKept, CourseStep, Course!vars
<1>3. Spec => []HandoffInv
  BY HandoffInvHolds
<1> QED  BY <1>1, <1>2, <1>3, PTL DEF Spec, KeepsCourse, Course!Spec

-----------------------------------------------------------------------------
(***************************************************************************)
(* A stage is complete when it is left.  Whoever enters it in order has    *)
(* created every branch before another handler looks at it, rows are never *)
(* deleted, and the listing of a branch's handler is then that of the      *)
(* whole stage.                                                            *)
(***************************************************************************)
Spawned(s) == \A b \in InStage(s) : branch[b] # "none"

\* A completion between moving the run into a stage and its last branch there.
Entering(r) == r.kind \in Completions /\ (Between(r) \/ r.pc \in {"spawn", "row"})

AfterListing == {"save", "skip", "read", "instance", "run"}

StageAt(r) ==
  /\ r.kind \in Completions /\ r.pc \in {"spawn", "row"} =>
       r.wf.active = run.active /\ \A b \in Branches : r.list[b] # "none" => branch[b] # "none"
  /\ r.kind = "branch" /\ r.pc \in AfterListing =>
       \A b \in InStage(StageOf[r.branch]) : r.list[b] # "none"

SpawnedInv ==
  plain =>
    /\ \E a \in Agents : HasTask(a)
    /\ \A q \in Requests : StageAt(req[q])
    /\ run.active \in Parallel /\ (\A q \in Requests : ~Entering(req[q])) => Spawned(run.active)

\* Some record of the task remains: the one deleted has been written elsewhere.
LEMMA PutKeepsRecord ==
  ASSUME HandoffInv, NEW a \in Agents, NEW status, NEW who, status # "none", Put(a, status, who),
         NEW x \in Agents, HasTask(x)
  PROVE  HasTask(x)'
<1>1. task \in [Agents -> TaskRow]
  BY DEF HandoffInv, TypeOK
<1> QED  BY <1>1 DEF Put, HasTask

LEMMA RecordRemains ==
  ASSUME HandoffInv, PlainInv, plain, [Next]_vars, \E a \in Agents : HasTask(a)
  PROVE  \E a \in Agents : HasTask(a)'
<1>1. PICK x \in Agents : HasTask(x)
  OBVIOUS
<1>2. CASE UNCHANGED task
  BY <1>1, <1>2 DEF HasTask
<1>3. ASSUME NEW a \in Agents, NEW status, NEW who, status # "none", Put(a, status, who)
      PROVE  HasTask(x)'
  BY <1>1, <1>3, PutKeepsRecord
<1>4. ASSUME NEW q \in Requests, DropOld(q)
      PROVE  \E a \in Agents : HasTask(a)'
  <2>1. InOrder(q) /\ req[q].kind # "none" /\ req[q].pc = "drop"
    BY <1>4, PlainHandler DEF DropOld, At, Completions
  <2>2. \E s : Handing(req[q].agent, s)
    BY <1>4, <2>1 DEF DropOld, At, InOrder, PlaceInv, CompletionAt, ViewAt
  <2>3. PICK p \in Agents : p # req[q].agent /\ HasTask(p)
    BY <2>2 DEF Handing
  <2>4. task' = [task EXCEPT ![req[q].agent] = NoTask] /\ task \in [Agents -> TaskRow]
    BY <1>4 DEF DropOld, HandoffInv, TypeOK
  <2> QED  BY <2>3, <2>4 DEF HasTask
<1>5. ASSUME NEW q \in Requests, Start(q)
      PROVE  HasTask(x)'
  <2>1. req[q] \in ReqRow /\ Sound(events, done, req[q])
    BY DEF HandoffInv, TypeOK
  <2>2. CASE StartTask(q)
    <3>1. req[q].agent \in Agents
      BY <2>1, <2>2 DEF StartTask, At, Sound, GoodReq
    <3> QED  BY <1>1, <1>3, <2>2, <3>1 DEF StartTask, Persist, HasTask
  <2>3. CASE EnqueueUndone(q)
    <3>1. req[q].agent \in Agents
      BY <2>1, <2>3 DEF EnqueueUndone, At, Sound, GoodReq, Completions
    <3> QED  BY <1>1, <1>3, <2>3, <3>1 DEF EnqueueUndone, HasTask
  <2>4. CASE EnqueueRun(q) \/ StartStrands(q)
    BY <1>1, <2>4 DEF EnqueueRun, StartStrands, HasTask, tasks
  <2> QED  BY <1>5, <2>2, <2>3, <2>4 DEF Start
<1>6. ASSUME NEW q \in Requests,
             \/ FailTask(q) \/ BlockRoot(q) \/ CloseTask(q) \/ EnterStage(q) \/ HandToAgent(q)
             \/ QueueRun(q) \/ HandToPerson(q) \/ CancelTask(q)
      PROVE  HasTask(x)'
  <2>1. req[q] \in ReqRow /\ Sound(events, done, req[q])
    BY DEF HandoffInv, TypeOK
  <2>2. CASE FailTask(q)
    <3>1. req[q].agent \in Agents
      BY <2>1, <2>2 DEF FailTask, At, Sound, GoodReq, Completions
    <3> QED  BY <1>3, <2>2, <3>1 DEF FailTask
  <2>3. CASE BlockRoot(q)
    <3>1. req[q].agent \in Agents
      BY <2>3, PlainHandler DEF BlockRoot, At, InOrder, PlaceInv, BranchAt
    <3> QED  BY <1>1, <1>3, <2>3, <3>1 DEF BlockRoot, HasTask
  <2>4. CASE CloseTask(q)
    <3>1. req[q].agent \in Agents
      BY <2>4, PlainHandler DEF CloseTask, At, InOrder, PlaceInv, CompletionAt, Completions
    <3> QED  BY <1>1, <1>3, <2>4, <3>1 DEF CloseTask, HasTask
  <2>5. CASE EnterStage(q)
    <3>1. req[q].agent \in Agents
      BY <2>5, PlainHandler DEF EnterStage, At, InOrder, PlaceInv, CompletionAt, Completions
    <3> QED  BY <1>1, <1>3, <2>5, <3>1 DEF EnterStage, HasTask
  <2>6. CASE HandToAgent(q)
    BY <1>1, <1>3, <2>6 DEF HandToAgent, Persist, HasTask
  <2>7. CASE QueueRun(q)
    <3>1. /\ ActorOf[req[q].wf.active] \in Agents
      BY <2>7, PlainHandler DEF QueueRun, At, InOrder, PlaceInv, CompletionAt, Completions
    <3> QED  BY <1>1, <1>3, <2>7, <3>1 DEF QueueRun, HasTask
  <2>8. CASE HandToPerson(q)
    <3>1. req[q].agent \in Agents
      BY <2>8, PlainHandler DEF HandToPerson, At, InOrder, PlaceInv, CompletionAt, Completions
    <3> QED  BY <1>1, <1>3, <2>8, <3>1 DEF HandToPerson, Persist, HasTask
  <2>9. CASE CancelTask(q)
    <3>1. req[q].agent \in Agents
      BY <2>1, <2>9 DEF CancelTask, At, Sound, GoodReq, Completions
    <3> QED  BY <1>1, <1>3, <2>9, <3>1 DEF CancelTask, Persist, HasTask
  <2> QED  BY <1>6, <2>2, <2>3, <2>4, <2>5, <2>6, <2>7, <2>8, <2>9
<1>7. ASSUME NEW q \in Requests, MoveTask(q)
      PROVE  HasTask(x)'
  <2>1. /\ req[q].agent \in Agents /\ req[q].copy.status # "none"
        /\ req[q].step \in Steps
    <3>1. ViewAt(req[q]) /\ req[q].pc = "move" /\ req[q].step \in Steps
      BY <1>7, PlainHandler DEF MoveTask, At, InOrder, PlaceInv, HandoffInv, Sound, GoodReq
    <3> QED  BY <3>1 DEF ViewAt
  <2> QED  BY <1>1, <1>3, <1>7, <2>1 DEF MoveTask, HasTask
<1> USE DEF rows, tasks
<1>8. ASSUME NEW q \in Requests, Call(q) \/ Transition(q)
      PROVE  UNCHANGED task
  BY <1>8, Zenon DEF Call, CallStart, ReportRun, CallCancel, CallStepDone, CallReview, CallCard, CallBranchDone,
     CallView, Transition, ReadRun, SaveInstance, SaveRun, OpenNext
<1>9. ASSUME NEW q \in Requests, Join(q), ~BlockRoot(q)
      PROVE  UNCHANGED task
  BY <1>9, Zenon DEF Join, CheckStage, ListBranches, SaveBranch, SkipOthers, ArchiveBranchTask, FindParent
<1>10. ASSUME NEW q \in Requests,
              \/ Unbox(q) \/ EndSpawning(q) \/ SpawnRow(q) \/ Notify(q) \/ EndRun(q)
              \/ \E b \in Branches : SpawnTask(q, b)
       PROVE  UNCHANGED task
  BY <1>10 DEF Unbox, EndSpawning, SpawnRow, Notify, EndRun, SpawnTask
<1>11. ASSUME NEW q \in Requests, Cancel(q) \/ View(q),
              ~CancelTask(q), ~MoveTask(q)
       PROVE  UNCHANGED task
  BY <1>11, Zenon DEF Cancel, View, ClearInbox, ReadRunToCancel, CancelWorkflow, CancelStep, CancelRuns,
     RereadRun, ResaveRun, FindTask
<1>12. ASSUME \/ \E a \in Agents : ClaimRun(a) \/ CancelEnded(a)
              \/ \E b \in Branches : EndBranchRun(b)
              \/ Restart \/ UNCHANGED vars
       PROVE  UNCHANGED task
  BY <1>12 DEF ClaimRun, CancelEnded, EndBranchRun, Restart, vars
<1>13. ASSUME NEW q \in Requests,
              \/ Call(q) \/ Start(q) \/ Transition(q) \/ Join(q) \/ Follow(q) \/ Settle(q)
              \/ Cancel(q) \/ View(q)
       PROVE  \E a \in Agents : HasTask(a)'
  BY <1>2, <1>4, <1>5, <1>6, <1>7, <1>8, <1>9, <1>10, <1>11, <1>13 DEF Follow, Settle
<1> QED  BY <1>2, <1>12, <1>13 DEF Next, RunStep

\* What a step of handler q has to leave right.
LEMMA SpawnedStep ==
  ASSUME HandoffInv, PlainInv, SpawnedInv, [Next]_vars, NEW q \in Requests,
         req[q].kind # "none", plain' = plain, \A p \in Requests \ {q} : req'[p] = req[p],
         plain => StageAt(req[q])',
         plain => (run'.active \in Parallel => Entering(req'[q]) \/ Spawned(run.active)')
  PROVE  SpawnedInv'
<1> SUFFICES ASSUME plain PROVE SpawnedInv'
  BY DEF SpawnedInv
<1>1. \E a \in Agents : HasTask(a)'
  BY RecordRemains DEF SpawnedInv
<1>2. \A p \in Requests \ {q} : req'[p].kind = "none"
  BY DEF PlainInv
<1>3. \A p \in Requests \ {q} : StageAt(req[p])'
  BY <1>2 DEF StageAt, Completions
<1>4. run'.active \in Parallel /\ (\A p \in Requests : ~Entering(req[p])') => Spawned(run.active)'
  BY DEF Entering, Between
<1> QED  BY <1>1, <1>3, <1>4 DEF SpawnedInv

\* Rows stay: a stage that is complete remains so.
LEMMA SpawnedStays ==
  ASSUME PlainInv, SpawnedInv, plain, NEW q \in Requests, req[q].kind # "none", ~Entering(req[q]),
         run'.active \in {run.active, NoStep},
         \A b \in Branches : branch[b] # "none" => branch'[b] # "none"
  PROVE  run'.active \in Parallel => Spawned(run.active)'
<1> SUFFICES ASSUME run'.active \in Parallel PROVE Spawned(run.active)'
  OBVIOUS
<1>1. run'.active = run.active
  OBVIOUS
<1>2. \A p \in Requests : ~Entering(req[p])
  <2> TAKE p \in Requests
  <2>1. p = q \/ req[p].kind = "none"
    BY DEF PlainInv
  <2> QED  BY <2>1 DEF Entering, Completions
<1>3. Spawned(run.active)
  BY <1>1, <1>2 DEF SpawnedInv
<1>4. InStage(run.active) \subseteq Branches
  BY DEF InStage
<1> QED  BY <1>1, <1>3, <1>4 DEF Spawned

\* Places that ask nothing of the listing.
NoListing(r) ==
  \/ r.kind \notin Completions
  \/ r.pc \notin {"spawn", "row"} /\ (r.kind # "branch" \/ r.pc \notin AfterListing)

LEMMA NoListingAt == ASSUME NEW r, NoListing(r) PROVE StageAt(r)
  BY DEF NoListing, StageAt, Completions

\* A step of a handler that is not entering a stage, to a place that asks
\* nothing of the listing or with the listing it had.
LEMMA OutsideStage ==
  ASSUME HandoffInv, PlainInv, SpawnedInv, [Next]_vars, NEW q \in Requests,
         req[q].kind # "none", plain' = plain, \A p \in Requests \ {q} : req'[p] = req[p],
         plain => ~Entering(req[q]),
         plain => run'.active \in {run.active, NoStep},
         \A b \in Branches : branch[b] # "none" => branch'[b] # "none",
         \/ NoListing(req'[q])
         \/ /\ req'[q].list = req[q].list /\ req'[q].branch = req[q].branch
            /\ req'[q].kind = req[q].kind
            /\ req[q].pc \in AfterListing /\ req'[q].pc \in AfterListing
  PROVE  SpawnedInv'
<1>1. plain => (run'.active \in Parallel => Spawned(run.active)')
  BY SpawnedStays
<1>2. plain => StageAt(req[q])'
  <2>1. CASE NoListing(req'[q])
    BY <2>1 DEF NoListing, StageAt, Completions
  <2>2. CASE /\ req'[q].list = req[q].list /\ req'[q].branch = req[q].branch
             /\ req'[q].kind = req[q].kind
             /\ req[q].pc \in AfterListing /\ req'[q].pc \in AfterListing
    <3>1. plain => StageAt(req[q])
      BY DEF SpawnedInv
    <3> QED  BY <2>2, <3>1 DEF StageAt, AfterListing
  <2> QED  BY <2>1, <2>2
<1> QED  BY <1>1, <1>2, SpawnedStep

\* A step that goes to one place, by its name.
LEMMA GoesTo ==
  ASSUME HandoffInv, NEW q \in Requests, NEW pc, Goto(q, pc)
  PROVE  /\ req'[q] = [req[q] EXCEPT !.pc = pc] /\ req'[q].pc = pc
         /\ req'[q].kind = req[q].kind /\ req'[q].list = req[q].list
         /\ req'[q].branch = req[q].branch /\ req'[q].wf = req[q].wf
         /\ req'[q].outcome = req[q].outcome /\ req'[q].joined = req[q].joined
         /\ \A p \in Requests \ {q} : req'[p] = req[p]
<1>1. req \in [Requests -> ReqRow] /\ req[q] \in ReqRow
  BY DEF HandoffInv, TypeOK
<1>2. req'[q] = [req[q] EXCEPT !.pc = pc] /\ \A p \in Requests \ {q} : req'[p] = req[p]
  BY <1>1 DEF Goto
<1> QED  BY <1>1, <1>2 DEF ReqRow

LEMMA Returns ==
  ASSUME HandoffInv, NEW q \in Requests, Return(q)
  PROVE  NoListing(req'[q]) /\ \A p \in Requests \ {q} : req'[p] = req[p]
<1>1. req \in [Requests -> ReqRow]
  BY DEF HandoffInv, TypeOK
<1> QED  BY <1>1 DEF Return, NoListing, Idle, AfterListing

\* Calls come when everything is quiet, and have listed nothing.
LEMMA BeginKeepsSpawned ==
  ASSUME HandoffInv, SpawnedInv, NEW q \in Requests, NEW e, NEW r, Begin(q, e, r),
         UNCHANGED <<run, branch, task>>, NoListing(r)
  PROVE  SpawnedInv'
<1>1. req' = [req EXCEPT ![q] = r] /\ plain' = (plain /\ Quiet) /\ req \in [Requests -> ReqRow]
  BY DEF Begin, HandoffInv, TypeOK
<1>2. req'[q] = r /\ \A p \in Requests \ {q} : req'[p] = req[p]
  BY <1>1
<1> SUFFICES ASSUME plain, Quiet PROVE SpawnedInv'
  BY <1>1 DEF SpawnedInv
<1>3. \A p \in Requests : StageAt(req[p])'
  BY <1>2, NoListingAt DEF Quiet, StageAt, NoListing, Completions
<1>4. run.active \in Parallel => Spawned(run.active)
  BY DEF SpawnedInv, Quiet, Entering, Completions
<1>5. (run.active \in Parallel => Spawned(run.active))'
  BY <1>4 DEF Spawned
<1>6. \E a \in Agents : HasTask(a)'
  BY DEF SpawnedInv, HasTask
<1> QED  BY <1>3, <1>5, <1>6 DEF SpawnedInv

LEMMA CallKeepsSpawned ==
  ASSUME HandoffInv, SpawnedInv, NEW q \in Requests, Call(q)
  PROVE  SpawnedInv'
<1>1. UNCHANGED <<run, branch, task>>
  BY Zenon DEF Call, CallStart, ReportRun, CallCancel, CallStepDone, CallReview, CallCard, CallBranchDone,
     CallView, rows, tasks
<1>2. ASSUME NEW a \in Agents, ReportRun(q, a)
      PROVE  SpawnedInv'
  <2> DEFINE r == [Idle EXCEPT !.kind = "settle", !.agent = a, !.copy = task[a],
                     !.pc = IF NotCompleted(task[a]) THEN "fail" ELSE "report"]
  <2>1. NoListing(r)
    BY DEF Idle, NoListing, Completions
  <2>2. Begin(q, a \in did, r)
    BY <1>2 DEF ReportRun
  <2> QED  BY <1>1, <2>1, <2>2, BeginKeepsSpawned
<1>3. ASSUME NEW a \in Agents, CallCancel(q, a)
      PROVE  SpawnedInv'
  <2> DEFINE r == [Idle EXCEPT !.kind = "cancel", !.pc = "persist", !.agent = a, !.copy = task[a]]
  <2>1. NoListing(r)
    BY DEF Idle, NoListing, Completions
  <2>2. Begin(q, FALSE, r)
    BY <1>3 DEF CallCancel
  <2> QED  BY <1>1, <2>1, <2>2, BeginKeepsSpawned
<1>4. ASSUME NEW a \in Agents, NEW o, CallStepDone(q, a, o)
      PROVE  SpawnedInv'
  <2> DEFINE r == [Idle EXCEPT !.kind = "done", !.pc = "read", !.agent = a,
                     !.copy = task[a], !.outcome = o]
  <2>1. NoListing(r)
    BY DEF Idle, NoListing
  <2> HIDE DEF r
  <2>2. \E e : Begin(q, e, r)
    BY <1>4 DEF CallStepDone, r
  <2> QED  BY <1>1, <2>1, <2>2, BeginKeepsSpawned
<1>5. ASSUME NEW a \in Agents, NEW o, CallReview(q, a, o)
      PROVE  SpawnedInv'
  <2> DEFINE r == [Idle EXCEPT !.kind = "review", !.pc = "read", !.agent = a,
                     !.copy = task[a], !.outcome = o]
  <2>1. NoListing(r)
    BY DEF Idle, NoListing
  <2> HIDE DEF r
  <2>2. \E e : Begin(q, e, r)
    BY <1>5 DEF CallReview, r
  <2> QED  BY <1>1, <2>1, <2>2, BeginKeepsSpawned
<1>6. ASSUME NEW a \in Agents, NEW s \in Steps, NEW o, CallCard(q, a, s, o)
      PROVE  SpawnedInv'
  <2> DEFINE r == [Idle EXCEPT !.kind = "review", !.pc = "read", !.agent = a,
                     !.copy = task[a], !.outcome = o, !.step = s, !.card = TRUE]
  <2>1. NoListing(r)
    BY DEF Idle, NoListing
  <2>2. Begin(q, run.active = s, r)
    BY <1>6 DEF CallCard
  <2> QED  BY <1>1, <2>1, <2>2, BeginKeepsSpawned
<1>7. ASSUME NEW b \in Branches, NEW o, CallBranchDone(q, b, o)
      PROVE  SpawnedInv'
  <2> DEFINE r == [Idle EXCEPT !.kind = "branch", !.pc = "check", !.branch = b, !.outcome = o]
  <2>1. NoListing(r)
    BY DEF Idle, NoListing, AfterListing
  <2>2. Begin(q, btask[b] = "open" /\ run.active = StageOf[b], r)
    BY <1>7 DEF CallBranchDone
  <2> QED  BY <1>1, <2>1, <2>2, BeginKeepsSpawned
<1>8. CASE CallView(q)
  <2> DEFINE r == [Idle EXCEPT !.kind = "view", !.pc = "reread", !.step = run.active]
  <2>1. NoListing(r)
    BY DEF Idle, NoListing, Completions
  <2>2. Begin(q, FALSE, r)
    BY <1>8 DEF CallView
  <2> QED  BY <1>1, <2>1, <2>2, BeginKeepsSpawned
<1>9. ASSUME NEW a \in Agents, CallStart(q, a)
      PROVE  SpawnedInv'
  <2> DEFINE r == [Idle EXCEPT !.kind = "start", !.pc = "start", !.agent = a, !.copy = task[a]]
  <2>1. NoListing(r)
    BY DEF Idle, NoListing, Completions
  <2>2. Begin(q, TRUE, r)
    BY <1>9 DEF CallStart
  <2> QED  BY <1>1, <2>1, <2>2, BeginKeepsSpawned
<1> QED  BY <1>2, <1>3, <1>4, <1>5, <1>6, <1>7, <1>8, <1>9 DEF Call

LEMMA TransitionKeepsSpawned ==
  ASSUME HandoffInv, PlainInv, SpawnedInv, [Next]_vars, NEW q \in Requests, Transition(q)
  PROVE  SpawnedInv'
<1>1. /\ req \in [Requests -> ReqRow] /\ req[q] \in ReqRow
      /\ req[q].kind \in Completions /\ req[q].kind # "none" /\ plain' = plain /\ branch' = branch
  BY DEF HandoffInv, TypeOK, Transition, ReadRun, SaveInstance, SaveRun, OpenNext, At,
     Completions, rows
<1>2. CASE ReadRun(q)
  <2>1. req[q].pc = "read" /\ run' = run /\ ~Entering(req[q])
    BY <1>2 DEF ReadRun, At, Entering, Between, rows
  <2>2. CASE Return(q)
    BY <1>1, <2>1, <2>2, Returns, OutsideStage
  <2>3. CASE Goto(q, "unbox") \/ Goto(q, "archive")
    <3>0. PICK pc \in {"unbox", "archive"} : Goto(q, pc)
      BY <2>3
    <3>1. NoListing(req'[q]) /\ \A p \in Requests \ {q} : req'[p] = req[p]
      <4>1. req'[q].pc \in {"unbox", "archive"} /\ \A p \in Requests \ {q} : req'[p] = req[p]
        BY <3>0, GoesTo
      <4> QED  BY <4>1 DEF NoListing, AfterListing
    <3> QED  BY <1>1, <2>1, <3>1, OutsideStage
  <2>4. CASE req' = [req EXCEPT ![q].wf = run, ![q].pc = "instance"]
    <3>1. /\ req'[q].pc = "instance" /\ req'[q].list = req[q].list /\ req'[q].branch = req[q].branch
          /\ req'[q].kind = req[q].kind /\ \A p \in Requests \ {q} : req'[p] = req[p]
      BY <1>1, <2>4 DEF ReqRow
    <3>2. req[q].pc \in AfterListing /\ req'[q].pc \in AfterListing
      BY <2>1, <3>1 DEF AfterListing
    <3> QED  BY <1>1, <2>1, <3>1, <3>2, OutsideStage
  <2> QED  BY <1>1, <1>2, <2>2, <2>3, <2>4 DEF ReadRun, Completions
<1>3. CASE SaveInstance(q)
  <2>1. req[q].pc = "instance" /\ run' = run /\ ~Entering(req[q]) /\ Goto(q, "run")
    BY <1>3 DEF SaveInstance, At, Entering, Between
  <2>2. /\ req'[q].pc = "run" /\ req'[q].list = req[q].list /\ req'[q].branch = req[q].branch
        /\ req'[q].kind = req[q].kind /\ \A p \in Requests \ {q} : req'[p] = req[p]
    BY <2>1, GoesTo
  <2>3. req[q].pc \in AfterListing /\ req'[q].pc \in AfterListing
    BY <2>1, <2>2 DEF AfterListing
  <2> QED  BY <1>1, <2>1, <2>2, <2>3, OutsideStage
<1>4. CASE SaveRun(q)
  <2>1. req[q].pc = "run" /\ ~Entering(req[q])
    BY <1>4 DEF SaveRun, At, Entering, Between
  <2> DEFINE s == req[q].wf.active
             o == req[q].outcome
             new == IF Target(s, o) = End THEN [status |-> StatusOf(o), active |-> NoStep]
                    ELSE [req[q].wf EXCEPT !.active = Target(s, o)]
  <2>2. CASE ~Matches(s, o)
    <3>1. Return(q) /\ run' = run
      BY <1>4, <2>2 DEF SaveRun
    <3> QED  BY <1>1, <2>1, <3>1, Returns, OutsideStage
  <2>3. CASE Matches(s, o)
    <3>1. /\ run' = new
          /\ req' = [req EXCEPT ![q].wf = new,
                       ![q].pc = IF Target(s, o) = End THEN AfterTransition(q) ELSE "next"]
      BY <1>4, <2>3 DEF SaveRun
    <3>2. /\ req'[q].pc = IF Target(s, o) = End THEN AfterTransition(q) ELSE "next"
          /\ req'[q].kind = req[q].kind /\ \A p \in Requests \ {q} : req'[p] = req[p]
      <4> HIDE DEF new
      <4> QED  BY <1>1, <3>1 DEF ReqRow
    <3>3. AfterTransition(q) \in {"unbox", "archive", "place", "close"}
      BY DEF AfterTransition
    <3>4. NoListing(req'[q])
      BY <3>2, <3>3 DEF NoListing, AfterListing
    <3>5. CASE Target(s, o) = End
      <4>1. run'.active = NoStep
        BY <3>1, <3>5
      <4> QED  BY <1>1, <2>1, <3>2, <3>4, <4>1, OutsideStage
    <3>6. CASE Target(s, o) # End
      <4>1. Entering(req'[q])
        BY <1>1, <3>2, <3>6 DEF Entering, Between
      <4> QED  BY <1>1, <3>2, <3>4, <4>1, NoListingAt, SpawnedStep DEF NoListing, StageAt
    <3> QED  BY <3>5, <3>6
  <2> QED  BY <2>2, <2>3
<1>5. CASE OpenNext(q)
  <2>1. req[q].pc = "next" /\ run' = run /\ Goto(q, AfterTransition(q))
    BY <1>5 DEF OpenNext, At
  <2>2. AfterTransition(q) \in {"unbox", "archive", "place"}
    BY <2>1 DEF AfterTransition
  <2>3. /\ req'[q].pc = AfterTransition(q) /\ req'[q].wf = req[q].wf
        /\ req'[q].kind = req[q].kind /\ \A p \in Requests \ {q} : req'[p] = req[p]
    BY <2>1, GoesTo
  <2>4. NoListing(req'[q])
    BY <2>2, <2>3 DEF NoListing, AfterListing
  <2>5. plain => req[q].wf.status # "none"
    BY <1>1, <2>1, PlainHandler DEF InOrder, PlaceInv, CompletionAt, Between
  <2>6. plain => Entering(req'[q])
    BY <1>1, <2>2, <2>3, <2>5 DEF Entering, Between
  <2> QED  BY <1>1, <2>3, <2>4, <2>6, NoListingAt, SpawnedStep DEF NoListing, StageAt
<1> QED  BY <1>2, <1>3, <1>4, <1>5 DEF Transition

\* The same, when the handler may be entering a stage and goes on doing so.
LEMMA EnteringStep ==
  ASSUME HandoffInv, PlainInv, SpawnedInv, [Next]_vars, NEW q \in Requests,
         req[q].kind # "none", plain' = plain, \A p \in Requests \ {q} : req'[p] = req[p],
         plain => run'.active \in {run.active, NoStep},
         \A b \in Branches : branch[b] # "none" => branch'[b] # "none",
         NoListing(req'[q]),
         plain /\ Entering(req[q]) => Entering(req'[q]) \/ run'.active \notin Parallel
  PROVE  SpawnedInv'
<1>1. CASE plain /\ Entering(req[q])
  <2>1. StageAt(req[q])'
    BY DEF NoListing, StageAt, Completions
  <2> QED  BY <1>1, <2>1, SpawnedStep
<1>2. CASE plain => ~Entering(req[q])
  BY <1>2, OutsideStage
<1> QED  BY <1>1, <1>2

LEMMA CheckListKeepSpawned ==
  ASSUME HandoffInv, PlainInv, SpawnedInv, [Next]_vars, NEW q \in Requests,
         CheckStage(q) \/ ListBranches(q)
  PROVE  SpawnedInv'
<1>1. /\ req \in [Requests -> ReqRow] /\ req[q] \in ReqRow
      /\ req[q].kind = "branch" /\ plain' = plain /\ branch' = branch /\ run' = run
  BY DEF HandoffInv, TypeOK, CheckStage, ListBranches, At, rows
<1>2. CASE CheckStage(q)
  <2>1. req[q].pc = "check" /\ ~Entering(req[q])
    BY <1>2 DEF CheckStage, At, Entering, Between
  <2>2. CASE Return(q)
    BY <1>1, <2>1, <2>2, Returns, OutsideStage
  <2>3. CASE Goto(q, "list")
    <3>1. req'[q].pc = "list" /\ \A p \in Requests \ {q} : req'[p] = req[p]
      BY <2>3, GoesTo
    <3>2. NoListing(req'[q])
      BY <3>1 DEF NoListing, AfterListing
    <3> QED  BY <1>1, <2>1, <3>1, <3>2, OutsideStage
  <2> QED  BY <1>2, <2>2, <2>3 DEF CheckStage
<1>3. CASE ListBranches(q)
  <2> DEFINE listed == Listing(StageOf[req[q].branch])
  <2>1. req[q].pc = "list" /\ ~Entering(req[q])
    BY <1>3 DEF ListBranches, At, Entering, Between
  <2>2. req' = [req EXCEPT ![q].list = listed, ![q].pc = "save"]
    BY <1>3 DEF ListBranches
  <2>3. \A b \in InStage(StageOf[req[q].branch]) : listed[b] = branch[b]
    BY DEF Listing, InStage
  <2> HIDE DEF listed
  <2>4. /\ req'[q].list = listed /\ req'[q].pc = "save" /\ req'[q].kind = "branch"
        /\ req'[q].branch = req[q].branch /\ \A p \in Requests \ {q} : req'[p] = req[p]
    BY <1>1, <2>2 DEF ReqRow
  <2>5. plain => (run'.active \in Parallel => Spawned(run.active)')
    BY <1>1, <2>1, SpawnedStays
  <2>6. ASSUME plain PROVE StageAt(req[q])'
    <3>1. run.active = StageOf[req[q].branch]
      BY <1>1, <2>1, <2>6, PlainHandler DEF InOrder, PlaceInv, BranchAt
    <3>2. req[q].branch \in Branches
      BY <1>1 DEF HandoffInv, Sound, GoodReq
    <3>3. Spawned(run.active)'
      BY <1>1, <2>5, <2>6, <3>1, <3>2
    <3>4. \A b \in InStage(StageOf[req[q].branch]) : listed[b] # "none"
      BY <1>1, <2>3, <3>1, <3>3 DEF Spawned
    <3> QED  BY <2>4, <3>4 DEF StageAt
  <2> QED  BY <1>1, <2>4, <2>5, <2>6, SpawnedStep
<1> QED  BY <1>2, <1>3

LEMMA SaveBranchKeepsSpawned ==
  ASSUME HandoffInv, PlainInv, SpawnedInv, [Next]_vars, NEW q \in Requests,
         SaveBranch(q) \/ SkipOthers(q)
  PROVE  SpawnedInv'
<1>1. /\ req \in [Requests -> ReqRow] /\ req[q] \in ReqRow /\ branch \in [Branches -> BranchStatus]
      /\ req[q].kind = "branch" /\ plain' = plain /\ run' = run
      /\ req[q].pc \in {"save", "skip"}
  BY DEF HandoffInv, TypeOK, SaveBranch, SkipOthers, At
<1>2. ~Entering(req[q])
  BY <1>1 DEF Entering, Between
<1>3. req[q].pc \in AfterListing
  BY <1>1 DEF AfterListing
<1>4. CASE SaveBranch(q)
  <2>1. CASE Return(q) /\ branch' = branch
    BY <1>1, <1>2, <2>1, Returns, OutsideStage
  <2>2. CASE ~(Return(q) /\ branch' = branch)
    <3> DEFINE b == req[q].branch
               o == req[q].outcome
               last == LastOfStage(q)
               any == StageOf[b] \in AnyJoin
               j == o # Failed /\ last /\ ~any
               pc == IF o = Failed \/ (~any /\ ~last) THEN "archive" ELSE IF any THEN "skip" ELSE "read"
    <3>1. branch' = [branch EXCEPT ![b] = StatusOf(o)] /\ req' = [req EXCEPT ![q].joined = j, ![q].pc = pc]
      BY <1>4, <2>2 DEF SaveBranch
    <3>2. pc \in {"archive", "skip", "read"}
      OBVIOUS
    <3>3. \A x \in Branches : branch[x] # "none" => branch'[x] # "none"
      BY <1>1, <3>1 DEF StatusOf
    <3> HIDE DEF pc, j
    <3>4. /\ req'[q].list = req[q].list /\ req'[q].branch = req[q].branch /\ req'[q].pc = pc
          /\ req'[q].kind = req[q].kind /\ \A p \in Requests \ {q} : req'[p] = req[p]
      BY <1>1, <3>1 DEF ReqRow
    <3>5. CASE pc = "archive"
      <4>1. NoListing(req'[q])
        BY <3>4, <3>5 DEF NoListing, AfterListing
      <4> QED  BY <1>1, <1>2, <3>3, <3>4, <4>1, OutsideStage
    <3>6. CASE pc \in {"skip", "read"}
      <4>1. req'[q].pc \in AfterListing
        BY <3>4, <3>6 DEF AfterListing
      <4> QED  BY <1>1, <1>2, <1>3, <3>3, <3>4, <4>1, OutsideStage
    <3> QED  BY <3>2, <3>5, <3>6
  <2> QED  BY <2>1, <2>2
<1>5. CASE SkipOthers(q)
  <2>1. /\ branch' = [b \in Branches |-> IF b \in Others(q) /\ req[q].list[b] # "completed"
                                           THEN "skipped" ELSE branch[b]]
        /\ req' = [req EXCEPT ![q].joined = TRUE, ![q].pc = "read"]
    BY <1>5 DEF SkipOthers
  <2>2. \A x \in Branches : branch[x] # "none" => branch'[x] # "none"
    BY <2>1
  <2>3. /\ req'[q].list = req[q].list /\ req'[q].branch = req[q].branch /\ req'[q].pc = "read"
        /\ req'[q].kind = req[q].kind /\ \A p \in Requests \ {q} : req'[p] = req[p]
    BY <1>1, <2>1 DEF ReqRow
  <2>4. req'[q].pc \in AfterListing
    BY <2>3 DEF AfterListing
  <2> QED  BY <1>1, <1>2, <1>3, <2>2, <2>3, <2>4, OutsideStage
<1> QED  BY <1>4, <1>5

LEMMA LeaveKeepsSpawned ==
  ASSUME HandoffInv, PlainInv, SpawnedInv, [Next]_vars, NEW q \in Requests,
         ArchiveBranchTask(q) \/ FindParent(q) \/ BlockRoot(q)
  PROVE  SpawnedInv'
<1>1. /\ req \in [Requests -> ReqRow] /\ req[q] \in ReqRow
      /\ req[q].kind = "branch" /\ plain' = plain /\ run' = run /\ branch' = branch
  BY DEF HandoffInv, TypeOK, ArchiveBranchTask, FindParent, BlockRoot, At, rows
<1>2. plain => CompletionAt(req[q]) /\ BranchAt(req[q])
  BY <1>1, PlainHandler DEF InOrder, PlaceInv, Completions
<1>3. CASE ArchiveBranchTask(q)
  <2>1. req[q].pc = "archive"
    BY <1>3 DEF ArchiveBranchTask, At
  <2>2. CASE Goto(q, "parent")
    <3>1. req'[q].pc = "parent" /\ \A p \in Requests \ {q} : req'[p] = req[p]
      BY <2>2, GoesTo
    <3>2. req'[q].outcome = req[q].outcome /\ req'[q].kind = req[q].kind
      BY <2>2, GoesTo
    <3>3. NoListing(req'[q])
      BY <3>1 DEF NoListing, AfterListing
    <3>4. plain /\ Entering(req[q]) => Entering(req'[q])
      BY <1>2, <2>1, <3>1, <3>2 DEF Entering, Between, BranchAt
    <3> QED  BY <1>1, <3>1, <3>3, <3>4, EnteringStep
  <2>3. CASE ~Goto(q, "parent")
    <3>1. Return(q) /\ ~(req[q].outcome = Failed \/ (req[q].joined /\ req[q].wf.status # "none"))
      BY <1>3, <2>3 DEF ArchiveBranchTask
    <3>2. plain => ~Entering(req[q])
      BY <1>2, <2>1, <3>1 DEF Entering, Between, BranchAt
    <3> QED  BY <1>1, <3>1, <3>2, Returns, OutsideStage
  <2> QED  BY <2>2, <2>3
<1>4. CASE FindParent(q)
  <2>1. req[q].pc = "parent"
    BY <1>4 DEF FindParent, At
  <2>2. CASE plain
    <3>1. \E a \in Agents : HasTask(a)
      BY <2>2 DEF SpawnedInv
    <3> DEFINE pc == CASE req[q].outcome = Failed -> "block" [] Ended(q) -> "close" [] OTHER -> "place"
    <3>2. PICK a \in Agents : req' = [req EXCEPT ![q] = [@ EXCEPT !.agent = a, !.copy = task[a], !.pc = pc]]
      BY <1>4, <3>1 DEF FindParent
    <3>3. pc \in {"block", "close", "place"}
      <4>1. CASE req[q].outcome = Failed /\ Ended(q)
        BY <4>1
      <4>2. CASE req[q].outcome = Failed /\ ~Ended(q)
        BY <4>2
      <4>3. CASE req[q].outcome # Failed /\ Ended(q)
        BY <4>3
      <4>4. CASE req[q].outcome # Failed /\ ~Ended(q)
        BY <4>4
      <4> QED  BY <4>1, <4>2, <4>3, <4>4
    <3>4. req[q].outcome # Failed => pc # "block"
      <4>1. CASE Ended(q)
        BY <4>1
      <4>2. CASE ~Ended(q)
        BY <4>2
      <4> QED  BY <4>1, <4>2
    <3> HIDE DEF pc
    <3>5. req'[q].pc = pc /\ req'[q].kind = "branch" /\ \A p \in Requests \ {q} : req'[p] = req[p]
      BY <1>1, <3>2 DEF ReqRow
    <3>6. NoListing(req'[q])
      BY <3>3, <3>5 DEF NoListing, AfterListing
    <3>7. Entering(req[q]) => Entering(req'[q])
      BY <2>1, <3>3, <3>4, <3>5 DEF Entering, Between, Completions
    <3> QED  BY <1>1, <3>5, <3>6, <3>7, EnteringStep
  <2> QED  BY <1>1, <2>2 DEF SpawnedInv
<1>5. CASE BlockRoot(q)
  <2>1. req[q].pc = "block" /\ ~Entering(req[q]) /\ Return(q)
    BY <1>5 DEF BlockRoot, At, Entering, Between
  <2> QED  BY <1>1, <2>1, Returns, OutsideStage
<1> QED  BY <1>3, <1>4, <1>5

LEMMA MoveOnKeepsSpawned ==
  ASSUME HandoffInv, PlainInv, SpawnedInv, [Next]_vars, NEW q \in Requests,
         \/ Unbox(q) \/ CloseTask(q) \/ HandToAgent(q) \/ DropOld(q) \/ QueueRun(q)
         \/ HandToPerson(q) \/ Notify(q)
  PROVE  SpawnedInv'
<1>1. /\ req \in [Requests -> ReqRow] /\ req[q] \in ReqRow
      /\ req[q].kind \in Completions \cup {"view"} /\ req[q].kind # "none"
      /\ plain' = plain /\ run' = run /\ branch' = branch
  BY DEF HandoffInv, TypeOK, Unbox, CloseTask, HandToAgent, DropOld, QueueRun, HandToPerson,
     Notify, At, rows, Completions
<1>2. plain => InOrder(q)
  BY <1>1, PlainHandler
<1>3. ASSUME NEW pc \in {"close", "place", "queue", "drop", "notify"}, Goto(q, pc)
      PROVE  /\ NoListing(req'[q]) /\ \A p \in Requests \ {q} : req'[p] = req[p]
             /\ req'[q].pc = pc /\ req'[q].kind = req[q].kind
  <2>1. /\ req'[q].pc = pc /\ req'[q].kind = req[q].kind /\ \A p \in Requests \ {q} : req'[p] = req[p]
    BY <1>3, GoesTo
  <2> QED  BY <2>1 DEF NoListing, AfterListing
<1>4. CASE Unbox(q)
  <2>1. req[q].pc = "unbox" /\ req[q].kind \in Completions
    BY <1>4 DEF Unbox, At, Completions
  <2>2. CASE req[q].wf.status = "none"
    <3>1. Return(q) /\ ~Entering(req[q])
      BY <1>4, <2>1, <2>2 DEF Unbox, Entering, Between
    <3> QED  BY <1>1, <3>1, Returns, OutsideStage
  <2>3. CASE req[q].wf.status # "none"
    <3>1. PICK pc \in {"close", "place"} : Goto(q, pc)
      BY <1>4, <2>3 DEF Unbox
    <3>2. /\ NoListing(req'[q]) /\ \A p \in Requests \ {q} : req'[p] = req[p]
          /\ req'[q].pc = pc /\ req'[q].kind = req[q].kind
      BY <1>3, <3>1
    <3>3. Entering(req'[q])
      BY <2>1, <3>1, <3>2 DEF Entering, Between
    <3> QED  BY <1>1, <3>2, <3>3, EnteringStep
  <2> QED  BY <2>2, <2>3
<1>5. CASE CloseTask(q)
  <2>1. req[q].pc = "close" /\ req[q].kind \in Completions /\ Return(q)
    BY <1>5 DEF CloseTask, At
  <2>2. plain => run.active \notin Parallel
    BY <1>2, <2>1 DEF InOrder, PlaceInv, CompletionAt, Completions
  <2> QED  BY <1>1, <2>1, <2>2, Returns, EnteringStep
<1>6. CASE HandToAgent(q) \/ HandToPerson(q)
  <2>1. req[q].pc = "place" /\ req[q].kind \in Completions /\ req[q].wf.active \notin Parallel
    BY <1>6 DEF HandToAgent, HandToPerson, At
  <2>2. plain => run.active \notin Parallel
    BY <1>2, <2>1 DEF InOrder, PlaceInv, CompletionAt, Between, Completions
  <2>3. CASE Return(q)
    BY <1>1, <2>2, <2>3, Returns, EnteringStep
  <2>4. CASE ~Return(q)
    <3>1. PICK pc \in {"queue", "drop", "notify"} : Goto(q, pc)
      BY <1>6, <2>4 DEF HandToAgent, HandToPerson, Persist
    <3>2. NoListing(req'[q]) /\ \A p \in Requests \ {q} : req'[p] = req[p]
      BY <1>3, <3>1
    <3> QED  BY <1>1, <2>2, <3>2, EnteringStep
  <2> QED  BY <2>3, <2>4
<1>7. CASE DropOld(q)
  <2>1. req[q].pc = "drop" /\ ~Entering(req[q])
    BY <1>7 DEF DropOld, At, Entering, Between
  <2>2. CASE Return(q)
    BY <1>1, <2>1, <2>2, Returns, OutsideStage
  <2>3. CASE Goto(q, "queue")
    <3>1. NoListing(req'[q]) /\ \A p \in Requests \ {q} : req'[p] = req[p]
      BY <1>3, <2>3
    <3> QED  BY <1>1, <2>1, <3>1, OutsideStage
  <2> QED  BY <1>7, <2>2, <2>3 DEF DropOld
<1>8. CASE QueueRun(q) \/ Notify(q)
  <2>1. req[q].pc \in {"queue", "notify"} /\ ~Entering(req[q])
    BY <1>8 DEF QueueRun, Notify, At, Entering, Between
  <2>2. NoListing(req'[q]) /\ \A p \in Requests \ {q} : req'[p] = req[p]
    <3>1. CASE Return(q)
      BY <3>1, Returns
    <3>2. CASE ~Return(q)
      <4>1. PICK a, c : req' = [req EXCEPT ![q] = [@ EXCEPT !.pc = "enqueue", !.agent = a, !.copy = c]]
        BY <1>8, <3>2 DEF QueueRun, Notify
      <4>2. req'[q].pc = "enqueue" /\ \A p \in Requests \ {q} : req'[p] = req[p]
        BY <1>1, <4>1 DEF ReqRow
      <4> QED  BY <4>2 DEF NoListing, AfterListing
    <3> QED  BY <3>1, <3>2
  <2> QED  BY <1>1, <2>1, <2>2, OutsideStage
<1> QED  BY <1>4, <1>5, <1>6, <1>7, <1>8

\* The stage's branches are created by whoever entered it.
LEMMA EnterKeepsSpawned ==
  ASSUME HandoffInv, PlainInv, SpawnedInv, [Next]_vars, NEW q \in Requests,
         \/ EnterStage(q) \/ EndSpawning(q) \/ SpawnRow(q)
         \/ \E b \in Branches : SpawnTask(q, b)
  PROVE  SpawnedInv'
<1>1. /\ req \in [Requests -> ReqRow] /\ req[q] \in ReqRow /\ branch \in [Branches -> BranchStatus]
      /\ req[q].kind \in Completions /\ req[q].kind # "none"
      /\ plain' = plain /\ run' = run
  BY DEF HandoffInv, TypeOK, EnterStage, EndSpawning, SpawnRow, SpawnTask, At, rows, Completions
<1>2. plain => CompletionAt(req[q]) /\ StageAt(req[q])
  BY <1>1, PlainHandler DEF InOrder, PlaceInv, SpawnedInv
<1>3. CASE EnterStage(q)
  <2>1. req[q].pc = "place" /\ branch' = branch
    BY <1>3 DEF EnterStage, At, rows
  <2> SUFFICES ASSUME plain PROVE SpawnedInv'
    BY <1>1 DEF SpawnedInv
  <2>2. HasTask(req[q].agent) /\ req[q].wf = run
    BY <1>2, <2>1 DEF CompletionAt, Between
  <2> DEFINE listed == Listing(req[q].wf.active)
  <2>3. \A b \in Branches : listed[b] \in {branch[b], "none"}
    BY DEF Listing
  <2>4. req' = [req EXCEPT ![q].pc = "spawn", ![q].list = listed]
    BY <1>3, <2>2 DEF EnterStage
  <2> HIDE DEF listed
  <2>5. /\ req'[q].list = listed /\ req'[q].pc = "spawn" /\ req'[q].kind = req[q].kind
        /\ req'[q].wf = req[q].wf /\ \A p \in Requests \ {q} : req'[p] = req[p]
    BY <1>1, <2>4 DEF ReqRow
  <2>6. StageAt(req[q])'
    BY <1>1, <2>1, <2>2, <2>3, <2>5 DEF StageAt, AfterListing
  <2>7. Entering(req'[q])
    BY <1>1, <2>5 DEF Entering
  <2> QED  BY <1>1, <2>5, <2>6, <2>7, SpawnedStep
<1>4. ASSUME NEW b \in Branches, SpawnTask(q, b) PROVE SpawnedInv'
  <2>1. /\ req[q].pc = "spawn" /\ branch' = branch
        /\ req' = [req EXCEPT ![q].branch = b, ![q].pc = "row"]
    BY <1>4 DEF SpawnTask, At, rows
  <2>2. /\ req'[q].list = req[q].list /\ req'[q].pc = "row" /\ req'[q].kind = req[q].kind
        /\ req'[q].wf = req[q].wf /\ \A p \in Requests \ {q} : req'[p] = req[p]
    BY <1>1, <2>1 DEF ReqRow
  <2>3. plain => StageAt(req[q])'
    BY <1>1, <1>2, <2>1, <2>2 DEF StageAt, AfterListing
  <2>4. Entering(req'[q])
    BY <1>1, <2>2 DEF Entering
  <2> QED  BY <1>1, <2>2, <2>3, <2>4, SpawnedStep
<1>5. CASE SpawnRow(q)
  <2> DEFINE b == req[q].branch
             listed == [req[q].list EXCEPT ![b] = "running"]
  <2>1. /\ req[q].pc = "row" /\ branch' = [branch EXCEPT ![b] = "running"]
        /\ req' = [req EXCEPT ![q].list[b] = "running", ![q].pc = "spawn"]
    BY <1>5 DEF SpawnRow, At
  <2>2. /\ req'[q].list = listed /\ req'[q].pc = "spawn" /\ req'[q].kind = req[q].kind
        /\ req'[q].wf = req[q].wf /\ \A p \in Requests \ {q} : req'[p] = req[p]
    BY <1>1, <2>1 DEF ReqRow
  <2>3. \A x \in Branches : listed[x] = IF x = b THEN "running" ELSE req[q].list[x]
    BY <1>1 DEF ReqRow
  <2>4. \A x \in Branches : branch'[x] = IF x = b THEN "running" ELSE branch[x]
    BY <1>1, <2>1
  <2> HIDE DEF listed
  <2>5. plain => StageAt(req[q])'
    BY <1>1, <1>2, <2>1, <2>2, <2>3, <2>4 DEF StageAt, AfterListing
  <2>6. Entering(req'[q])
    BY <1>1, <2>2 DEF Entering
  <2> QED  BY <1>1, <2>2, <2>5, <2>6, SpawnedStep
<1>6. CASE EndSpawning(q)
  <2>1. /\ req[q].pc = "spawn" /\ branch' = branch /\ Return(q)
        /\ \A b \in InStage(req[q].wf.active) : req[q].list[b] # "none"
    BY <1>6 DEF EndSpawning, At, rows
  <2>2. NoListing(req'[q]) /\ \A p \in Requests \ {q} : req'[p] = req[p]
    BY <2>1, Returns
  <2>3. StageAt(req[q])'
    BY <2>2 DEF NoListing, StageAt, Completions
  <2>4. InStage(run.active) \subseteq Branches
    BY DEF InStage
  <2>5. plain => Spawned(run.active)
    BY <1>1, <1>2, <2>1, <2>4 DEF StageAt, Spawned
  <2>6. plain => Spawned(run.active)'
    BY <1>1, <2>1, <2>5 DEF Spawned
  <2> QED  BY <1>1, <2>2, <2>3, <2>6, SpawnedStep
<1> QED  BY <1>3, <1>4, <1>5, <1>6

LEMMA OthersKeepSpawned ==
  ASSUME HandoffInv, PlainInv, SpawnedInv, [Next]_vars, NEW q \in Requests,
         Settle(q) \/ Cancel(q) \/ View(q)
  PROVE  SpawnedInv'
<1>1. /\ req \in [Requests -> ReqRow] /\ req[q] \in ReqRow
      /\ req[q].kind \in {"settle", "cancel", "view"} /\ req[q].kind # "none"
      /\ plain' = plain /\ branch' = branch
  BY Zenon DEF HandoffInv, TypeOK, Settle, FailTask, EndRun, Cancel, CancelTask, ClearInbox,
     ReadRunToCancel, CancelWorkflow, CancelStep, CancelRuns, View, RereadRun, ResaveRun,
     FindTask, MoveTask, At, rows
<1>2. ~Entering(req[q])
  BY <1>1 DEF Entering, Completions
<1>3. plain => run'.active \in {run.active, NoStep}
  <2>1. CASE ResaveRun(q)
    <3>1. plain => req[q].wf = run
      BY <1>1, <2>1, PlainHandler DEF ResaveRun, At, InOrder, PlaceInv, ViewAt
    <3> QED  BY <2>1, <3>1 DEF ResaveRun
  <2>2. CASE CancelWorkflow(q)
    BY <2>2 DEF CancelWorkflow
  <2>3. CASE ~ResaveRun(q) /\ ~CancelWorkflow(q)
    <3>1. run' = run
      BY <2>3, Zenon DEF Settle, FailTask, EndRun, Cancel, CancelTask, ClearInbox,
         ReadRunToCancel, CancelStep, CancelRuns, View, RereadRun,
         FindTask, MoveTask, rows
    <3> QED  BY <3>1
  <2> QED  BY <2>1, <2>2, <2>3
<1>4. req'[q].kind \in {"none", req[q].kind} /\ \A p \in Requests \ {q} : req'[p] = req[p]
  <2>1. CASE Return(q)
    BY <1>1, <2>1 DEF Return, Idle
  <2>2. ASSUME NEW pc, Goto(q, pc) PROVE req'[q].kind = req[q].kind /\ \A p \in Requests \ {q} : req'[p] = req[p]
    BY <2>2, GoesTo
  <2>3. CASE ReadRunToCancel(q)
    <3>1. CASE req' = [req EXCEPT ![q].wf = run, ![q].pc = "cancelRun"]
      BY <1>1, <3>1 DEF ReqRow
    <3> QED  BY <2>2, <2>3, <3>1 DEF ReadRunToCancel
  <2>4. CASE RereadRun(q)
    BY <1>1, <2>4 DEF RereadRun, ReqRow
  <2>5. CASE FindTask(q)
    <3>1. ASSUME NEW a, NEW c, req' = [req EXCEPT ![q] = [@ EXCEPT !.agent = a, !.pc = "move", !.copy = c]]
          PROVE  req'[q].kind = req[q].kind /\ \A p \in Requests \ {q} : req'[p] = req[p]
      BY <1>1, <3>1 DEF ReqRow
    <3> QED  BY <2>1, <2>5, <3>1 DEF FindTask
  <2>6. CASE MoveTask(q)
    BY <2>1, <2>2, <2>6 DEF MoveTask
  <2>7. CASE Settle(q) \/ (Cancel(q) /\ ~ReadRunToCancel(q)) \/ ResaveRun(q)
    BY <2>1, <2>2, <2>7 DEF Settle, FailTask, EndRun, Cancel, CancelTask, ClearInbox,
       CancelWorkflow, CancelStep, CancelRuns, ResaveRun, Persist
  <2> QED  BY <2>3, <2>4, <2>5, <2>6, <2>7 DEF View
<1>5. NoListing(req'[q])
  BY <1>1, <1>4 DEF NoListing, Completions
<1> QED  BY <1>1, <1>2, <1>3, <1>4, <1>5, OutsideStage

\* A start, or the enqueue at the end of a handover.
LEMMA StartKeepsSpawned ==
  ASSUME HandoffInv, PlainInv, SpawnedInv, [Next]_vars, NEW q \in Requests, Start(q)
  PROVE  SpawnedInv'
<1>1. req[q].kind # "none" /\ run' = run /\ branch' = branch /\ ~Entering(req[q])
  BY DEF Start, StartTask, EnqueueRun, EnqueueUndone, StartStrands, At, Entering, Between,
     Completions, rows
<1>2. NoListing(req'[q]) /\ \A p \in Requests \ {q} : req'[p] = req[p]
  <2>1. CASE Return(q)
    BY <2>1, Returns
  <2>2. CASE Goto(q, "enqueue")
    <3>1. req'[q].pc = "enqueue" /\ \A p \in Requests \ {q} : req'[p] = req[p]
      BY <2>2, GoesTo
    <3> QED  BY <3>1 DEF NoListing, AfterListing
  <2> QED  BY <2>1, <2>2 DEF Start, StartTask, EnqueueRun, EnqueueUndone, StartStrands, Persist
<1>3. CASE StartStrands(q)
  BY <1>3 DEF StartStrands, SpawnedInv
<1>4. CASE plain' = plain
  BY <1>1, <1>2, <1>4, OutsideStage
<1> QED  BY <1>3, <1>4 DEF Start, StartTask, EnqueueRun, EnqueueUndone

LEMMA NextKeepsSpawned ==
  ASSUME HandoffInv, PlainInv, SpawnedInv, [Next]_vars
  PROVE  SpawnedInv'
<1>1. ASSUME UNCHANGED <<run, branch, req>>, plain' => plain
      PROVE  SpawnedInv'
  <2> SUFFICES ASSUME plain PROVE SpawnedInv'
    BY <1>1 DEF SpawnedInv
  <2>1. \E a \in Agents : HasTask(a)'
    BY RecordRemains DEF SpawnedInv
  <2>2. \A p \in Requests : StageAt(req[p])'
    BY <1>1 DEF SpawnedInv, StageAt
  <2>3. run.active \in Parallel /\ (\A p \in Requests : ~Entering(req[p])) => Spawned(run.active)'
    BY <1>1 DEF SpawnedInv, Spawned
  <2> QED  BY <1>1, <2>1, <2>2, <2>3 DEF SpawnedInv, Entering, Between
<1>2. CASE UNCHANGED vars \/ RunStep \/ \E b \in Branches : EndBranchRun(b)
  <2>1. UNCHANGED <<run, branch, req>>
    BY <1>2, Zenon DEF vars, rows, RunStep, ClaimRun, CancelEnded, EndBranchRun
  <2>2. plain' => plain
    BY <1>2, Zenon DEF vars, RunStep, ClaimRun, CancelEnded, EndBranchRun
  <2> QED  BY <1>1, <2>1, <2>2
<1>3. CASE Restart
  BY <1>3 DEF Restart, SpawnedInv
<1>4. ASSUME NEW q \in Requests,
             \/ Call(q) \/ Start(q) \/ Transition(q) \/ Join(q) \/ Follow(q) \/ Settle(q)
             \/ Cancel(q) \/ View(q)
      PROVE  SpawnedInv'
  <2>1. CASE Call(q)
    BY <2>1, CallKeepsSpawned
  <2>2. CASE Transition(q)
    BY <2>2, TransitionKeepsSpawned
  <2>3. CASE Join(q)
    BY <2>3, CheckListKeepSpawned, SaveBranchKeepsSpawned, LeaveKeepsSpawned DEF Join
  <2>4. CASE Follow(q)
    BY <2>4, MoveOnKeepsSpawned, EnterKeepsSpawned DEF Follow
  <2>5. CASE Settle(q) \/ Cancel(q) \/ View(q)
    BY <2>5, OthersKeepSpawned
  <2>6. CASE Start(q)
    BY <2>6, StartKeepsSpawned
  <2> QED  BY <1>4, <2>1, <2>2, <2>3, <2>4, <2>5, <2>6
<1> QED  BY <1>2, <1>3, <1>4 DEF Next

\* Where the first step is an agent's and not a stage, and as long as no
\* handlers overlapped and none was cut short, the branches leave a stage with
\* join policy "all" only when all of its branches have been completed: no row
\* of the stage is missing from the listing that decides
\* (CompleteBranchAndMaybeAdvance, store.go:1329; activateParallelWorkflowStep,
\* runtime_workflow_handlers.go:1322).
THEOREM StagesAreComplete ==
  ASSUME StartStep \notin Parallel, ActorOf[StartStep] \in Agents
  PROVE  Spec => []JoinWaitsForAll
<1>1. Init => SpawnedInv
  <2> SUFFICES ASSUME Init PROVE SpawnedInv
    OBVIOUS
  <2>1. HasTask(ActorOf[StartStep])
    BY DEF Init, HasTask
  <2>2. \A q \in Requests : req[q] = Idle
    BY DEF Init
  <2>3. \A q \in Requests : StageAt(req[q])
    BY <2>2 DEF StageAt, Idle, Completions
  <2> QED  BY <2>1, <2>3 DEF Init, SpawnedInv
<1>2. HandoffInv /\ PlainInv /\ SpawnedInv /\ [Next]_vars => SpawnedInv'
  BY NextKeepsSpawned
<1>3. HandoffInv /\ SpawnedInv => JoinWaitsForAll
  <2> SUFFICES ASSUME HandoffInv, SpawnedInv, plain, NEW q \in Requests, Leaves(q),
                      NEW b \in InStage(StageOf[req[q].branch])
               PROVE  b \in done
    BY DEF JoinWaitsForAll
  <2>1. /\ req[q].kind = "branch" /\ req[q].pc = "run"
        /\ StageOf[req[q].branch] \notin AnyJoin
    BY DEF Leaves, At
  <2>2. req[q].list[b] # "none" /\ b \in Branches
    BY <2>1 DEF SpawnedInv, StageAt, AfterListing, InStage
  <2>3. ListedIn(done, req[q])
    BY ReqSound DEF Sound
  <2> QED  BY <2>1, <2>2, <2>3 DEF ListedIn
<1> QED  BY <1>1, <1>2, <1>3, PlainInvHolds, HandoffInvHolds, PTL DEF Spec

=============================================================================
