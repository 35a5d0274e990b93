--------------------------- MODULE WorkflowCourse ---------------------------
(***************************************************************************)
(* What the workflow engine promises of one run, whatever its handlers do: *)
(* completed steps are recorded, and the run is moved along the edge of a  *)
(* recorded outcome.  In order, that is as long as handlers do not overlap *)
(* and none is cut short, only the active step completes, the run moves on *)
(* from there, and one that has been completed or cancelled stays.  Out of *)
(* order the run may be set back, or moved once more from a step it has    *)
(* left, but only to a place that the recorded outcomes lead to.           *)
(***************************************************************************)
CONSTANTS Steps, StartStep, NoStep, Outcomes, Failed, Edge, End, NoMatch

VARIABLES
  position,   \* status and active step
  log,        \* the outcomes recorded, with their steps
  orderly

vars == <<position, log, orderly>>

Running(s)   == [status |-> "active", active |-> s]
Over(status) == [status |-> status, active |-> NoStep]

\* Where the recorded outcome e leads.
After(e) ==
  IF e.outcome = Failed THEN Over("failed")
  ELSE IF Edge[e.step][e.outcome] = End THEN Over("completed")
  ELSE Running(Edge[e.step][e.outcome])

Leading(e) == e.outcome = Failed \/ Edge[e.step][e.outcome] # NoMatch

Places == {Running(StartStep), Over("cancelled")} \cup {After(e) : e \in {f \in log : Leading(f)}}

Init ==
  /\ position = Running(StartStep)
  /\ log = {}
  /\ orderly = TRUE

Record(e) ==
  /\ Running(e.step) \in Places
  /\ orderly => position = Running(e.step)
  /\ log' = log \cup {e}
  /\ UNCHANGED <<position, orderly>>

Move(e) ==
  /\ e \in log /\ Leading(e)
  /\ orderly => position = Running(e.step)
  /\ position' = After(e)
  /\ UNCHANGED <<log, orderly>>

SetBack ==
  /\ ~orderly
  /\ position' \in Places
  /\ UNCHANGED <<log, orderly>>

Cancel ==
  /\ orderly => position.status \notin {"completed", "cancelled"}
  /\ position' = Over("cancelled")
  /\ UNCHANGED <<log, orderly>>

Disorder ==
  /\ orderly' = FALSE
  /\ UNCHANGED <<position, log>>

Next ==
  \/ \E s \in Steps, o \in Outcomes \cup {Failed} :
       LET e == [step |-> s, outcome |-> o] IN Record(e) \/ Move(e)
  \/ SetBack \/ Cancel \/ Disorder

Spec == Init /\ [][Next]_vars
=============================================================================
