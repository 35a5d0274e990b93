----------------------- MODULE RuntimeQueueRefinement -----------------------
(***************************************************************************)
(* The run queue implements the ledger: under the mapping of RuntimeQueue  *)
(* every step that changes a row is a step of RunLedger or a stutter, for  *)
(* all values of the constants.  The invariant is needed twice: a renewal  *)
(* of an expired lease is a new grant, legal because the row names an      *)
(* eligible node; and a row about to be overwritten as ended was not       *)
(* absent.                                                                 *)
(***************************************************************************)
EXTENDS RuntimeQueueProofs

Entries == [r \in Runs |-> LedgerEntry(run[r])]

LedgerStep == [Ledger!Next]_Entries

\* What the four kinds of row map to.
LEMMA EntryFacts ==
  ASSUME TypeOK, NEW r \in Runs
  PROVE  /\ run[r].status = "absent" => LedgerEntry(run[r]) = Ledger!Nobody("none")
         /\ run[r].status = "queued" => LedgerEntry(run[r]) = Ledger!Nobody("waiting")
         /\ run[r].status \in Ended => LedgerEntry(run[r]) = Ledger!Nobody("over")
         /\ run[r].status = "running" /\ run[r].lease = Expired =>
              LedgerEntry(run[r]) = Ledger!Nobody("waiting")
         /\ run[r].status = "running" /\ run[r].lease # Expired =>
              LedgerEntry(run[r]) = Ledger!HeldBy(run[r].node)
  BY DEF LedgerEntry, LedgerPhase, Ended, Ledger!Nobody, Ledger!HeldBy

\* A row nobody touches maps to itself.
LEMMA SameEntries ==
  ASSUME run' = run
  PROVE  LedgerStep
<1>1. Entries' = Entries
  BY DEF Entries
<1> QED  BY <1>1 DEF LedgerStep

\* Only the entry of the row written changes.
LEMMA EntryUpdate ==
  ASSUME TypeOK, NEW r \in Runs, NEW row, run' = [run EXCEPT ![r] = row]
  PROVE  Entries' = [Entries EXCEPT ![r] = LedgerEntry(row)]
<1>1. \A q \in Runs : run'[q] = IF q = r THEN row ELSE run[q]
  BY DEF TypeOK
<1>2. Entries' = [q \in Runs |-> LedgerEntry(run'[q])]
  BY DEF Entries
<1>3. \A q \in Runs : Entries'[q] = IF q = r THEN LedgerEntry(row) ELSE LedgerEntry(run[q])
  <2>1. \A q \in Runs : Entries'[q] = LedgerEntry(run'[q])
    BY <1>2
  <2>2. CASE r \in Runs
    BY <1>1, <2>1
  <2> QED  BY <2>2
<1>4. Entries' = [q \in Runs |-> IF q = r THEN LedgerEntry(row) ELSE LedgerEntry(run[q])]
  BY <1>2, <1>3
<1> QED  BY <1>4 DEF Entries

LEMMA EndedEntry ==
  ASSUME NEW s \in Ended, NEW n
  PROVE  LedgerEntry(EndedRow(s, n)) = Ledger!Nobody("over")
  BY DEF EndedRow, LedgerEntry, LedgerPhase, Ended, Ledger!Nobody

\* Overwriting a row with an ended one finishes the run, or it was over.
LEMMA EndedStep ==
  ASSUME QueueInv, NEW r \in Runs, NEW s \in Ended, NEW n,
         run[r].status # "absent", run' = [run EXCEPT ![r] = EndedRow(s, n)]
  PROVE  LedgerStep
<1>1. TypeOK /\ run[r] \in Rows
  BY DEF QueueInv, TypeOK
<1>2. Entries' = [Entries EXCEPT ![r] = Ledger!Nobody("over")]
  BY <1>1, EntryUpdate, EndedEntry
<1>3. Entries[r] = LedgerEntry(run[r])
  BY DEF Entries
<1>4. CASE run[r].status \in Ended
  <2>1. Entries[r] = Ledger!Nobody("over")
    BY <1>1, <1>3, <1>4, EntryFacts
  <2>2. Entries' = Entries
    BY <1>2, <2>1 DEF Entries
  <2> QED  BY <2>2 DEF LedgerStep
<1>5. CASE run[r].status \in Active
  <2>1. Entries[r].phase \in {"waiting", "held"}
    BY <1>3, <1>5 DEF LedgerEntry, LedgerPhase, Active, Ended
  <2>2. Ledger!Finish(r)
    BY <1>2, <2>1 DEF Ledger!Finish, Entries
  <2> QED  BY <2>2 DEF LedgerStep, Ledger!Next
<1> QED  BY <1>1, <1>4, <1>5 DEF Rows

LEMMA EnqueueStep ==
  ASSUME QueueInv, NEW r \in Runs, Enqueue(r)
  PROVE  LedgerStep
<1>1. TypeOK /\ run[r] \in Rows /\ run[r].status = "absent"
  BY DEF QueueInv, TypeOK, Enqueue
<1> DEFINE row == [run[r] EXCEPT !.status = "queued"]
<1>2. run' = [run EXCEPT ![r] = row]
  BY DEF Enqueue
<1>3. row.status = "queued"
  BY <1>1 DEF Rows
<1>4. LedgerEntry(row) = Ledger!Nobody("waiting")
  BY <1>3 DEF LedgerEntry, LedgerPhase, Ended, Ledger!Nobody
<1>5. Entries' = [Entries EXCEPT ![r] = Ledger!Nobody("waiting")]
  <2> HIDE DEF row
  <2> QED  BY <1>1, <1>2, <1>4, EntryUpdate
<1>6. Entries[r] = Ledger!Nobody("none")
  BY <1>1, EntryFacts DEF Entries
<1>7. Ledger!Submit(r)
  BY <1>5, <1>6 DEF Ledger!Submit, Entries
<1> QED  BY <1>7 DEF LedgerStep, Ledger!Next

\* A row given a fresh lease, by a claim or a renewal.
LEMMA GrantStep ==
  ASSUME QueueInv, NEW r \in Runs, NEW n \in Nodes, DesiredNode[r] \in {NoNode, n},
         \/ run[r].status = "queued"
         \/ run[r].status = "running" /\ run[r].lease = Expired
         \/ run[r].status = "running" /\ run[r].node = n,
         run' = [run EXCEPT ![r] = [status |-> "running", node |-> n, lease |-> LeaseTicks]]
  PROVE  LedgerStep
<1>1. TypeOK
  BY DEF QueueInv
<1>2. PICK row : /\ row = [status |-> "running", node |-> n, lease |-> LeaseTicks]
                 /\ run' = [run EXCEPT ![r] = row]
  OBVIOUS
<1>3. Entries' = [Entries EXCEPT ![r] = Ledger!HeldBy(n)]
  <2>1. row.status = "running" /\ row.node = n /\ row.lease # Expired
    BY <1>2, LeaseAssumption DEF Expired
  <2>2. LedgerPhase(row) = "held"
    BY <2>1 DEF LedgerPhase, Ended
  <2>3. LedgerEntry(row) = Ledger!HeldBy(n)
    BY <2>1, <2>2 DEF LedgerEntry, Ledger!HeldBy
  <2>4. Entries' = [Entries EXCEPT ![r] = LedgerEntry(row)]
    BY <1>1, <1>2, EntryUpdate
  <2> QED  BY <2>3, <2>4
<1>4. Entries[r] = LedgerEntry(run[r])
  BY DEF Entries
<1>5. CASE Entries[r] = Ledger!Nobody("waiting")
  <2>1. Ledger!Grant(r, n)
    BY <1>3, <1>5 DEF Ledger!Grant, Entries
  <2> QED  BY <2>1 DEF LedgerStep, Ledger!Next
<1>6. CASE run[r].status = "running" /\ run[r].lease # Expired /\ run[r].node = n
  <2>1. Entries[r] = Ledger!HeldBy(n)
    BY <1>1, <1>4, <1>6, EntryFacts
  <2>2. Entries' = Entries
    BY <1>3, <2>1 DEF Entries
  <2> QED  BY <2>2 DEF LedgerStep
<1> QED  BY <1>1, <1>4, <1>5, <1>6, EntryFacts

LEMMA ClaimStep ==
  ASSUME QueueInv, NEW w \in Workers, ClaimRun(w)
  PROVE  LedgerStep
<1>1. PICK r \in Claimable(NodeOf[w]) :
        run' = [run EXCEPT ![r] = [status |-> "running", node |-> NodeOf[w], lease |-> LeaseTicks]]
  BY DEF ClaimRun, NextClaim
<1>2. /\ r \in Runs /\ NodeOf[w] \in Nodes /\ DesiredNode[r] \in {NoNode, NodeOf[w]}
      /\ run[r].status = "queued" \/ (run[r].status = "running" /\ run[r].lease = Expired)
  BY <1>1, NodesAssumption DEF Claimable
<1> QED  BY <1>1, <1>2, GrantStep

LEMMA RenewalStep ==
  ASSUME QueueInv, NEW w \in Workers, RenewLease(w)
  PROVE  LedgerStep
<1> DEFINE r == worker[w].job
<1>1. /\ r \in Runs /\ run[r] \in Rows
      /\ run[r].node = NodeOf[w] /\ run[r].status = "running"
  BY DEF RenewLease, Renewing, OwnsJob, QueueInv, TypeOK
<1>2. NodeOf[w] \in Nodes /\ DesiredNode[r] \in {NoNode, NodeOf[w]}
  BY <1>1, NodesAssumption DEF QueueInv, RunningEligible
<1>3. [run[r] EXCEPT !.lease = LeaseTicks]
        = [status |-> "running", node |-> NodeOf[w], lease |-> LeaseTicks]
  BY <1>1 DEF Rows
<1>4. run' = [run EXCEPT ![r] = [run[r] EXCEPT !.lease = LeaseTicks]]
  BY DEF RenewLease
<1>5. run' = [run EXCEPT ![r] = [status |-> "running", node |-> NodeOf[w], lease |-> LeaseTicks]]
  BY <1>3, <1>4
<1> QED  BY <1>1, <1>2, <1>5, GrantStep

\* One tick of the clock ends the grants that were on their last.
LEMMA TimeStep ==
  ASSUME QueueInv, TimePasses
  PROVE  LedgerStep
<1> DEFINE S == {r \in Runs : run[r].status = "running" /\ run[r].lease = 0}
<1>1. TypeOK
  BY DEF QueueInv
<1>2. \A r \in Runs : /\ run[r] \in Rows
                      /\ run'[r].status = run[r].status /\ run'[r].node = run[r].node
                      /\ run'[r].lease = RunDown(run[r].lease)
  BY <1>1, TimeUpdate DEF TypeOK
<1>3. ASSUME NEW r \in S
      PROVE  /\ LedgerEntry(run[r]).phase = "held"
             /\ LedgerEntry(run'[r]) = Ledger!Nobody("waiting")
  BY <1>2, <1>3 DEF LedgerEntry, LedgerPhase, Ended, Expired, RunDown, Ledger!Nobody
<1>4. ASSUME NEW r \in Runs, r \notin S
      PROVE  LedgerEntry(run'[r]) = LedgerEntry(run[r])
  <2>1. run[r].status = "running" => (run'[r].lease # Expired <=> run[r].lease # Expired)
    <3>1. run[r].lease \in Leases
      BY <1>2 DEF Rows
    <3> QED  BY <1>2, <1>4, <3>1 DEF RunDown, Expired, Leases
  <2> QED  BY <1>2, <2>1 DEF LedgerEntry, LedgerPhase
<1>5. Ledger!Lapse(S)
  <2>1. \A r \in S : Entries[r].phase = "held"
    BY <1>3 DEF Entries
  <2>2. Entries' = [r \in Runs |-> IF r \in S THEN Ledger!Nobody("waiting") ELSE Entries[r]]
    <3> HIDE DEF S
    <3> QED  BY <1>3, <1>4 DEF Entries
  <2> HIDE DEF S
  <2> QED  BY <2>1, <2>2 DEF Ledger!Lapse, Entries
<1>6. S \in SUBSET Runs
  OBVIOUS
<1> HIDE DEF S
<1> QED  BY <1>5, <1>6 DEF LedgerStep, Ledger!Next

LEMMA LedgerNext ==
  ASSUME QueueInv, [Next]_vars
  PROVE  LedgerStep
<1>0. TypeOK /\ "succeeded" \in Ended /\ "failed" \in Ended /\ "cancelled" \in Ended
  BY DEF QueueInv, Ended
<1>1. ASSUME NEW w \in Workers, WorkerStep(w)
      PROVE  LedgerStep
  <2>1. CASE ClaimRun(w)
    BY <2>1, ClaimStep
  <2>2. CASE RenewLease(w)
    BY <2>2, RenewalStep
  <2>3. CASE SkipDoneTask(w)
    <3>1. PICK s \in Ended :
            run' = [run EXCEPT ![worker[w].job] = EndedRow(s, NodeOf[w])]
      BY <1>0, <2>3 DEF SkipDoneTask
    <3>2. worker[w].job \in Runs /\ run[worker[w].job].status # "absent"
      BY <2>3 DEF SkipDoneTask, QueueInv, TypeOK, RowsKnown
    <3> QED  BY <3>1, <3>2, EndedStep
  <2>4. CASE ~ClaimRun(w) /\ ~RenewLease(w) /\ ~SkipDoneTask(w)
    <3>1. run' = run
      BY <1>1, <2>4 DEF WorkerStep, StartClaim, NothingToClaim, HandOver, LoseClaim, FetchSpec,
           PrepareFails, LearnCancelled, Return, AgentStops, AgentUpdatesTask
    <3> QED  BY <3>1, SameEntries
  <2> QED  BY <2>1, <2>2, <2>3, <2>4
<1>2. ASSUME NEW w \in Workers, ReportStep(w)
      PROVE  LedgerStep
  <2>1. CASE WriteRun(w)
    <3>1. report[w].run \in Runs /\ report[w].status \in Ended /\ report[w].stage # "none"
      BY <2>1 DEF WriteRun, QueueInv, TypeOK, Reports, Ended
    <3>2. run[report[w].run].status # "absent"
      BY <3>1 DEF QueueInv, RowsKnown
    <3>3. run' = [run EXCEPT ![report[w].run] = EndedRow(report[w].status, NodeOf[w])]
      BY <2>1 DEF WriteRun
    <3> QED  BY <3>1, <3>2, <3>3, EndedStep
  <2>2. CASE ~WriteRun(w)
    <3>1. run' = run
      BY <1>2, <2>2 DEF ReportStep, ReadRun, JudgeTask, SettleTask, LoseReport,
           ReportTimesOut, ReportFails
    <3> QED  BY <3>1, SameEntries
  <2> QED  BY <2>1, <2>2
<1>3. CASE CancelStep
  <2>1. ASSUME NEW r \in Runs, WriteCancelled(r)
        PROVE  LedgerStep
    <3>1. /\ run[r].status # "absent"
          /\ run' = [run EXCEPT ![r] = EndedRow("cancelled", cancel.node[r])]
      BY <2>1 DEF WriteCancelled, QueueInv, RowsKnown
    <3> QED  BY <1>0, <3>1, EndedStep
  <2>2. CASE ~ \E r \in Runs : WriteCancelled(r)
    <3>1. run' = run
      BY <1>3, <2>2 DEF CancelStep, ReadTaskToCancel, CancelTask, AbortAgent, ListRuns,
           AllWritten, AnswerCancel, CancelFails
    <3> QED  BY <3>1, SameEntries
  <2> QED  BY <2>1, <2>2
<1>4. CASE Tick \/ Stall
  BY <1>4, TimeStep DEF Tick, Stall
<1>5. ASSUME NEW r \in Runs, Enqueue(r)
      PROVE  LedgerStep
  BY <1>5, EnqueueStep
<1>6. CASE \/ UNCHANGED vars
           \/ \E n \in Nodes : Disable(n) \/ Enable(n) \/ NodeCrash(n)
           \/ \E t \in Tasks : ReopenTask(t)
  <2>1. run' = run
    BY <1>6 DEF vars, Disable, Enable, NodeCrash, ReopenTask
  <2> QED  BY <2>1, SameEntries
<1> QED  BY <1>1, <1>2, <1>3, <1>4, <1>5, <1>6 DEF Next

LEMMA LedgerInit == Init => Ledger!Init
<1> SUFFICES ASSUME Init PROVE Ledger!Init
  OBVIOUS
<1>1. \A r \in Runs : LedgerEntry(run[r]) = Ledger!Nobody("none")
  BY DEF Init, EndedRow, LedgerEntry, LedgerPhase, Ended, Ledger!Nobody
<1> QED  BY <1>1 DEF Ledger!Init

\* The queue's requests, clocks, crashes and cancellations keep the promise of
\* RunLedger: every behaviour of the queue is one of the ledger.
THEOREM LedgerRefinement == Spec => KeepsLedger
<1>1. Init => Ledger!Init
  BY LedgerInit
<1>2. QueueInv /\ [Next]_vars => [Ledger!Next]_Entries
  BY LedgerNext DEF LedgerStep
<1>3. Entries = [r \in Runs |-> LedgerEntry(run[r])]
  BY DEF Entries
<1> QED  BY <1>1, <1>2, QueueInvariant, PTL DEF Spec, KeepsLedger, Ledger!Spec, Entries

=============================================================================
