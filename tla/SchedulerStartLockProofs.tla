---------------------- MODULE SchedulerStartLockProofs ----------------------
(***************************************************************************)
(* The start lock excludes, for any number of processes and any crashes,   *)
(* as long as no process is started while another one decides; and what    *)
(* holds of it however the starts overlap.                                 *)
(***************************************************************************)
EXTENDS SchedulerStartLock, TLAPS

USE LockAssumption DEF Deciding, Alive

LEMMA LockInvInit == Init => LockInv
  BY DEF Init, LockInv, TypeOK, Pcs, StartsApart

LEMMA LockInvNext ==
  ASSUME Overlap = FALSE, LockInv, [Next]_vars
  PROVE  LockInv'
<1> USE DEF LockInv, TypeOK, Pcs, StartsApart
<1>1. ASSUME NEW p \in Procs, Start(p)
      PROVE  LockInv'
  BY <1>1 DEF Start
<1>2. ASSUME NEW p \in Procs, Create(p) \/ Collide(p)
      PROVE  LockInv'
  BY <1>2 DEF Create, Collide
<1>3. ASSUME NEW p \in Procs, WritePayload(p)
      PROVE  LockInv'
  BY <1>3 DEF WritePayload
<1>4. ASSUME NEW p \in Procs, ReadLock(p)
      PROVE  LockInv'
  BY <1>4 DEF ReadLock
<1>5. ASSUME NEW p \in Procs, CheckOwner(p)
      PROVE  LockInv'
  BY <1>5 DEF CheckOwner
<1>6. ASSUME NEW p \in Procs, RemoveStale(p)
      PROVE  LockInv'
  BY <1>6 DEF RemoveStale
<1>7. ASSUME NEW p \in Procs, Release(p) \/ Crash(p)
      PROVE  LockInv'
  BY <1>7 DEF Release, Crash
<1>8. CASE UNCHANGED vars
  BY <1>8 DEF vars
<1> QED  BY <1>1, <1>2, <1>3, <1>4, <1>5, <1>6, <1>7, <1>8 DEF Next, Acquire

\* Started one at a time, a running process owns the whole file that the name
\* leads to, and one that has judged a file stale, or created one, finds nobody
\* running (acquireSchedulerStartLock, scheduler_lock.go:27).
THEOREM SequentialStartsKeepLockInv == ASSUME Overlap = FALSE PROVE Spec => []LockInv
<1>1. LockInv /\ [Next]_vars => LockInv'
  BY LockInvNext
<1> QED  BY <1>1, LockInvInit, PTL DEF Spec

\* Started one at a time, two scheduler processes of a scope never run at once:
\* crashes may leave whole and empty lock files, and a release may fall between
\* the steps of a start.
THEOREM SequentialStartsExclude == ASSUME Overlap = FALSE PROVE Spec => []OneScheduler
<1>1. LockInv => OneScheduler
  <2> SUFFICES ASSUME LockInv, NEW p \in Procs, NEW q \in Procs,
                      pc[p] = "holding", pc[q] = "holding"
               PROVE  p = q
    BY DEF OneScheduler
  <2> QED  BY DEF LockInv
<1>2. Spec => []LockInv
  BY SequentialStartsKeepLockInv
<1> QED  BY <1>1, <1>2, PTL

-----------------------------------------------------------------------------
\* What holds however many processes decide at once: a complete payload is that
\* of a process that ran, and a pid read from a file is one of these.
PayloadInv ==
  /\ TypeOK
  /\ \A q \in written : pc[q] \in {"holding", "ended", "dead"}
  /\ \A p \in Procs : pc[p] = "read" => owner[p] \in written

LEMMA PayloadInvNext ==
  ASSUME PayloadInv, [Next]_vars
  PROVE  PayloadInv'
<1> USE DEF PayloadInv, TypeOK, Pcs
<1>1. ASSUME NEW p \in Procs, Start(p) \/ Create(p) \/ Collide(p)
      PROVE  PayloadInv'
  BY <1>1 DEF Start, Create, Collide
<1>2. ASSUME NEW p \in Procs, WritePayload(p)
      PROVE  PayloadInv'
  BY <1>2 DEF WritePayload
<1>3. ASSUME NEW p \in Procs, ReadLock(p) \/ CheckOwner(p) \/ RemoveStale(p)
      PROVE  PayloadInv'
  BY <1>3 DEF ReadLock, CheckOwner, RemoveStale
<1>4. ASSUME NEW p \in Procs, Release(p) \/ Crash(p)
      PROVE  PayloadInv'
  BY <1>4 DEF Release, Crash
<1>5. CASE UNCHANGED vars
  BY <1>5 DEF vars
<1> QED  BY <1>1, <1>2, <1>3, <1>4, <1>5 DEF Next, Acquire

LEMMA PayloadInvariant == Spec => []PayloadInv
<1>1. Init => PayloadInv
  BY DEF Init, PayloadInv, TypeOK, Pcs
<1>2. PayloadInv /\ [Next]_vars => PayloadInv'
  BY PayloadInvNext
<1> QED  BY <1>1, <1>2, PTL DEF Spec

\* However the starts overlap, nobody is turned away by a leftover: a process
\* is refused only in a step in which another one of its scope runs
\* (acquireSchedulerStartLock and schedulerProcessAlive).
THEOREM RefusedOnlyWhileOneRuns == Spec => [][RefusalsJustified]_vars
<1>1. PayloadInv /\ [Next]_vars => [RefusalsJustified]_vars
  <2> SUFFICES ASSUME PayloadInv, [Next]_vars, NEW p \in Procs,
                      pc[p] # "refused", pc'[p] = "refused"
               PROVE  \E q \in Procs \ {p} : pc[q] = "holding"
    BY DEF RefusalsJustified
  <2>1. PICK q \in Procs : CheckOwner(q)
    BY DEF Next, Acquire, vars, Start, Create, Collide, WritePayload, ReadLock,
           RemoveStale, Release, Crash, PayloadInv, TypeOK
  <2>2. q = p /\ Alive(owner[p]) /\ pc[p] = "read"
    BY <2>1 DEF CheckOwner, PayloadInv, TypeOK
  <2>3. owner[p] \in Procs \ {p} /\ pc[owner[p]] = "holding"
    BY <2>2 DEF PayloadInv, TypeOK
  <2> QED  BY <2>3
<1> QED  BY <1>1, PayloadInvariant, PTL DEF Spec

-----------------------------------------------------------------------------
Phases == [p \in Procs |-> Phase(pc[p])]

LockStep == [Lock!Next]_Phases

\* A process that only gets on with its decision is not seen to move.
LEMMA SamePhases ==
  ASSUME TypeOK, NEW p \in Procs, NEW s \in Pcs, pc' = [pc EXCEPT ![p] = s],
         Phase(s) = Phase(pc[p])
  PROVE  LockStep
<1>1. \A q \in Procs : Phase(pc'[q]) = Phase(pc[q])
  BY DEF TypeOK
<1>2. Phases' = Phases
  BY <1>1 DEF Phases
<1> QED  BY <1>2 DEF LockStep

LEMMA PhaseUpdate ==
  ASSUME TypeOK, NEW p \in Procs, NEW s \in Pcs, pc' = [pc EXCEPT ![p] = s]
  PROVE  Phases' = [Phases EXCEPT ![p] = Phase(s)]
<1>1. \A q \in Procs : pc'[q] = IF q = p THEN s ELSE pc[q]
  BY DEF TypeOK
<1>2. Phases' = [q \in Procs |-> Phase(pc'[q])]
  BY DEF Phases
<1>3. Phases' = [q \in Procs |-> IF q = p THEN Phase(s) ELSE Phase(pc[q])]
  BY <1>1, <1>2
<1> QED  BY <1>3 DEF Phases

LEMMA PhaseOf ==
  ASSUME NEW place \in Pcs
  PROVE  /\ Phase(place) = "running" <=> place = "holding"
         /\ Phase(place) = "refused" <=> place = "refused"
         /\ Phase(place) = "over" <=> place \in {"ended", "dead"}
         /\ Phase(place) \in {"out", "running", "refused", "over"}
  BY DEF Phase, Pcs

\* Writing the payload takes the lock: whoever created the file finds nobody
\* running.
LEMMA WriteStep ==
  ASSUME LockInv, NEW p \in Procs, WritePayload(p)
  PROVE  LockStep
<1>1. TypeOK /\ pc[p] = "created" /\ pc' = [pc EXCEPT ![p] = "holding"]
      /\ \A q \in Procs : pc[q] # "holding" /\ pc[q] \in Pcs
  BY DEF LockInv, TypeOK, WritePayload
<1>2. Phases' = [Phases EXCEPT ![p] = "running"]
  BY <1>1, PhaseUpdate DEF Pcs, Phase
<1>3. Phases[p] = "out" /\ \A q \in Procs : Phases[q] # "running"
  BY <1>1, PhaseOf DEF Phases, Phase
<1>4. Lock!Acquire(p)
  BY <1>2, <1>3 DEF Lock!Acquire, Lock!Busy, Phases
<1> QED  BY <1>4 DEF LockStep, Lock!Next, Phases

\* The owner of a pid that is alive runs: it wrote its payload before.
LEMMA CheckStep ==
  ASSUME LockInv, PayloadInv, NEW p \in Procs, CheckOwner(p)
  PROVE  LockStep
<1>1. /\ TypeOK /\ pc[p] = "read" /\ owner[p] \in written /\ owner[p] \in Procs
      /\ pc' = [pc EXCEPT ![p] = IF Alive(owner[p]) THEN "refused" ELSE "stale"]
  BY DEF LockInv, PayloadInv, TypeOK, CheckOwner
<1>2. CASE Alive(owner[p])
  <2>1. pc[owner[p]] = "holding"
    BY <1>1, <1>2 DEF PayloadInv
  <2>2. Phases' = [Phases EXCEPT ![p] = "refused"]
    BY <1>1, <1>2, PhaseUpdate DEF Pcs, Phase
  <2>3. Phases[p] = "out" /\ Phases[owner[p]] = "running"
    BY <1>1, <2>1 DEF Phases, Phase
  <2>4. Lock!Refuse(p)
    BY <1>1, <2>2, <2>3 DEF Lock!Refuse, Lock!Busy, Phases
  <2> QED  BY <2>4 DEF LockStep, Lock!Next, Phases
<1>3. CASE ~Alive(owner[p])
  BY <1>1, <1>3, SamePhases DEF Pcs, Phase
<1> QED  BY <1>2, <1>3

LEMMA EndStep ==
  ASSUME TypeOK, NEW p \in Procs, Release(p) \/ Crash(p)
  PROVE  LockStep
<1>1. PICK s \in {"ended", "dead"} : pc' = [pc EXCEPT ![p] = s]
  BY DEF Release, Crash
<1>2. Phases' = [Phases EXCEPT ![p] = "over"]
  BY <1>1, PhaseUpdate DEF Pcs, Phase
<1>3. Phases[p] \in {"out", "running"}
  BY DEF Release, Crash, Phases, Phase
<1>4. Lock!End(p)
  BY <1>2, <1>3 DEF Lock!End, Phases
<1> QED  BY <1>4 DEF LockStep, Lock!Next, Phases

LEMMA LockRefinementStep ==
  ASSUME LockInv, PayloadInv, [Next]_vars
  PROVE  LockStep
<1>1. TypeOK
  BY DEF LockInv
<1>2. ASSUME NEW p \in Procs, Start(p) \/ Create(p) \/ Collide(p) \/ ReadLock(p) \/ RemoveStale(p)
      PROVE  LockStep
  <2>1. PICK s \in {"trying", "created", "found", "read", "stale"} :
          pc' = [pc EXCEPT ![p] = s]
    BY <1>2 DEF Start, Create, Collide, ReadLock, RemoveStale
  <2>2. pc[p] \in {"down", "trying", "found", "stale"}
    BY <1>2 DEF Start, Create, Collide, ReadLock, RemoveStale
  <2>3. Phase(s) = "out" /\ Phase(pc[p]) = "out" /\ s \in Pcs
    BY <2>2 DEF Phase, Pcs
  <2> QED  BY <1>1, <2>1, <2>3, SamePhases
<1>3. CASE UNCHANGED vars
  BY <1>3 DEF vars, LockStep, Phases
<1> QED  BY <1>1, <1>2, <1>3, WriteStep, CheckStep, EndStep DEF Next, Acquire

\* The lock files implement the lock of a scope when starts come one at a time:
\* a process acquires while nobody runs, is refused while somebody does, and
\* never comes back, whatever crashes leave behind (scheduler_lock.go:27).
THEOREM LockFilesKeepScopeLock == ASSUME Overlap = FALSE PROVE Spec => KeepsScopeLock
<1>1. Init => Lock!Init
  BY DEF Init, Lock!Init, Phase
<1>2. LockInv /\ PayloadInv /\ [Next]_vars => [Lock!Next]_([p \in Procs |-> Phase(pc[p])])
  BY LockRefinementStep DEF LockStep, Phases
<1>3. Spec => []LockInv
  BY SequentialStartsKeepLockInv
<1> QED  BY <1>1, <1>2, <1>3, PayloadInvariant, PTL DEF Spec, KeepsScopeLock, Lock!Spec
=============================================================================
