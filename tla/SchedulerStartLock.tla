------------------------ MODULE SchedulerStartLock ------------------------
(***************************************************************************)
(* The start lock of `multigent scheduler start`: a file named after the   *)
(* workspace, project and agent, created exclusively, that holds the pid   *)
(* of its creator.  A process that finds the file removes it and tries     *)
(* again unless it reads there the pid of a live process.                  *)
(*                                                                         *)
(* Processes of one scope.  Each has a pid of its own (none is reused) and *)
(* creates the file at most once, so a process stands for the file it      *)
(* created, too: path is the one the name leads to.                        *)
(***************************************************************************)
CONSTANTS Procs,     \* processes started for the scope
          NoFile,    \* the name does not exist
          Overlap    \* whether a process may be started while another decides

ASSUME LockAssumption == NoFile \notin Procs /\ Overlap \in BOOLEAN

VARIABLES
  path,      \* the file at the lock's name
  written,   \* files with a complete payload
  pc,        \* where each process is
  owner      \* owner[p]: the file p has read the pid from

vars == <<path, written, pc, owner>>

Pcs == {"down", "trying", "created", "found", "read", "stale",
        "holding", "refused", "ended", "dead"}

Deciding(p) == pc[p] \in {"trying", "created", "found", "read", "stale"}
Alive(p)    == Deciding(p) \/ pc[p] = "holding"

Init ==
  /\ path = NoFile
  /\ written = {}
  /\ pc = [p \in Procs |-> "down"]
  /\ owner = [p \in Procs |-> NoFile]

Start(p) ==
  /\ pc[p] = "down"
  /\ Overlap \/ \A q \in Procs : ~Deciding(q)
  /\ pc' = [pc EXCEPT ![p] = "trying"]
  /\ UNCHANGED <<path, written, owner>>

\* variant: the file is opened without O_EXCL
CreateAnyway(p) ==
  /\ pc[p] = "trying"
  /\ path' = p
  /\ pc' = [pc EXCEPT ![p] = "created"]
  /\ UNCHANGED <<written, owner>>

\* os.OpenFile with O_EXCL
Create(p) ==
  /\ pc[p] = "trying" /\ path = NoFile
  /\ path' = p
  /\ pc' = [pc EXCEPT ![p] = "created"]
  /\ UNCHANGED <<written, owner>>

Collide(p) ==
  /\ pc[p] = "trying" /\ path # NoFile
  /\ pc' = [pc EXCEPT ![p] = "found"]
  /\ UNCHANGED <<path, written, owner>>

\* the payload goes to the file it opened, wherever its name leads by now
WritePayload(p) ==
  /\ pc[p] = "created"
  /\ written' = written \cup {p}
  /\ pc' = [pc EXCEPT ![p] = "holding"]
  /\ UNCHANGED <<path, owner>>

\* a missing or empty file has no pid
ReadLock(p) ==
  /\ pc[p] = "found"
  /\ IF path \in written
     THEN /\ pc' = [pc EXCEPT ![p] = "read"]
          /\ owner' = [owner EXCEPT ![p] = path]
     ELSE /\ pc' = [pc EXCEPT ![p] = "stale"]
          /\ UNCHANGED owner
  /\ UNCHANGED <<path, written>>

\* variant: nobody asks whether the pid is alive
CheckOwnerNever(p) ==
  /\ pc[p] = "read"
  /\ pc' = [pc EXCEPT ![p] = "stale"]
  /\ UNCHANGED <<path, written, owner>>

\* variant: any pid in the file counts as alive
CheckOwnerAlways(p) ==
  /\ pc[p] = "read"
  /\ pc' = [pc EXCEPT ![p] = "refused"]
  /\ UNCHANGED <<path, written, owner>>

CheckOwner(p) ==
  /\ pc[p] = "read"
  /\ pc' = [pc EXCEPT ![p] = IF Alive(owner[p]) THEN "refused" ELSE "stale"]
  /\ UNCHANGED <<path, written, owner>>

\* os.Remove of the name, whichever file is there by now
RemoveStale(p) ==
  /\ pc[p] = "stale"
  /\ path' = NoFile
  /\ pc' = [pc EXCEPT ![p] = "trying"]
  /\ UNCHANGED <<written, owner>>

Release(p) ==
  /\ pc[p] = "holding"
  /\ path' = NoFile
  /\ pc' = [pc EXCEPT ![p] = "ended"]
  /\ UNCHANGED <<written, owner>>

Crash(p) ==
  /\ Alive(p)
  /\ pc' = [pc EXCEPT ![p] = "dead"]
  /\ UNCHANGED <<path, written, owner>>

Acquire(p) == Create(p) \/ Collide(p) \/ WritePayload(p) \/ ReadLock(p)
              \/ CheckOwner(p) \/ RemoveStale(p)

Next == \E p \in Procs : Start(p) \/ Acquire(p) \/ Release(p) \/ Crash(p)

Spec == Init /\ [][Next]_vars

\* a process that runs gets on with acquireSchedulerStartLock
FairSpec == Spec /\ \A p \in Procs : WF_vars(Acquire(p))

-----------------------------------------------------------------------------
TypeOK ==
  /\ path \in Procs \cup {NoFile}
  /\ written \subseteq Procs
  /\ pc \in [Procs -> Pcs]
  /\ owner \in [Procs -> Procs \cup {NoFile}]

\* Two scheduler processes of one scope never run at the same time.
OneScheduler == \A p, q \in Procs : pc[p] = "holding" /\ pc[q] = "holding" => p = q

\* What a crashed scheduler leaves behind, a whole lock file or an empty one,
\* keeps nobody out: a process that tries while no other lives gets to run,
\* unless it dies or another joins it.
StaleLockReplaced ==
  \A p \in Procs :
    pc[p] = "trying" /\ (\A q \in Procs \ {p} : ~Alive(q)) ~>
      pc[p] \in {"holding", "dead"} \/ \E q \in Procs \ {p} : Alive(q)

\* A process is turned away only while another one of its scope runs, in
\* whatever order the steps of overlapping starts fall.
RefusalsJustified ==
  \A p \in Procs : pc[p] # "refused" /\ pc'[p] = "refused" =>
    \E q \in Procs \ {p} : pc[q] = "holding"

\* The scope as ScopeLock sees it.
Phase(place) == CASE place = "holding" -> "running"
                  [] place = "refused" -> "refused"
                  [] place \in {"ended", "dead"} -> "over"
                  [] OTHER -> "out"

Lock == INSTANCE ScopeLock WITH phase <- [p \in Procs |-> Phase(pc[p])]

\* The lock files implement the lock of a scope: whatever crashes leave behind,
\* one process at a time gets to run, and only while it runs is another refused
\* (acquireSchedulerStartLock, scheduler_lock.go:27).
KeepsScopeLock == Lock!Spec

\* The invariant that makes starts one at a time safe: the name leads to the
\* running scheduler's whole file, and who is about to remove it has found
\* nobody running.
StartsApart == \A p, q \in Procs : Deciding(p) /\ Deciding(q) => p = q

LockInv ==
  /\ TypeOK
  /\ StartsApart
  /\ \A p \in Procs : pc[p] = "holding" => path = p /\ p \in written
  /\ \A p \in Procs : pc[p] = "created" => path = p
  /\ \A p \in Procs : pc[p] = "read" => owner[p] \in Procs
  /\ \A p, q \in Procs : pc[p] = "holding" /\ pc[q] = "read" => owner[q] = p
  /\ \A p, q \in Procs : pc[p] \in {"stale", "created"} => pc[q] # "holding"
=============================================================================
