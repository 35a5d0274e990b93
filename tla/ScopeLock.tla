----------------------------- MODULE ScopeLock -----------------------------
(***************************************************************************)
(* What `multigent scheduler start` promises about the processes of one    *)
(* scope: a process runs only while no other does, one that is told that   *)
(* a scheduler is running is told so while one is, and a process that was  *)
(* refused, has ended or has died never comes back.                        *)
(***************************************************************************)
CONSTANT Procs

VARIABLE phase      \* phase[p]: "out" until p's start has been decided

Busy == \E q \in Procs : phase[q] = "running"

Init == phase = [p \in Procs |-> "out"]

Acquire(p) ==
  /\ phase[p] = "out" /\ ~Busy
  /\ phase' = [phase EXCEPT ![p] = "running"]

Refuse(p) ==
  /\ phase[p] = "out" /\ Busy
  /\ phase' = [phase EXCEPT ![p] = "refused"]

End(p) ==
  /\ phase[p] \in {"out", "running"}
  /\ phase' = [phase EXCEPT ![p] = "over"]

Next == \E p \in Procs : Acquire(p) \/ Refuse(p) \/ End(p)

Spec == Init /\ [][Next]_phase
=============================================================================
