---------------------- MODULE SchedulerManagerProofs ----------------------
(***************************************************************************)
(* What holds of SchedulerManager for any keys, processes, callers and     *)
(* workspaces.  One inductive invariant, ManagerInv.  Apart from a start,  *)
(* every action lets processes only move towards their end (Fading) and    *)
(* entries only disappear (Shrinking); what such a step preserves is       *)
(* proved once, and each action then adds what it does to its caller.      *)
(***************************************************************************)
EXTENDS SchedulerManager, TLAPS

USE ManagerAssumption

Fading ==
    /\ proc' \in [Procs -> ProcRow]
    /\ \A p \in Procs :
         /\ proc'[p].key = proc[p].key /\ proc'[p].by = proc[p].by
         /\ \/ proc'[p].state = proc[p].state
            \/ proc[p].state = "alive" /\ proc'[p].state = "asked"
            \/ proc[p].state \in {"alive", "asked"} /\ proc'[p].state = "done"

Shrinking ==
    /\ procs' \in [Managers -> [Keys -> Procs \cup {NoProc}]]
    /\ \A m \in Managers, k \in Keys : procs'[m][k] \in {procs[m][k], NoProc}

\* All of it except what it says of the callers.
RestOK ==
    /\ procs \in [Managers -> [Keys -> Procs \cup {NoProc}]]
    /\ proc \in [Procs -> ProcRow]
    /\ current \in Managers
    /\ server \in {"up", "draining", "cleanup", "down"}
    /\ raced \subseteq Procs /\ late \subseteq Procs
    /\ swept \subseteq Managers
    /\ Entries /\ Accounted /\ OwedHere
    /\ thread[Main].by <= current
    /\ \A m \in swept : m <= current

\* And of one caller.
CallerOK(t) == thread[t] \in ThreadRow /\ Waits(t) /\ Doing(t) /\ Sweeps(t)

LEMMA Parts == ASSUME ManagerInv PROVE RestOK /\ \A t \in Threads : CallerOK(t)
  BY DEF ManagerInv, TypeOK, RestOK, CallerOK

LEMMA Whole ==
  ASSUME RestOK', thread' \in [Threads -> ThreadRow], \A t \in Threads : CallerOK(t)'
  PROVE  ManagerInv'
  BY DEF ManagerInv, TypeOK, RestOK, CallerOK

LEMMA IdleIsRow == Idle \in ThreadRow /\ Idle.by = 1 /\ 1 \in Managers
  BY DEF Idle, ThreadRow, Kinds, Places, Managers

\* A process that moves towards its end.
LEMMA StateFades ==
  ASSUME ManagerInv, NEW p \in Procs, NEW s \in {"asked", "done"}, SetState(p, s),
         Live(p), s = "asked" => proc[p].state \in {"alive", "asked"}
  PROVE  Fading /\ proc'[p].state = s /\ \A q \in Procs \ {p} : proc'[q] = proc[q]
  <1>1. proc \in [Procs -> ProcRow] /\ proc[p] \in ProcRow
    BY DEF ManagerInv, TypeOK
  <1> DEFINE row == [proc[p] EXCEPT !.state = s]
  <1>2. row \in ProcRow /\ row.state = s /\ row.key = proc[p].key /\ row.by = proc[p].by
    BY <1>1 DEF ProcRow, States
  <1>3. proc' = [proc EXCEPT ![p] = row]
    BY DEF SetState
  <1> HIDE DEF row
  <1> QED  BY <1>1, <1>2, <1>3 DEF Fading, Live

\* What only ends processes and drops entries keeps what is owed to nobody.
LEMMA FadeKeeps ==
  ASSUME ManagerInv, Fading, Shrinking, raced' = raced, late' = late
  PROVE  /\ Entries'
         /\ \A p \in Procs : Live(p)' => Live(p)
         /\ \A p \in Procs : Mode(p)' = Mode(p)
         /\ \A p \in Procs : Owed(p)' => Owed(p)
         /\ \A t \in Threads : thread'[t] = thread[t] => Waits(t)' /\ Sweeps(t)'
  <1>1. Entries'
    BY DEF Entries, Fading, Shrinking, ManagerInv, TypeOK
  <1>2. \A p \in Procs : Live(p)' => Live(p)
    BY DEF Fading, Live
  <1>3. \A p \in Procs : Mode(p)' = Mode(p)
    BY DEF Fading, Mode
  <1>4. \A p \in Procs : Owed(p)' => Owed(p)
    BY <1>2, <1>3 DEF Owed
  <1>5. ASSUME NEW t \in Threads, thread'[t] = thread[t] PROVE Waits(t)'
    <2>1. Waits(t) /\ thread[t] \in ThreadRow
      BY DEF ManagerInv, TypeOK
    <2>2. ASSUME thread[t].pc = "wait"
          PROVE  /\ proc'[thread[t].proc].state \in {"asked", "done"}
                 /\ proc'[thread[t].proc].key = thread[t].key
                 /\ procs'[thread[t].by][thread[t].key] \in {NoProc, thread[t].proc} \cup raced'
      BY <2>1, <2>2 DEF Waits, Fading, Shrinking, ThreadRow
    <2> QED  BY <1>5, <2>1, <2>2 DEF Waits
  <1>6. ASSUME NEW t \in Threads, thread'[t] = thread[t] PROVE Sweeps(t)'
    BY <1>4, <1>6 DEF Sweeps, ManagerInv, Fading
  <1> QED  BY <1>1, <1>2, <1>3, <1>4, <1>5, <1>6

\* The rest of the invariant, when no workspace is opened. An entry may go
\* when the process it leads to has ended or was started while it was
\* being stopped, or is a loop that was asked to return.
LEMMA FadeRest ==
  ASSUME ManagerInv, Fading, Shrinking, UNCHANGED <<current, raced, late>>,
         \A m \in Managers, k \in Keys :
           LET p == procs[m][k] IN
           \/ procs'[m][k] = p
           \/ p \in raced
           \/ proc'[p].state = "done"
           \/ proc'[p].state = "asked" /\ Mode(p) = "loop",
         server' \in {"up", "draining", "cleanup", "down"},
         swept' \subseteq Managers, \A m \in swept' : m <= current,
         thread'[Main].by <= current,
         \A p \in Procs : server' \in {"draining", "cleanup"} /\ Owed(p) =>
                            proc[p].by <= thread'[Main].by
  PROVE  RestOK'
  <1>1. RestOK
    BY Parts
  <1>2. Accounted'
    <2>1. SUFFICES ASSUME NEW p \in Procs, p \notin raced,
                          proc'[p].state \notin {"unused", "done"},
                          ~(proc'[p].state = "asked" /\ Mode(p) = "loop")
                   PROVE  procs'[proc[p].by][proc[p].key] = p
      BY FadeKeeps DEF Accounted, Fading
    <2>2. proc[p].state \notin {"unused", "done"} /\ ~(proc[p].state = "asked" /\ Mode(p) = "loop")
      BY <2>1 DEF Fading
    <2>3. procs[proc[p].by][proc[p].key] = p
      BY <1>1, <2>1, <2>2 DEF RestOK, Accounted
    <2>4. proc[p].by \in Managers /\ proc[p].key \in Keys
      BY <1>1, <2>2 DEF RestOK, ProcRow, OwedHere
    <2> QED  BY <2>1, <2>3, <2>4
  <1>3. OwedHere'
    BY <1>1, FadeKeeps DEF OwedHere, RestOK, Fading
  <1> QED  BY <1>1, <1>2, <1>3, FadeKeeps DEF RestOK, Fading, Shrinking

\* The callers, when one of them moves.
LEMMA OneMoves ==
  ASSUME ManagerInv, NEW t \in Threads, NEW r \in ThreadRow, Become(t, r),
         UNCHANGED <<current, server, swept>>,
         r.kind = "switch" => thread[t].kind = "switch"
  PROVE  /\ thread' \in [Threads -> ThreadRow] /\ thread'[t] = r
         /\ \A u \in Threads \ {t} : thread'[u] = thread[u] /\ Doing(u)'
  <1>1. thread \in [Threads -> ThreadRow] /\ \A u \in Threads : Doing(u)
    BY DEF ManagerInv, TypeOK
  <1>2. /\ thread' \in [Threads -> ThreadRow] /\ thread'[t] = r
        /\ \A u \in Threads \ {t} : thread'[u] = thread[u]
    BY <1>1 DEF Become
  <1>3. \A u \in Threads : thread'[u].kind = "switch" => thread[u].kind = "switch"
    BY <1>2
  <1>4. ASSUME NEW u \in Threads \ {t} PROVE Doing(u)'
    BY <1>1, <1>2, <1>3 DEF Doing
  <1> QED  BY <1>2, <1>4

\* The callers, when none of them moves and nothing that they look at changes.
LEMMA NoneMoves ==
  ASSUME ManagerInv, UNCHANGED <<current, server, swept, thread>>
  PROVE  /\ thread' \in [Threads -> ThreadRow]
         /\ \A u \in Threads : thread'[u] = thread[u] /\ Doing(u)'
  BY DEF ManagerInv, TypeOK, Doing

LEMMA MainIsThread == Main \in Threads /\ \A t \in Requests : t \in Threads /\ t # Main
  BY DEF Threads

\* Everything else as it was.
LEMMA StillRest ==
  ASSUME ManagerInv, Fading, Shrinking,
         UNCHANGED <<procs, current, server, raced, late, swept>>,
         thread'[Main].by = thread[Main].by
  PROVE  RestOK'
  BY Parts, FadeRest DEF RestOK, OwedHere

LEMMA SameEntries == ASSUME ManagerInv, UNCHANGED procs PROVE Shrinking
  BY DEF ManagerInv, TypeOK, Shrinking

LEMMA SameProcesses == ASSUME ManagerInv, UNCHANGED proc PROVE Fading
  BY DEF ManagerInv, TypeOK, Fading

LEMMA EndsInv == ASSUME ManagerInv, NEW p \in Procs, Ends(p) PROVE ManagerInv'
  <1>1. Fading /\ Shrinking
    BY StateFades, SameEntries DEF Ends
  <1>2. RestOK'
    BY <1>1, StillRest DEF Ends, history
  <1> QED  BY <1>1, <1>2, NoneMoves, FadeKeeps, Whole DEF Ends, history, CallerOK

LEMMA KillInv == ASSUME ManagerInv, NEW t \in Threads, Kill(t) PROVE ManagerInv'
  <1>1. thread[t].proc \in Procs
    BY DEF ManagerInv, Waits, Kill, At
  <1>2. Fading /\ Shrinking
    BY <1>1, StateFades, SameEntries DEF Kill
  <1>3. RestOK'
    BY <1>2, StillRest DEF Kill, history
  <1> QED  BY <1>2, <1>3, NoneMoves, FadeKeeps, Whole DEF Kill, history, CallerOK

\* Every action that asks a process to end and then waits for it.
LEMMA AskInv ==
  ASSUME ManagerInv, NEW t \in Threads, NEW m \in Managers, NEW k \in Keys,
         NEW kind \in {"stop", "restart", "switch", "shutdown"},
         NEW todo \in SUBSET Keys,
         AskToEnd(t, kind, m, k, todo), UNCHANGED <<procs, current, server, history>>,
         kind \in {"stop", "restart"} => t # Main,
         kind \in {"switch", "shutdown"} =>
           /\ thread[t].kind = kind /\ thread[t].pc = "each" /\ thread[t].by = m
           /\ thread[t].todo \subseteq todo \cup {k}
  PROVE  ManagerInv'
  <1> DEFINE p == procs[m][k]
             r == [kind |-> kind, pc |-> "wait", by |-> m, key |-> k, proc |-> p,
                   todo |-> todo]
  <1>1. /\ p \in Procs /\ Live(p) /\ proc[p].state \in {"alive", "asked"}
        /\ proc[p].key = k
    BY DEF AskToEnd, Running, Listed, ManagerInv, TypeOK, Entries, Live
  <1>2. Fading /\ Shrinking /\ proc'[p].state = "asked"
    BY <1>1, StateFades, SameEntries DEF AskToEnd
  <1>3. r \in ThreadRow
    BY <1>1 DEF ThreadRow, Kinds, Places
  <1>4. Become(t, r)
    BY DEF AskToEnd
  <1>5. /\ r.kind = kind /\ r.pc = "wait" /\ r.by = m /\ r.key = k /\ r.proc = p
        /\ r.todo = todo
    OBVIOUS
  <1> HIDE DEF r
  <1>6. /\ thread' \in [Threads -> ThreadRow] /\ thread'[t] = r
        /\ \A u \in Threads \ {t} : thread'[u] = thread[u] /\ Doing(u)'
    BY <1>3, <1>4, <1>5, OneMoves DEF history
  <1>7. thread[Main].kind = "shutdown" \/ server \notin {"draining", "cleanup"}
    BY MainIsThread DEF ManagerInv, Doing
  <1>8. CallerOK(t)'
    <2>1. Waits(t)'
      BY <1>1, <1>2, <1>5, <1>6 DEF Waits, Fading
    <2>2. Doing(t)'
      BY <1>5, <1>6 DEF Doing, ManagerInv, history
    <2>3. Sweeps(t)'
      <3>1. ASSUME kind \in {"switch", "shutdown"}, NEW q \in Procs, Owed(q)',
                   proc'[q].by = m
            PROVE  proc'[q].key \in todo \/ proc'[q].key = k
        <4>1. Owed(q) /\ proc[q].by = m /\ proc'[q].key = proc[q].key
          BY <1>2, <3>1, FadeKeeps DEF history, Fading
        <4>2. proc[q].key \in thread[t].todo
          BY <3>1, <4>1 DEF ManagerInv, Sweeps
        <4> QED  BY <3>1, <4>1, <4>2
      <3> QED  BY <1>5, <1>6, <3>1 DEF Sweeps
    <2> QED  BY <1>3, <1>6, <2>1, <2>2, <2>3 DEF CallerOK
  <1>9. RestOK'
    <2>1. t # Main \/ m = thread[Main].by
      BY DEF ManagerInv, Doing
    <2>2. thread'[Main].by = thread[Main].by
      BY <1>5, <1>6, <2>1, MainIsThread
    <2> QED  BY <1>2, <2>2, StillRest DEF history
  <1>10. \A u \in Threads : CallerOK(u)'
    BY <1>2, <1>6, <1>8, FadeKeeps DEF CallerOK, history
  <1> QED  BY <1>6, <1>9, <1>10, Whole

LEMMA StopsInv ==
  ASSUME ManagerInv, NEW t \in Requests, NEW k \in Keys, Stop(t, k) \/ Restart(t, k)
  PROVE  ManagerInv'
  <1>1. Reachable \subseteq Managers
    BY DEF Reachable, ManagerInv, TypeOK
  <1>2. PICK m \in Managers, kind \in {"stop", "restart"} : AskToEnd(t, kind, m, k, {})
    BY <1>1 DEF Stop, Restart
  <1>3. UNCHANGED <<procs, current, server, history>>
    BY DEF Stop, Restart
  <1>4. {} \in SUBSET Keys
    OBVIOUS
  <1> QED  BY <1>2, <1>3, <1>4, AskInv, MainIsThread

LEMMA CleanupNextInv ==
  ASSUME ManagerInv, NEW t \in Threads, CleanupNext(t) PROVE ManagerInv'
  <1> DEFINE m == thread[t].by
  <1>1. PICK k \in thread[t].todo :
          \/ AskToEnd(t, thread[t].kind, m, k, thread[t].todo \ {k})
          \/ /\ k \notin Running(m)
             /\ Become(t, [thread[t] EXCEPT !.todo = thread[t].todo \ {k}])
             /\ UNCHANGED proc
    BY DEF CleanupNext
  <1>2. /\ thread[t] \in ThreadRow /\ thread[t].pc = "each"
        /\ thread[t].kind \in {"switch", "shutdown"} /\ m \in Managers /\ k \in Keys
        /\ thread[t].todo \ {k} \in SUBSET Keys
    BY DEF ManagerInv, TypeOK, CleanupNext, At, ThreadRow, Doing
  <1>3. UNCHANGED <<procs, current, server, history>>
    BY DEF CleanupNext
  <1>4. CASE AskToEnd(t, thread[t].kind, m, k, thread[t].todo \ {k})
    BY <1>2, <1>3, <1>4, AskInv
  <1>5. CASE /\ k \notin Running(m)
             /\ Become(t, [thread[t] EXCEPT !.todo = thread[t].todo \ {k}])
             /\ UNCHANGED proc
    <2> DEFINE r == [thread[t] EXCEPT !.todo = thread[t].todo \ {k}]
    <2>1. /\ r \in ThreadRow /\ r.kind = thread[t].kind /\ r.pc = "each" /\ r.by = m
          /\ r.todo = thread[t].todo \ {k} /\ r.key = thread[t].key
      BY <1>2 DEF ThreadRow
    <2>2. Become(t, r)
      BY <1>5
    <2> HIDE DEF r
    <2>3. /\ thread' \in [Threads -> ThreadRow] /\ thread'[t] = r
          /\ \A u \in Threads \ {t} : thread'[u] = thread[u] /\ Doing(u)'
      BY <1>3, <2>1, <2>2, OneMoves DEF history
    <2>4. Fading /\ Shrinking
      BY <1>3, <1>5, SameEntries, SameProcesses
    <2>5. Waits(t)' /\ Doing(t)'
      BY <1>2, <1>3, <2>1, <2>3 DEF ManagerInv, Waits, Doing, history
    <2>6. Sweeps(t)'
      <3>1. ASSUME NEW q \in Procs, Owed(q), proc[q].by = m
            PROVE  proc[q].key \in r.todo
        <4>1. proc[q].key \in thread[t].todo
          BY <1>2, <3>1 DEF ManagerInv, Sweeps
        <4>2. procs[m][proc[q].key] = q
          BY <3>1 DEF ManagerInv, Accounted, Owed, Live
        <4>3. proc[q].key \in Keys
          BY <3>1 DEF ManagerInv, OwedHere, Owed, Live
        <4>4. proc[q].key \in Running(m)
          BY <3>1, <4>2, <4>3 DEF Running, Listed, Owed
        <4> QED  BY <1>5, <2>1, <4>1, <4>4
      <3>2. \A q \in Procs : Owed(q)' /\ proc'[q].by = m => Owed(q) /\ proc'[q].key = proc[q].key
                              /\ proc[q].by = m
        BY <1>3, <2>4, FadeKeeps DEF history, Fading
      <3> QED  BY <2>1, <2>3, <3>1, <3>2 DEF Sweeps
    <2>7. thread'[Main].by = thread[Main].by
      BY <2>1, <2>3, MainIsThread
    <2>8. RestOK'
      BY <1>3, <2>4, <2>7, StillRest DEF history
    <2>9. \A u \in Threads : CallerOK(u)'
      BY <1>3, <2>1, <2>3, <2>4, <2>5, <2>6, FadeKeeps DEF CallerOK, history
    <2> QED  BY <2>3, <2>8, <2>9, Whole
  <1> QED  BY <1>1, <1>4, <1>5

\* Pruning drops the entries of processes that have ended.
LEMMA PrunedEntries ==
  ASSUME ManagerInv, NEW m \in Managers, procs' = Pruned(m)
  PROVE  /\ Shrinking
         /\ \A a \in Managers, k \in Keys :
              \/ procs'[a][k] = procs[a][k]
              \/ proc[procs[a][k]].state = "done"
  <1> DEFINE kept == [k \in Keys |-> IF k \in Running(m) THEN procs[m][k] ELSE NoProc]
  <1>1. procs \in [Managers -> [Keys -> Procs \cup {NoProc}]]
    BY DEF ManagerInv, TypeOK
  <1>2. procs' = [procs EXCEPT ![m] = kept]
    BY DEF Pruned
  <1>3. /\ kept \in [Keys -> Procs \cup {NoProc}]
        /\ \A k \in Keys : kept[k] \in {procs[m][k], NoProc}
        /\ \A k \in Keys : k \in Running(m) => kept[k] = procs[m][k]
    BY <1>1
  <1> HIDE DEF kept
  <1>4. Shrinking
    BY <1>1, <1>2, <1>3 DEF Shrinking
  <1>5. ASSUME NEW k \in Keys, k \notin Running(m), procs[m][k] # NoProc
        PROVE  proc[procs[m][k]].state = "done"
    <2>1. procs[m][k] \in Procs /\ ~Live(procs[m][k])
      BY <1>1, <1>5 DEF Running, Listed
    <2>2. proc[procs[m][k]].state \in States /\ proc[procs[m][k]].state # "unused"
      BY <1>5, <2>1 DEF ManagerInv, TypeOK, ProcRow, Entries
    <2> QED  BY <2>1, <2>2 DEF Live, States
  <1>6. ASSUME NEW a \in Managers, NEW k \in Keys
        PROVE  procs'[a][k] = procs[a][k] \/ proc[procs[a][k]].state = "done"
    <2>1. CASE a # m
      BY <1>1, <1>2, <2>1
    <2>2. CASE a = m
      BY <1>1, <1>2, <1>3, <1>5, <2>2
    <2> QED  BY <2>1, <2>2
  <1> QED  BY <1>4, <1>6

LEMMA PruneInv == ASSUME ManagerInv, NEW m \in Managers, Prune(m) PROVE ManagerInv'
  <1>1. procs' = Pruned(m) /\ UNCHANGED <<proc, current, thread, server, history>>
    BY DEF Prune
  <1>2. Fading /\ Shrinking
    BY <1>1, PrunedEntries, SameProcesses
  <1>3. \A a \in Managers, k \in Keys :
          \/ procs'[a][k] = procs[a][k]
          \/ proc'[procs[a][k]].state = "done"
    BY <1>1, PrunedEntries
  <1>4. RestOK'
    BY <1>1, <1>2, <1>3, FadeRest, Parts DEF RestOK, OwedHere, history
  <1> QED  BY <1>1, <1>2, <1>4, NoneMoves, FadeKeeps, Whole DEF CallerOK, history

\* Deleting an entry.
LEMMA OneEntry ==
  ASSUME ManagerInv, NEW m \in Managers, NEW k \in Keys,
         NEW p \in Procs \cup {NoProc}, SetEntry(m, k, p)
  PROVE  /\ procs' \in [Managers -> [Keys -> Procs \cup {NoProc}]]
         /\ procs'[m][k] = p
         /\ \A a \in Managers, b \in Keys : a # m \/ b # k => procs'[a][b] = procs[a][b]
  BY DEF ManagerInv, TypeOK, SetEntry

LEMMA DeleteInv == ASSUME ManagerInv, NEW t \in Threads, Delete(t) PROVE ManagerInv'
  <1> DEFINE m == thread[t].by
             k == thread[t].key
             w == thread[t].proc
             r == CASE thread[t].kind = "stop" -> Idle
                    [] thread[t].kind = "restart" ->
                         [thread[t] EXCEPT !.pc = "again", !.proc = NoProc]
                    [] OTHER ->
                         [thread[t] EXCEPT !.pc = "each", !.key = NoKey,
                                           !.proc = NoProc]
  <1>1. /\ thread[t] \in ThreadRow /\ thread[t].pc = "wait" /\ m \in Managers
        /\ k \in Keys /\ w \in Procs /\ GivesUp(w)
        /\ proc[w].state \in {"asked", "done"} /\ proc[w].key = k
        /\ procs[m][k] \in {NoProc, w} \cup raced
        /\ Doing(t) /\ Sweeps(t)
    BY DEF ManagerInv, TypeOK, Delete, At, ThreadRow, Waits
  <1>2. SetEntry(m, k, NoProc) /\ Become(t, r) /\ UNCHANGED <<proc, current, server, history>>
    BY DEF Delete
  <1>3. /\ procs' \in [Managers -> [Keys -> Procs \cup {NoProc}]]
        /\ procs'[m][k] = NoProc
        /\ \A a \in Managers, b \in Keys : a # m \/ b # k => procs'[a][b] = procs[a][b]
    BY <1>1, <1>2, OneEntry
  <1>4. Fading /\ Shrinking
    BY <1>2, <1>3, SameProcesses DEF Shrinking
  <1>5. thread[t].kind \in {"stop", "restart", "switch", "shutdown"}
    BY <1>1 DEF Doing, ThreadRow, Kinds
  <1>6. /\ r \in ThreadRow
        /\ thread[t].kind = "stop" => r.kind = "none" /\ r.pc = "idle"
        /\ thread[t].kind = "restart" => r.kind = "restart" /\ r.pc = "again" /\ r.key = k
        /\ thread[t].kind \in {"switch", "shutdown"} =>
             /\ r.kind = thread[t].kind /\ r.pc = "each" /\ r.by = m
             /\ r.todo = thread[t].todo
    <2>1. CASE thread[t].kind = "stop"
      BY <2>1, IdleIsRow DEF Idle
    <2>2. CASE thread[t].kind = "restart"
      <3>1. r = [thread[t] EXCEPT !.pc = "again", !.proc = NoProc]
        BY <2>2
      <3> QED  BY <1>1, <2>2, <3>1 DEF ThreadRow, Places
    <2>3. CASE thread[t].kind \in {"switch", "shutdown"}
      <3>1. r = [thread[t] EXCEPT !.pc = "each", !.key = NoKey, !.proc = NoProc]
        BY <2>3
      <3> QED  BY <1>1, <2>3, <3>1 DEF ThreadRow, Places
    <2> QED  BY <1>5, <2>1, <2>2, <2>3
  <1> HIDE DEF r
  <1>7. /\ thread' \in [Threads -> ThreadRow] /\ thread'[t] = r
        /\ \A u \in Threads \ {t} : thread'[u] = thread[u] /\ Doing(u)'
    BY <1>2, <1>5, <1>6, OneMoves DEF history
  <1>8. Waits(t)' /\ Doing(t)'
    BY <1>1, <1>2, <1>5, <1>6, <1>7 DEF Waits, Doing, history
  <1>9. Sweeps(t)'
    <2>1. ASSUME NEW q \in Procs, Owed(q), proc[q].by = m, thread[t].kind \in {"switch", "shutdown"}
          PROVE  proc[q].key \in thread[t].todo
      <3>1. proc[q].key \in thread[t].todo \/ proc[q].key = k
        BY <1>1, <2>1 DEF Sweeps
      <3>2. procs[m][proc[q].key] = q
        BY <2>1 DEF ManagerInv, Accounted, Owed, Live
      <3>3. q # w
        BY <1>1, <2>1 DEF GivesUp, Owed
      <3>4. q # NoProc
        OBVIOUS
      <3> QED  BY <1>1, <2>1, <3>1, <3>2, <3>3, <3>4 DEF Owed
    <2>2. \A q \in Procs : Owed(q)' /\ proc'[q].by = m => Owed(q) /\ proc'[q].key = proc[q].key
                            /\ proc[q].by = m
      BY <1>2, <1>4, FadeKeeps DEF history, Fading
    <2> QED  BY <1>5, <1>6, <1>7, <2>1, <2>2 DEF Sweeps
  <1>10. RestOK'
    <2>1. \A a \in Managers, b \in Keys :
            LET p == procs[a][b] IN
            \/ procs'[a][b] = p
            \/ p \in raced
            \/ proc'[p].state = "done"
            \/ proc'[p].state = "asked" /\ Mode(p) = "loop"
      <3>1. \/ procs[m][k] # w \/ proc[w].state = "done"
            \/ proc[w].state = "asked" /\ Mode(w) = "loop"
        BY <1>1 DEF GivesUp, Live
      <3> QED  BY <1>1, <1>2, <1>3, <3>1
    <2>2. /\ thread'[Main].by <= current
          /\ \A p \in Procs : server' \in {"draining", "cleanup"} /\ Owed(p) =>
                             proc[p].by <= thread'[Main].by
      <3>1. t = Main => thread[t].kind = "shutdown"
        BY <1>1, <1>5 DEF Doing
      <3>2. thread'[Main].by = thread[Main].by
        BY <1>6, <1>7, <3>1, MainIsThread
      <3> QED  BY <1>2, <3>2 DEF ManagerInv, OwedHere
    <2> QED  BY <1>2, <1>4, <2>1, <2>2, FadeRest, Parts DEF RestOK, history
  <1>11. \A u \in Threads : CallerOK(u)'
    BY <1>2, <1>4, <1>6, <1>7, <1>8, <1>9, FadeKeeps DEF CallerOK, history
  <1> QED  BY <1>7, <1>10, <1>11, Whole

\* A start, by a handler or by a goroutine that has finished with it.
LEMMA BeginInv ==
  ASSUME ManagerInv, NEW m \in Reachable, NEW k \in Keys, Free(m, k), Begin(m, k),
         UNCHANGED <<current, server, swept>>,
         \/ UNCHANGED thread
         \/ \E t \in Threads : thread[t].kind = "restart" /\ Become(t, Idle)
  PROVE  ManagerInv'
  <1>1. RestOK /\ \A t \in Threads : CallerOK(t)
    BY Parts
  <1>2. m \in Managers /\ m <= current /\ (m < current => m \in swept)
    BY <1>1 DEF Reachable, RestOK, Managers
  <1> DEFINE row == [state |-> "alive", key |-> k, by |-> m]
  <1>3. PICK p \in Procs :
        /\ proc[p].state = "unused"
        /\ proc' = [proc EXCEPT ![p] = row] /\ SetEntry(m, k, p)
        /\ raced' = IF StopUnderWay(m, k) THEN raced \cup {p} ELSE raced
        /\ late' = IF server # "up" \/ m \in swept THEN late \cup {p} ELSE late
    BY DEF Begin, Unstarted
  <1>4. row \in ProcRow /\ row.state = "alive" /\ row.key = k /\ row.by = m
    BY <1>2 DEF ProcRow, States
  <1> HIDE DEF row
  <1>5. /\ proc' \in [Procs -> ProcRow] /\ proc'[p] = row
        /\ \A q \in Procs \ {p} : proc'[q] = proc[q]
    BY <1>1, <1>3, <1>4 DEF RestOK
  <1>6. /\ procs' \in [Managers -> [Keys -> Procs \cup {NoProc}]]
        /\ procs'[m][k] = p
        /\ \A a \in Managers, b \in Keys : a # m \/ b # k => procs'[a][b] = procs[a][b]
    BY <1>2, <1>3, OneEntry
  <1>7. /\ raced \subseteq raced' /\ raced' \subseteq raced \cup {p}
        /\ late \subseteq late' /\ late' \subseteq late \cup {p}
    BY <1>3
  <1>8. \A q \in Procs \ {p} : Owed(q)' => Owed(q)
    BY <1>5, <1>7 DEF Owed, Live, Mode
  <1>9. server # "up" \/ m \in swept => ~Owed(p)'
    BY <1>3 DEF Owed
  <1>10. \A t \in Threads : thread'[t] = thread[t] \/ thread'[t] = Idle
    BY <1>1 DEF CallerOK, Become, ManagerInv, TypeOK
  <1>11. thread' \in [Threads -> ThreadRow]
    BY <1>1, IdleIsRow DEF Become, ManagerInv, TypeOK
  <1>12. Entries'
    BY <1>1, <1>3, <1>4, <1>5, <1>6 DEF Entries, RestOK
  <1>13. Accounted'
    <2>1. ASSUME NEW q \in Procs \ {p}, q \notin raced,
                 proc[q].state \notin {"unused", "done"},
                 ~(proc[q].state = "asked" /\ Mode(q) = "loop")
          PROVE  procs'[proc[q].by][proc[q].key] = q
      <3>1. procs[proc[q].by][proc[q].key] = q
        BY <1>1, <2>1 DEF RestOK, Accounted
      <3>2. proc[q].by \in Managers /\ proc[q].key \in Keys
        BY <1>1, <2>1 DEF RestOK, ProcRow, OwedHere
      <3>3. Live(q)
        BY <1>1, <2>1 DEF Live, RestOK, ProcRow, States
      <3>4. ~(proc[q].by = m /\ proc[q].key = k)
        BY <3>1, <3>3 DEF Free, Running, Listed
      <3> QED  BY <1>6, <3>1, <3>2, <3>4
    <2>2. ASSUME NEW q \in Procs \ {p}
          PROVE  Mode(q)' = Mode(q)
      BY <1>5 DEF Mode
    <2>3. procs'[proc'[p].by][proc'[p].key] = p
      BY <1>4, <1>5, <1>6
    <2> QED  BY <1>5, <1>7, <2>1, <2>2, <2>3 DEF Accounted
  <1>14. OwedHere'
    <2>1. ASSUME NEW q \in Procs, proc'[q].state # "unused"
          PROVE  proc'[q].key \in Keys /\ proc'[q].by <= current
      BY <1>1, <1>2, <1>4, <1>5, <2>1 DEF RestOK, OwedHere
    <2>2. ASSUME NEW q \in Procs, Owed(q)' PROVE proc'[q].by >= current
      <3>1. CASE q = p
        <4>1. m \notin swept
          BY <1>9, <2>2, <3>1
        <4> QED  BY <1>1, <1>2, <1>4, <1>5, <3>1, <4>1 DEF RestOK, Managers
      <3>2. CASE q # p
        BY <1>1, <1>5, <1>8, <2>2, <3>2 DEF RestOK, OwedHere
      <3> QED  BY <3>1, <3>2
    <2>3. ASSUME NEW q \in Procs, Owed(q)', server \in {"draining", "cleanup"}
          PROVE  proc'[q].by <= thread'[Main].by
      <3>1. q # p
        BY <1>9, <2>3
      <3>2. proc[q].by <= thread[Main].by
        BY <1>1, <1>8, <2>3, <3>1 DEF RestOK, OwedHere
      <3>3. thread[Main].kind = "shutdown"
        BY <1>1, <2>3, MainIsThread DEF CallerOK, Doing
      <3>4. thread'[Main] = thread[Main]
        BY <3>3, MainIsThread DEF Become, ManagerInv, TypeOK
      <3> QED  BY <1>5, <3>1, <3>2, <3>4
    <2> QED  BY <2>1, <2>2, <2>3 DEF OwedHere
  <1>15. RestOK'
    <2>1. thread'[Main].by <= current
      BY <1>1, <1>10, IdleIsRow, MainIsThread DEF RestOK, Managers
    <2> QED  BY <1>1, <1>3, <1>5, <1>6, <1>7, <1>12, <1>13, <1>14, <2>1 DEF RestOK
  <1>16. ASSUME NEW t \in Threads, thread'[t] = Idle PROVE CallerOK(t)'
    <2>1. ~(t = Main /\ server \in {"draining", "cleanup"})
      <3>1. thread[t].kind \in {"restart", "none"}
        BY <1>1, <1>16 DEF Become, ManagerInv, TypeOK, Idle
      <3> QED  BY <1>1, <3>1 DEF CallerOK, Doing
    <2> QED  BY <1>11, <1>16, <2>1 DEF CallerOK, Idle, Waits, Doing, Sweeps
  <1>17. ASSUME NEW t \in Threads, thread'[t] = thread[t] PROVE CallerOK(t)'
    <2> DEFINE r == thread[t]
    <2>1. CallerOK(t) /\ r \in ThreadRow
      BY <1>1 DEF CallerOK
    <2>2. Waits(t)'
      <3>1. SUFFICES ASSUME r.pc = "wait"
                     PROVE  /\ r.key \in Keys /\ r.proc \in Procs
                            /\ proc'[r.proc].state \in {"asked", "done"}
                            /\ proc'[r.proc].key = r.key
                            /\ procs'[r.by][r.key] \in {NoProc, r.proc} \cup raced'
        BY <1>17 DEF Waits
      <3>2. /\ r.key \in Keys /\ r.proc \in Procs /\ r.by \in Managers
            /\ proc[r.proc].state \in {"asked", "done"} /\ proc[r.proc].key = r.key
            /\ procs[r.by][r.key] \in {NoProc, r.proc} \cup raced
        BY <2>1, <3>1 DEF CallerOK, Waits, ThreadRow
      <3>3. proc'[r.proc] = proc[r.proc]
        BY <1>3, <1>5, <3>2
      <3>4. CASE r.by = m /\ r.key = k
        <4>1. StopUnderWay(m, k)
          BY <3>1, <3>4 DEF StopUnderWay
        <4> QED  BY <1>3, <1>6, <3>2, <3>3, <3>4, <4>1
      <3>5. CASE ~(r.by = m /\ r.key = k)
        BY <1>6, <1>7, <3>2, <3>3, <3>5
      <3> QED  BY <3>4, <3>5
    <2>3. Doing(t)'
      <3>1. \A u \in Threads : thread'[u].kind = "switch" => thread[u].kind = "switch"
        BY <1>10 DEF Idle
      <3> QED  BY <1>17, <2>1, <3>1 DEF CallerOK, Doing
    <2>4. Sweeps(t)'
      <3>1. SUFFICES ASSUME r.kind \in {"switch", "shutdown"}, r.pc \in {"each", "wait"},
                            NEW q \in Procs, Owed(q)', proc'[q].by = r.by
                     PROVE  \/ proc'[q].key \in r.todo
                            \/ r.pc = "wait" /\ proc'[q].key = r.key
        BY <1>17 DEF Sweeps
      <3>2. q # p
        <4>1. CASE r.kind = "switch"
          <5>1. r.by \in swept
            BY <2>1, <4>1 DEF CallerOK, Doing
          <5> QED  BY <1>4, <1>5, <1>9, <3>1, <5>1
        <4>2. CASE r.kind = "shutdown"
          <5>1. server # "up"
            BY <2>1, <4>2 DEF CallerOK, Doing
          <5> QED  BY <1>9, <3>1, <5>1
        <4> QED  BY <3>1, <4>1, <4>2
      <3>3. Owed(q) /\ proc'[q] = proc[q]
        BY <1>5, <1>8, <3>1, <3>2
      <3> QED  BY <2>1, <3>1, <3>3 DEF CallerOK, Sweeps
    <2> QED  BY <1>17, <2>1, <2>2, <2>3, <2>4 DEF CallerOK
  <1> QED  BY <1>10, <1>11, <1>15, <1>16, <1>17, Whole

LEMMA StartInv == ASSUME ManagerInv, NEW k \in Keys, Start(k) PROVE ManagerInv'
  BY BeginInv DEF Start

LEMMA StartAgainInv ==
  ASSUME ManagerInv, NEW t \in Threads, StartAgain(t) PROVE ManagerInv'
  <1>1. /\ thread[t].pc = "again" /\ Become(t, Idle)
        /\ UNCHANGED <<current, server, swept>>
    BY DEF StartAgain, At
  <1>2. Doing(t) /\ thread[t].kind = "restart" /\ thread[t].key \in Keys /\ t # Main
    BY <1>1 DEF ManagerInv, Doing
  <1>3. CASE Free(current, thread[t].key)
    <2>1. Begin(current, thread[t].key) /\ current \in Reachable
      BY <1>3 DEF StartAgain, Reachable
    <2> QED  BY <1>1, <1>2, <1>3, <2>1, BeginInv
  <1>4. CASE ~Free(current, thread[t].key)
    <2>1. UNCHANGED <<procs, proc, raced, late>>
      BY <1>4 DEF StartAgain
    <2>2. Fading /\ Shrinking
      BY <2>1, SameEntries, SameProcesses
    <2>3. /\ thread' \in [Threads -> ThreadRow] /\ thread'[t] = Idle
          /\ \A u \in Threads \ {t} : thread'[u] = thread[u] /\ Doing(u)'
      BY <1>1, IdleIsRow, OneMoves DEF Idle
    <2>4. CallerOK(t)'
      BY <1>1, <1>2, <2>3, IdleIsRow DEF CallerOK, Idle, Waits, Doing, Sweeps
    <2>5. RestOK'
      BY <1>1, <1>2, <2>1, <2>2, <2>3, StillRest, MainIsThread
    <2>6. \A u \in Threads : CallerOK(u)'
      BY <2>1, <2>2, <2>3, <2>4, FadeKeeps DEF CallerOK
    <2> QED  BY <2>3, <2>5, <2>6, Whole
  <1> QED  BY <1>3, <1>4

LEMMA SwitchInv ==
  ASSUME ManagerInv, NEW t \in Threads, Switch(t) PROVE ManagerInv'
  <1> DEFINE r == [Idle EXCEPT !.kind = "switch", !.pc = "each", !.by = current,
                               !.todo = Listed(current)]
  <1>1. /\ t \in Requests /\ thread[t].kind = "none" /\ current < MaxManager
        /\ \A u \in Requests : thread[u].kind # "switch"
        /\ Become(t, r) /\ swept' = swept \cup {current}
        /\ UNCHANGED <<procs, proc, current, server, raced, late>>
    BY DEF Switch
  <1>2. RestOK /\ \A u \in Threads : CallerOK(u)
    BY Parts
  <1>3. /\ r \in ThreadRow /\ r.kind = "switch" /\ r.pc = "each" /\ r.by = current
        /\ r.todo = Listed(current)
    <2>1. Listed(current) \subseteq Keys /\ current \in Managers
      BY <1>2 DEF Listed, RestOK
    <2> QED  BY <2>1, IdleIsRow DEF Idle, ThreadRow, Kinds, Places
  <1> HIDE DEF r
  <1>4. /\ thread' \in [Threads -> ThreadRow] /\ thread'[t] = r
        /\ \A u \in Threads \ {t} : thread'[u] = thread[u]
    BY <1>1, <1>3 DEF Become, ManagerInv, TypeOK
  <1>5. \A u \in Threads : thread[u].kind # "switch"
    BY <1>1, <1>2 DEF Threads, CallerOK, Doing
  <1>6. Fading /\ Shrinking
    BY <1>1, SameEntries, SameProcesses
  <1>7. ASSUME NEW u \in Threads \ {t} PROVE CallerOK(u)'
    <2>1. Doing(u)'
      BY <1>1, <1>2, <1>4, <1>5 DEF CallerOK, Doing
    <2> QED  BY <1>1, <1>4, <1>6, <2>1, FadeKeeps DEF CallerOK
  <1>8. CallerOK(t)'
    <2>1. Waits(t)' /\ Doing(t)'
      BY <1>1, <1>3, <1>4, <1>5, MainIsThread DEF Waits, Doing
    <2>2. ASSUME NEW q \in Procs, Owed(q), proc[q].by = current
          PROVE  proc[q].key \in Listed(current)
      BY <1>2, <2>2 DEF RestOK, Accounted, Owed, Live, OwedHere, Listed
    <2>3. Sweeps(t)'
      <3>1. \A q \in Procs : Owed(q)' /\ proc'[q].by = current => Owed(q) /\ proc'[q] = proc[q]
        BY <1>1, <1>6, FadeKeeps
      <3> QED  BY <1>3, <1>4, <2>2, <3>1 DEF Sweeps
    <2> QED  BY <1>3, <1>4, <2>1, <2>3 DEF CallerOK
  <1>9. RestOK'
    <2>1. thread'[Main].by = thread[Main].by
      BY <1>1, <1>4, MainIsThread
    <2>2. swept' \subseteq Managers /\ \A m \in swept' : m <= current
      BY <1>1, <1>2 DEF RestOK, Managers
    <2> QED  BY <1>1, <1>2, <1>6, <2>1, <2>2, FadeRest DEF RestOK, OwedHere
  <1> QED  BY <1>4, <1>7, <1>8, <1>9, Whole

LEMMA SwapInv == ASSUME ManagerInv, NEW t \in Threads, Swap(t) PROVE ManagerInv'
  <1>1. /\ thread[t].kind = "switch" /\ thread[t].pc = "each" /\ thread[t].todo = {}
        /\ current' = current + 1 /\ Become(t, Idle)
        /\ UNCHANGED <<procs, proc, server, raced, late, swept>>
    BY DEF Swap, CleanedUp, At, history
  <1>2. RestOK /\ \A u \in Threads : CallerOK(u)
    BY Parts
  <1>3. /\ thread[t].by = current /\ current < MaxManager /\ t # Main
        /\ \A u \in Threads : thread[u].kind = "switch" => u = t
    BY <1>1, <1>2 DEF CallerOK, Doing
  <1>4. current' \in Managers
    BY <1>1, <1>2, <1>3 DEF RestOK, Managers
  <1>5. /\ thread' \in [Threads -> ThreadRow] /\ thread'[t] = Idle
        /\ \A u \in Threads \ {t} : thread'[u] = thread[u]
    BY <1>1, IdleIsRow DEF Become, ManagerInv, TypeOK
  <1>6. Fading /\ Shrinking
    BY <1>1, SameEntries, SameProcesses
  <1>7. ASSUME NEW u \in Threads PROVE CallerOK(u)'
    <2>1. CASE u = t
      BY <1>1, <1>2, <1>3, <1>5, <2>1, IdleIsRow DEF CallerOK, Doing, Waits, Sweeps, Idle
    <2>2. CASE u # t
      <3>1. thread'[u] = thread[u] /\ thread[u].kind # "switch"
        BY <1>3, <1>5, <2>2
      <3>2. Doing(u)'
        BY <1>1, <1>2, <3>1 DEF CallerOK, Doing
      <3> QED  BY <1>1, <1>5, <1>6, <3>1, <3>2, FadeKeeps DEF CallerOK
    <2> QED  BY <2>1, <2>2
  <1>8. RestOK'
    <2>1. \A q \in Procs : ~Owed(q)
      <3>1. SUFFICES ASSUME NEW q \in Procs, Owed(q) PROVE FALSE
        OBVIOUS
      <3>2. proc[q].by <= current /\ proc[q].by >= current /\ proc[q].by \in Managers
        BY <1>2, <3>1 DEF RestOK, OwedHere, Owed, Live, ProcRow
      <3>3. proc[q].by = thread[t].by
        BY <1>2, <1>3, <3>2 DEF RestOK, Managers
      <3> QED  BY <1>1, <1>2, <3>1, <3>3 DEF CallerOK, Sweeps
    <2>2. OwedHere'
      <3>1. \A q \in Procs : ~Owed(q)'
        BY <1>1, <1>6, <2>1, FadeKeeps
      <3>2. \A q \in Procs : proc[q].state # "unused" => proc[q].key \in Keys /\ proc[q].by <= current
        BY <1>2 DEF RestOK, OwedHere
      <3>3. \A q \in Procs : proc[q].by \in Managers
        BY <1>2 DEF RestOK, ProcRow
      <3>4. \A q \in Procs : proc'[q].state # "unused" => proc'[q].key \in Keys /\ proc'[q].by <= current'
        BY <1>1, <1>2, <3>2, <3>3 DEF RestOK, Managers
      <3> QED  BY <3>1, <3>4 DEF OwedHere
    <2>3. Accounted' /\ Entries'
      BY <1>1, <1>2 DEF RestOK, Accounted, Entries, Mode
    <2>4. thread'[Main].by <= current' /\ \A m \in swept' : m <= current'
      <3>1. thread[Main].by \in Managers
        BY MainIsThread DEF ManagerInv, TypeOK, ThreadRow
      <3> QED  BY <1>1, <1>2, <1>3, <1>5, <3>1, MainIsThread DEF RestOK, Managers
    <2> QED  BY <1>1, <1>2, <1>4, <2>2, <2>3, <2>4 DEF RestOK
  <1> QED  BY <1>5, <1>7, <1>8, Whole

LEMMA ShutdownInv == ASSUME ManagerInv, Shutdown PROVE ManagerInv'
  <1> DEFINE r == [Idle EXCEPT !.kind = "shutdown", !.pc = "poll", !.by = current]
             hit == {p \in Procs : /\ proc[p].state = "alive"
                                   /\ p = procs[current][proc[p].key]
                                   /\ Signalled(p)}
  <1>1. /\ server = "up" /\ server' = "draining" /\ Become(Main, r)
        /\ proc' = [p \in Procs |-> IF p \in hit THEN [proc[p] EXCEPT !.state = "asked"]
                                               ELSE proc[p]]
        /\ UNCHANGED <<procs, current, raced, late, swept>>
    BY DEF Shutdown, history
  <1>2. RestOK /\ \A u \in Threads : CallerOK(u)
    BY Parts
  <1>3. \A p \in hit : proc[p].state = "alive"
    OBVIOUS
  <1> HIDE DEF hit
  <1>4. Fading
    <2>1. ASSUME NEW p \in Procs
          PROVE  /\ proc'[p] \in ProcRow
                 /\ proc'[p].key = proc[p].key /\ proc'[p].by = proc[p].by
                 /\ \/ proc'[p].state = proc[p].state
                    \/ proc[p].state = "alive" /\ proc'[p].state = "asked"
      <3>1. proc[p] \in ProcRow
        BY <1>2 DEF RestOK
      <3>2. CASE p \in hit
        <4>1. proc'[p] = [proc[p] EXCEPT !.state = "asked"]
          BY <1>1, <3>2
        <4> QED  BY <1>3, <3>1, <3>2, <4>1 DEF ProcRow, States
      <3>3. CASE p \notin hit
        BY <1>1, <3>1, <3>3
      <3> QED  BY <3>2, <3>3
    <2>2. proc' \in [Procs -> ProcRow]
      BY <1>1, <2>1
    <2> QED  BY <2>1, <2>2 DEF Fading
  <1>5. Shrinking
    BY <1>1, SameEntries
  <1>6. /\ r \in ThreadRow /\ r.kind = "shutdown" /\ r.pc = "poll" /\ r.by = current
    BY <1>2, IdleIsRow DEF Idle, ThreadRow, Kinds, Places, RestOK
  <1> HIDE DEF r
  <1>7. /\ thread' \in [Threads -> ThreadRow] /\ thread'[Main] = r
        /\ \A u \in Threads \ {Main} : thread'[u] = thread[u]
    BY <1>1, <1>6, MainIsThread DEF Become, ManagerInv, TypeOK
  <1>8. ASSUME NEW u \in Threads PROVE CallerOK(u)'
    <2>1. CASE u = Main
      BY <1>1, <1>6, <1>7, <2>1 DEF CallerOK, Waits, Doing, Sweeps
    <2>2. CASE u # Main
      <3>1. \A v \in Threads : thread'[v].kind = "switch" => thread[v].kind = "switch"
        BY <1>6, <1>7
      <3>2. Doing(u)'
        BY <1>1, <1>2, <1>7, <2>2, <3>1 DEF CallerOK, Doing
      <3> QED  BY <1>1, <1>2, <1>4, <1>5, <1>7, <2>2, <3>2, FadeKeeps DEF CallerOK
    <2> QED  BY <2>1, <2>2
  <1>9. RestOK'
    <2>1. \A p \in Procs : Owed(p) => proc[p].by <= current
      BY <1>2 DEF RestOK, OwedHere, Owed, Live
    <2>2. thread'[Main].by = current /\ current <= current
      BY <1>2, <1>6, <1>7 DEF RestOK, Managers
    <2> QED  BY <1>1, <1>2, <1>4, <1>5, <2>1, <2>2, FadeRest DEF RestOK
  <1> QED  BY <1>7, <1>8, <1>9, Whole

\* The exit ends the loops and forgets the callers.
LEMMA ExitInv ==
  ASSUME ManagerInv, Exit, Shrinking,
         \A m \in Managers, k \in Keys :
           \/ procs'[m][k] = procs[m][k]
           \/ proc[procs[m][k]].state = "done"
  PROVE  ManagerInv' /\ \A p \in Procs : Live(p)' => Live(p) /\ Mode(p) # "loop"
  <1> DEFINE hit == {p \in Procs : Live(p) /\ Mode(p) = "loop"}
  <1>1. /\ server' = "down" /\ thread' = [t \in Threads |-> Idle]
        /\ proc' = [p \in Procs |-> IF p \in hit THEN [proc[p] EXCEPT !.state = "done"]
                                               ELSE proc[p]]
        /\ UNCHANGED <<current, raced, late, swept>>
    BY DEF Exit, history
  <1>2. RestOK
    BY Parts
  <1>3. /\ \A p \in hit : proc[p].state \in {"alive", "asked"}
        /\ \A p \in Procs \ hit : Live(p) => Mode(p) # "loop"
    BY DEF Live
  <1> HIDE DEF hit
  <1>4. ASSUME NEW p \in Procs
        PROVE  /\ proc'[p] \in ProcRow
               /\ proc'[p].key = proc[p].key /\ proc'[p].by = proc[p].by
               /\ p \in hit => proc'[p].state = "done"
               /\ p \notin hit => proc'[p] = proc[p]
    <2>1. proc[p] \in ProcRow
      BY <1>2 DEF RestOK
    <2>2. CASE p \in hit
      <3>1. proc'[p] = [proc[p] EXCEPT !.state = "done"]
        BY <1>1, <2>2
      <3> QED  BY <2>1, <2>2, <3>1 DEF ProcRow, States
    <2>3. CASE p \notin hit
      BY <1>1, <2>1, <2>3
    <2> QED  BY <2>2, <2>3
  <1>5. Fading
    BY <1>1, <1>3, <1>4 DEF Fading
  <1>6. \A p \in Procs : Live(p)' => Live(p) /\ Mode(p) # "loop"
    BY <1>3, <1>4 DEF Live
  <1>7. /\ thread' \in [Threads -> ThreadRow] /\ \A u \in Threads : thread'[u] = Idle
    BY <1>1, IdleIsRow
  <1>8. \A u \in Threads : CallerOK(u)'
    BY <1>1, <1>7, IdleIsRow DEF CallerOK, Idle, Waits, Doing, Sweeps
  <1>9. RestOK'
    <2>1. thread'[Main].by <= current
      BY <1>2, <1>7, IdleIsRow, MainIsThread DEF RestOK, Managers
    <2>2. \A m \in Managers, k \in Keys :
            procs'[m][k] = procs[m][k] \/ proc'[procs[m][k]].state = "done"
      <3>1. ASSUME NEW m \in Managers, NEW k \in Keys, procs'[m][k] # procs[m][k]
            PROVE  proc'[procs[m][k]].state = "done"
        <4>1. procs[m][k] \in Procs \cup {NoProc} /\ procs'[m][k] \in {procs[m][k], NoProc}
          BY <1>2 DEF RestOK, Shrinking
        <4>2. procs[m][k] \in Procs /\ proc[procs[m][k]].state = "done"
          BY <3>1, <4>1
        <4> QED  BY <1>4, <4>2
      <3> QED  BY <3>1
    <2> QED  BY <1>1, <1>2, <1>5, <2>1, <2>2, FadeRest DEF RestOK
  <1> QED  BY <1>6, <1>7, <1>8, <1>9, Whole

LEMMA MainsManager == ASSUME ManagerInv PROVE thread[Main].by \in Managers
  BY MainIsThread DEF ManagerInv, TypeOK, ThreadRow

LEMMA DrainedInv ==
  ASSUME ManagerInv, Drained \/ Finish
  PROVE  ManagerInv' /\ \A p \in Procs : Live(p)' => Live(p) /\ Mode(p) # "loop"
  <1>1. CASE Drained
    BY <1>1, MainsManager, PrunedEntries, ExitInv DEF Drained
  <1>2. CASE Finish
    BY <1>2, SameEntries, ExitInv DEF Finish
  <1> QED  BY <1>1, <1>2

LEMMA DrainTimesOutInv == ASSUME ManagerInv, DrainTimesOut PROVE ManagerInv'
  <1> DEFINE r == [thread[Main] EXCEPT !.pc = "each", !.by = current,
                                       !.todo = Listed(current)]
  <1>1. /\ thread[Main].pc = "poll" /\ server' = "cleanup" /\ Become(Main, r)
        /\ UNCHANGED <<procs, proc, current, raced, late, swept>>
    BY DEF DrainTimesOut, At, history
  <1>2. RestOK /\ \A u \in Threads : CallerOK(u)
    BY Parts
  <1>3. thread[Main].kind = "shutdown" /\ server = "draining" /\ thread[Main] \in ThreadRow
    BY <1>1, <1>2, MainIsThread DEF CallerOK, Doing
  <1>4. /\ r \in ThreadRow /\ r.kind = "shutdown" /\ r.pc = "each" /\ r.by = current
        /\ r.todo = Listed(current)
    <2>1. Listed(current) \subseteq Keys /\ current \in Managers
      BY <1>2 DEF Listed, RestOK
    <2> QED  BY <1>3, <2>1 DEF ThreadRow, Kinds, Places
  <1> HIDE DEF r
  <1>5. /\ thread' \in [Threads -> ThreadRow] /\ thread'[Main] = r
        /\ \A u \in Threads \ {Main} : thread'[u] = thread[u]
    BY <1>1, <1>4, MainIsThread DEF Become, ManagerInv, TypeOK
  <1>6. Fading /\ Shrinking
    BY <1>1, SameEntries, SameProcesses
  <1>7. ASSUME NEW q \in Procs, Owed(q), proc[q].by = current
        PROVE  proc[q].key \in Listed(current)
    BY <1>2, <1>7 DEF RestOK, Accounted, Owed, Live, OwedHere, Listed
  <1>8. ASSUME NEW u \in Threads PROVE CallerOK(u)'
    <2>1. CASE u = Main
      <3>1. Waits(u)' /\ Doing(u)'
        BY <1>1, <1>4, <1>5, <2>1 DEF Waits, Doing
      <3>2. \A q \in Procs : Owed(q)' /\ proc'[q].by = current => Owed(q) /\ proc'[q] = proc[q]
        BY <1>1, <1>6, FadeKeeps
      <3>3. Sweeps(u)'
        BY <1>4, <1>5, <1>7, <2>1, <3>2 DEF Sweeps
      <3> QED  BY <1>4, <1>5, <2>1, <3>1, <3>3 DEF CallerOK
    <2>2. CASE u # Main
      <3>1. \A v \in Threads : thread'[v].kind = "switch" => thread[v].kind = "switch"
        BY <1>4, <1>5
      <3>2. Doing(u)'
        BY <1>1, <1>2, <1>3, <1>5, <2>2, <3>1 DEF CallerOK, Doing
      <3> QED  BY <1>1, <1>2, <1>5, <1>6, <2>2, <3>2, FadeKeeps DEF CallerOK
    <2> QED  BY <2>1, <2>2
  <1>9. RestOK'
    <2>1. \A p \in Procs : Owed(p) => proc[p].by <= current
      BY <1>2 DEF RestOK, OwedHere, Owed, Live
    <2>2. thread'[Main].by = current /\ current <= current
      BY <1>2, <1>4, <1>5 DEF RestOK, Managers
    <2> QED  BY <1>1, <1>2, <1>6, <2>1, <2>2, FadeRest DEF RestOK
  <1> QED  BY <1>5, <1>8, <1>9, Whole

LEMMA StutterInv == ASSUME ManagerInv, UNCHANGED vars PROVE ManagerInv'
  <1>1. UNCHANGED <<procs, proc, current, thread, server, raced, late, swept>>
    BY DEF vars, history
  <1>2. Fading /\ Shrinking
    BY <1>1, SameEntries, SameProcesses
  <1>3. RestOK'
    BY <1>1, <1>2, StillRest
  <1> QED  BY <1>1, <1>2, <1>3, NoneMoves, FadeKeeps, Whole DEF CallerOK

\* Every step.
LEMMA NextInv == ASSUME ManagerInv, [Next]_vars PROVE ManagerInv'
  <1>1. ASSUME NEW t \in Threads, StopStep(t) PROVE ManagerInv'
    BY <1>1, KillInv, DeleteInv, StartAgainInv, CleanupNextInv, SwapInv DEF StopStep
  <1>2. ASSUME NEW t \in Requests, Switch(t) PROVE ManagerInv'
    BY <1>2, SwitchInv, MainIsThread
  <1>3. ASSUME ShutdownStep PROVE ManagerInv'
    BY <1>3, DrainedInv, DrainTimesOutInv DEF ShutdownStep
  <1> QED  BY <1>1, <1>2, <1>3, StartInv, StopsInv, EndsInv, PruneInv, ShutdownInv,
              StutterInv DEF Next

LEMMA InitInv == ASSUME Init PROVE ManagerInv
  <1>1. Idle \in ThreadRow /\ 1 \in Managers /\ Unused \in ProcRow
    BY IdleIsRow DEF Unused, ProcRow, States
  <1>2. /\ procs = [m \in Managers |-> [k \in Keys |-> NoProc]]
        /\ proc = [p \in Procs |-> Unused] /\ current = 1
        /\ thread = [t \in Threads |-> Idle] /\ server = "up"
        /\ raced = {} /\ late = {} /\ swept = {}
    BY DEF Init
  <1>3. TypeOK
    BY <1>1, <1>2 DEF TypeOK
  <1>4. Entries /\ Accounted /\ OwedHere
    BY <1>2 DEF Entries, Accounted, OwedHere, Unused, Owed, Live
  <1>5. \A t \in Threads : Waits(t) /\ Doing(t) /\ Sweeps(t)
    BY <1>2 DEF Waits, Doing, Sweeps, Idle
  <1> QED  BY <1>2, <1>3, <1>4, <1>5, MainIsThread, IdleIsRow DEF ManagerInv

\* The invariant of the manager: entries lead to processes of their key, every
\* process that goes on has one unless a stop of its predecessor took it, and a
\* clean-up has all that must not be left behind still before it.
THEOREM ManagerInvHolds == Spec => []ManagerInv
  BY InitInv, NextInv, PTL DEF Spec

\* One process of a key, whatever the callers do, unless one of two was started
\* while a stop of that key was under way (StopKey, StartLoopWithKey).
THEOREM KeyHasOneProcess == Spec => []OnePerKey
  <1>1. ManagerInv => OnePerKey
    <2> SUFFICES ASSUME ManagerInv, NEW p \in Procs, NEW q \in Procs,
                        proc[p].state = "alive", proc[q].state = "alive",
                        proc[p].key = proc[q].key, proc[p].by = proc[q].by,
                        p \notin raced, q \notin raced
                 PROVE  p = q
      BY DEF OnePerKey
    <2>1. \A r \in {p, q} : procs[proc[r].by][proc[r].key] = r
      BY DEF ManagerInv, Accounted
    <2> QED  BY <2>1
  <1> QED  BY <1>1, ManagerInvHolds, PTL

\* A step that asks no one-shot command to end.
Shot(p) == proc[p].state = "asked" /\ Mode(p) = "oneshot"

LEMMA CalmStep ==
  ASSUME OneShotsLeftAlone, swept \subseteq swept',
         server \in {"cleanup", "down"} => server' \in {"cleanup", "down"},
         \A p \in Procs : Shot(p)' => Shot(p) /\ proc'[p].by = proc[p].by
  PROVE  OneShotsLeftAlone'
  BY DEF OneShotsLeftAlone, Shot

\* A process that starts, or ends, is not asked.
LEMMA StateCalm ==
  ASSUME ManagerInv, NEW p \in Procs,
         \/ SetState(p, "done")
         \/ \E k \in Keys, m \in Managers :
              proc' = [proc EXCEPT ![p] = [state |-> "alive", key |-> k, by |-> m]]
  PROVE  \A q \in Procs : Shot(q)' => Shot(q) /\ proc'[q].by = proc[q].by
  <1>1. proc \in [Procs -> ProcRow]
    BY DEF ManagerInv, TypeOK
  <1>2. proc'[p].state # "asked" /\ \A q \in Procs \ {p} : proc'[q] = proc[q]
    BY <1>1 DEF SetState, ProcRow
  <1> QED  BY <1>2 DEF Shot, Mode

LEMMA SameCalm ==
  ASSUME UNCHANGED proc
  PROVE  \A q \in Procs : Shot(q)' => Shot(q) /\ proc'[q].by = proc[q].by
  BY DEF Shot, Mode

LEMMA AskCalm ==
  ASSUME ManagerInv, OneShotsLeftAlone, NEW t \in Threads, NEW m \in Managers,
         NEW k \in Keys, NEW kind, NEW todo, AskToEnd(t, kind, m, k, todo),
         UNCHANGED <<server, swept>>,
         ModeOf[k] # "oneshot" \/ server \in {"cleanup", "down"} \/ m \in swept
  PROVE  OneShotsLeftAlone'
  <1>1. /\ procs[m][k] \in Procs /\ proc[procs[m][k]].key = k
        /\ proc[procs[m][k]].by = m
    BY DEF AskToEnd, Running, Listed, ManagerInv, TypeOK, Entries
  <1>2. /\ \A q \in Procs : proc'[q].key = proc[q].key /\ proc'[q].by = proc[q].by
        /\ \A q \in Procs : q # procs[m][k] => proc'[q] = proc[q]
    BY <1>1 DEF AskToEnd, SetState, ManagerInv, TypeOK, ProcRow
  <1> QED  BY <1>1, <1>2 DEF OneShotsLeftAlone, Mode

LEMMA BeginCalm ==
  ASSUME ManagerInv, NEW m \in Managers, NEW k \in Keys, Begin(m, k)
  PROVE  \A q \in Procs : Shot(q)' => Shot(q) /\ proc'[q].by = proc[q].by
  <1>1. PICK p \in Procs :
          proc' = [proc EXCEPT ![p] = [state |-> "alive", key |-> k, by |-> m]]
    BY DEF Begin, Unstarted
  <1> QED  BY <1>1, StateCalm

LEMMA OneShotsStep ==
  ASSUME ManagerInv, OneShotsLeftAlone, [Next]_vars PROVE OneShotsLeftAlone'
  <1> USE DEF history
  <1>1. Reachable \subseteq Managers /\ current \in Managers
    BY DEF Reachable, ManagerInv, TypeOK
  <1>2. ASSUME NEW k \in Keys, Start(k) PROVE OneShotsLeftAlone'
    <2>1. PICK m \in Managers : Begin(m, k)
      BY <1>1, <1>2 DEF Start
    <2> QED  BY <1>2, <2>1, BeginCalm, CalmStep DEF Start
  <1>3. ASSUME NEW t \in Requests, NEW k \in Keys, Stop(t, k) \/ Restart(t, k)
        PROVE  OneShotsLeftAlone'
    <2>1. ModeOf[k] # "oneshot" /\ UNCHANGED <<server, swept>>
      BY <1>3 DEF Stop, Restart, Stoppable
    <2>2. \E m \in Managers, kind \in {"stop", "restart"} : AskToEnd(t, kind, m, k, {})
      BY <1>1, <1>3 DEF Stop, Restart
    <2> QED  BY <2>1, <2>2, AskCalm, MainIsThread
  <1>4. ASSUME NEW t \in Threads, StopStep(t) PROVE OneShotsLeftAlone'
    <2>1. CASE Kill(t)
      <3>1. thread[t].proc \in Procs /\ SetState(thread[t].proc, "done")
        BY <2>1 DEF ManagerInv, Waits, Kill, At
      <3> QED  BY <2>1, <3>1, StateCalm, CalmStep DEF Kill
    <2>2. CASE Delete(t) \/ Swap(t)
      <3>1. UNCHANGED <<proc, server, swept>>
        BY <2>2 DEF Delete, Swap
      <3> QED  BY <3>1, SameCalm, CalmStep
    <2>3. CASE StartAgain(t)
      <3>1. thread[t].key \in Keys /\ UNCHANGED <<server, swept>>
        BY <2>3 DEF StartAgain, At, ManagerInv, Doing
      <3>2. Begin(current, thread[t].key) \/ UNCHANGED proc
        BY <2>3 DEF StartAgain
      <3> QED  BY <1>1, <3>1, <3>2, BeginCalm, SameCalm, CalmStep
    <2>4. CASE CleanupNext(t)
      <3> DEFINE m == thread[t].by
      <3>1. /\ thread[t] \in ThreadRow /\ m \in Managers /\ UNCHANGED <<server, swept>>
            /\ server = "cleanup" \/ m \in swept
        BY <2>4 DEF CleanupNext, At, ManagerInv, TypeOK, ThreadRow, Doing
      <3>2. PICK k \in thread[t].todo :
              \/ AskToEnd(t, thread[t].kind, m, k, thread[t].todo \ {k})
              \/ UNCHANGED proc
        BY <2>4 DEF CleanupNext
      <3>3. k \in Keys
        BY <3>1, <3>2 DEF ThreadRow
      <3> QED  BY <3>1, <3>2, <3>3, AskCalm, SameCalm, CalmStep
    <2> QED  BY <1>4, <2>1, <2>2, <2>3, <2>4 DEF StopStep
  <1>5. ASSUME NEW p \in Procs, Ends(p) PROVE OneShotsLeftAlone'
    BY <1>5, StateCalm, CalmStep DEF Ends
  <1>6. CASE Shutdown
    <2>1. \A p \in Procs : Shot(p)' => Shot(p) /\ proc'[p].by = proc[p].by
      BY <1>6 DEF Shutdown, Shot, Mode, Signalled, ManagerInv, TypeOK, ProcRow
    <2> QED  BY <1>6, <2>1, CalmStep DEF Shutdown
  <1>7. CASE ShutdownStep
    <2>1. CASE DrainTimesOut
      BY <2>1, SameCalm, CalmStep DEF DrainTimesOut
    <2>2. CASE Drained \/ Finish
      BY <2>2 DEF Drained, Finish, Exit, OneShotsLeftAlone
    <2> QED  BY <1>7, <2>1, <2>2 DEF ShutdownStep
  <1>8. ASSUME NEW t \in Requests, Switch(t) PROVE OneShotsLeftAlone'
    BY <1>8, SameCalm, CalmStep DEF Switch
  <1>9. CASE (\E m \in Managers : Prune(m)) \/ UNCHANGED vars
    BY <1>9, SameCalm, CalmStep DEF Prune, vars
  <1> QED  BY <1>2, <1>3, <1>4, <1>5, <1>6, <1>7, <1>8, <1>9 DEF Next

\* Wakeups and tasks started by hand are signalled by a clean-up only: when the
\* time to drain is over, or when the workspace is left.
THEOREM OneShotsFinish == Spec => []OneShotsLeftAlone
  <1>1. Init => OneShotsLeftAlone
    BY DEF Init, OneShotsLeftAlone, Unused
  <1> QED  BY <1>1, ManagerInvHolds, OneShotsStep, PTL DEF Spec

\* The exit comes when nothing is owed any more.
LEMMA NothingOwed ==
  ASSUME ManagerInv, Drained \/ Finish, NEW p \in Procs PROVE ~Owed(p)
  <1>1. SUFFICES ASSUME Owed(p) PROVE FALSE
    OBVIOUS
  <1>2. /\ proc[p].by \in Managers /\ proc[p].key \in Keys
        /\ proc[p].by >= current /\ proc[p].by <= current
        /\ procs[proc[p].by][proc[p].key] = p
    BY <1>1 DEF ManagerInv, TypeOK, ProcRow, OwedHere, Owed, Live, Accounted
  <1>3. Doing(Main) /\ Sweeps(Main) /\ thread[Main].by <= current
    BY MainIsThread DEF ManagerInv
  <1>4. thread[Main].by \in Managers
    BY MainsManager
  <1>5. CASE Drained
    <2>1. server = "draining" /\ Running(thread[Main].by) = {}
      BY <1>3, <1>5 DEF Drained, At, Doing
    <2>2. proc[p].by <= thread[Main].by
      BY <1>1, <2>1 DEF ManagerInv, OwedHere
    <2>3. proc[p].by = thread[Main].by
      BY <1>2, <1>3, <1>4, <2>2 DEF Managers, ManagerInv, TypeOK
    <2>4. proc[p].key \in Running(proc[p].by)
      BY <1>1, <1>2 DEF Running, Listed, Owed
    <2> QED  BY <2>1, <2>3, <2>4
  <1>6. CASE Finish
    <2>1. /\ thread[Main].kind = "shutdown" /\ thread[Main].pc = "each"
          /\ thread[Main].todo = {} /\ server = "cleanup"
      BY <1>3, <1>6 DEF Finish, CleanedUp, At, Doing
    <2>2. proc[p].by <= thread[Main].by
      BY <1>1, <2>1 DEF ManagerInv, OwedHere
    <2>3. proc[p].by = thread[Main].by
      BY <1>2, <1>3, <1>4, <2>2 DEF Managers, ManagerInv, TypeOK
    <2> QED  BY <1>1, <1>3, <2>1, <2>3 DEF Sweeps
  <1> QED  BY <1>5, <1>6

LEMMA NothingLeftStep ==
  ASSUME ManagerInv, NothingLeftBehind, [Next]_vars PROVE NothingLeftBehind'
  <1> USE DEF history
  <1>1. CASE Drained \/ Finish
    <2>1. \A p \in Procs : Live(p)' => Live(p) /\ Mode(p) # "loop"
      BY <1>1, DrainedInv
    <2>2. raced' = raced /\ late' = late
      BY <1>1 DEF Drained, Finish, Exit
    <2> QED  BY <1>1, <2>1, <2>2, NothingOwed DEF NothingLeftBehind, Owed
  <1>2. CASE server = "down" /\ ~(Drained \/ Finish)
    <2>1. (\E p \in Procs : Ends(p)) \/ UNCHANGED vars
      <3>1. ~Up
        BY <1>2 DEF Up
      <3>2. \A t \in Threads : ~StopStep(t)
        BY <3>1 DEF StopStep, Kill, Delete, StartAgain, CleanupNext, Swap, CleanedUp, At
      <3>3. ~DrainTimesOut /\ ~Shutdown
        BY <1>2, <3>1 DEF DrainTimesOut, At, Shutdown
      <3> QED  BY <1>2, <3>1, <3>2, <3>3 DEF Next, ShutdownStep, Start, Stop, Restart,
                                             Switch, Prune
    <2>2. CASE UNCHANGED vars
      BY <2>2 DEF vars, NothingLeftBehind, Live
    <2>3. ASSUME NEW p \in Procs, Ends(p) PROVE NothingLeftBehind'
      <3>1. Fading /\ raced' = raced /\ late' = late /\ server' = server
        BY <2>3, StateFades DEF Ends
      <3>2. \A q \in Procs : Live(q)' => Live(q)
        BY <3>1 DEF Fading, Live
      <3> QED  BY <3>1, <3>2 DEF NothingLeftBehind
    <2> QED  BY <2>1, <2>2, <2>3
  <1>3. CASE server # "down" /\ ~(Drained \/ Finish)
    <2>1. server' # "down"
      <3>1. ASSUME NEW t \in Threads, StopStep(t) PROVE server' = server
        BY <3>1 DEF StopStep, Kill, Delete, StartAgain, CleanupNext, Swap
      <3>2. CASE DrainTimesOut \/ Shutdown
        BY <3>2 DEF DrainTimesOut, Shutdown
      <3>3. ASSUME NEW t \in Requests, NEW k \in Keys, Stop(t, k) \/ Restart(t, k)
            PROVE  server' = server
        BY <3>3 DEF Stop, Restart
      <3>4. ASSUME NEW t \in Requests, Switch(t) PROVE server' = server
        BY <3>4 DEF Switch
      <3>5. ASSUME NEW k \in Keys, Start(k) PROVE server' = server
        BY <3>5 DEF Start
      <3>6. CASE \/ \E p \in Procs : Ends(p)
                 \/ \E m \in Managers : Prune(m)
                 \/ UNCHANGED vars
        BY <1>3, <3>6 DEF Ends, Prune, vars
      <3> QED  BY <1>3, <3>1, <3>2, <3>3, <3>4, <3>5, <3>6 DEF Next, ShutdownStep
    <2> QED  BY <2>1 DEF NothingLeftBehind
  <1> QED  BY <1>1, <1>2, <1>3

\* A server that has shut down leaves no command behind it, whatever is started
\* and stopped while it drains, but those that a stop lost and those started
\* too late (GracefulShutdown, Cleanup).
THEOREM ShutdownLeavesNothing == Spec => []NothingLeftBehind
  <1>1. Init => NothingLeftBehind
    BY DEF Init, NothingLeftBehind
  <1> QED  BY <1>1, ManagerInvHolds, NothingLeftStep, PTL DEF Spec
=============================================================================
