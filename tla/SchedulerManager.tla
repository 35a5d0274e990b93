-------------------------- MODULE SchedulerManager --------------------------
(***************************************************************************)
(* What the API server starts and stops: the loops and child processes of  *)
(* internal/api/scheduler_manager.go.  A manager maps keys to processes    *)
(* under a mutex; StopKey takes the mutex to look a process up and again,  *)
(* up to five seconds later, to delete the key.  Between the two, other    *)
(* callers start and stop what they like.  Switching the workspace and     *)
(* shutting the server down go through the same map, key by key.           *)
(***************************************************************************)
EXTENDS Naturals

CONSTANTS
    Keys,       \* "all", "project", "project/agent", "worker/<id>", ...
    ModeOf,     \* [Keys -> {"loop", "local", "oneshot"}]
    Procs,      \* the processes that can be started
    NoProc,     \* no entry in the map, no process
    NoKey,
    Requests,   \* callers that stop something: handlers and goroutines
    Main,       \* the goroutine that shuts the server down
    MaxManager  \* bound: the first manager and those of later workspaces

Managers == 1..MaxManager
Threads == Requests \cup {Main}

ASSUME ManagerAssumption ==
    /\ ModeOf \in [Keys -> {"loop", "local", "oneshot"}]
    /\ NoProc \notin Procs
    /\ NoKey \notin Keys
    /\ Main \notin Requests
    /\ MaxManager \in Nat \ {0}

VARIABLES
    procs,      \* the map of each manager
    proc,       \* the schedulerProcess records
    current,    \* s.sched: the manager of the open workspace
    thread,     \* what each caller that stops something is doing
    server,     \* "up", "draining" (GracefulShutdown), "cleanup", "down"
    raced,      \* history: processes started while a stop of their key was
                \* under way
    swept,      \* history: managers whose clean-up for a switch has begun
    late        \* history: processes started on such a manager, or once the
                \* server had begun to shut down

history == <<raced, swept, late>>
vars == <<procs, proc, current, thread, server, history>>

-----------------------------------------------------------------------------
\* "asked": the context is cancelled or SIGTERM sent; "done": doneCh is closed.
States == {"unused", "alive", "asked", "done"}
Kinds == {"none", "stop", "restart", "switch", "shutdown"}
Places == {"idle", "each", "wait", "again", "poll"}

ProcRow == [state : States, key : Keys \cup {NoKey}, by : Managers]
ThreadRow ==
    [kind : Kinds, pc : Places, by : Managers, key : Keys \cup {NoKey},
     proc : Procs \cup {NoProc}, todo : SUBSET Keys]

Unused == [state |-> "unused", key |-> NoKey, by |-> 1]
Idle == [kind |-> "none", pc |-> "idle", by |-> 1, key |-> NoKey,
         proc |-> NoProc, todo |-> {}]

TypeOK ==
    /\ procs \in [Managers -> [Keys -> Procs \cup {NoProc}]]
    /\ proc \in [Procs -> ProcRow]
    /\ current \in Managers
    /\ thread \in [Threads -> ThreadRow]
    /\ server \in {"up", "draining", "cleanup", "down"}
    /\ raced \subseteq Procs /\ late \subseteq Procs
    /\ swept \subseteq Managers

Init ==
    /\ procs = [m \in Managers |-> [k \in Keys |-> NoProc]]
    /\ proc = [p \in Procs |-> Unused]
    /\ current = 1
    /\ thread = [t \in Threads |-> Idle]
    /\ server = "up"
    /\ raced = {} /\ swept = {} /\ late = {}

-----------------------------------------------------------------------------
Live(p) == proc[p].state \in {"alive", "asked"}
Mode(p) == ModeOf[proc[p].key]
Listed(m) == {k \in Keys : procs[m][k] # NoProc}
Running(m) == {k \in Listed(m) : Live(procs[m][k])}

Up == server # "down"
At(t, pc) == Up /\ thread[t].pc = pc
Become(t, r) == thread' = [thread EXCEPT ![t] = r]
SetState(p, s) == proc' = [proc EXCEPT ![p] = [@ EXCEPT !.state = s]]
SetEntry(m, k, p) == procs' = [procs EXCEPT ![m] = [@ EXCEPT ![k] = p]]

\* s.sched is read without a lock: a caller may still use the manager of a
\* workspace that is being, or has been, left.
Reachable == {current} \cup swept

\* The keys a person can name: one-shot commands have keys of their own.
Stoppable == {k \in Keys : ModeOf[k] # "oneshot"}

-----------------------------------------------------------------------------
(* StartManagedCommand and StartLoopWithKey, under the mutex *)

\* variant: an entry does not keep a second process out
FreeAlways(m, k) == TRUE

Free(m, k) == k \notin Running(m)

StopUnderWay(m, k) ==
    \E t \in Threads :
        thread[t].pc = "wait" /\ thread[t].by = m /\ thread[t].key = k

Unstarted == {p \in Procs : proc[p].state = "unused"}

\* Any process that was not started yet will do: they are all alike.
Begin(m, k) ==
    /\ Unstarted # {}
    /\ LET p == CHOOSE p \in Unstarted : TRUE IN
        /\ proc' = [proc EXCEPT ![p] = [state |-> "alive", key |-> k, by |-> m]]
        /\ SetEntry(m, k, p)
        /\ raced' = IF StopUnderWay(m, k) THEN raced \cup {p} ELSE raced
        /\ late' = IF server # "up" \/ m \in swept THEN late \cup {p} ELSE late

\* handleSchedulerStart, ensureAgentSchedulerRunning, StartWorkspaceScheduler,
\* a wakeup command, a task started by hand; refused while the key runs.
Start(k) ==
    /\ Up
    /\ \E m \in Reachable : Free(m, k) /\ Begin(m, k)
    /\ UNCHANGED <<current, thread, server, swept>>

\* A command exits by itself; a loop returns only when it has been asked.
Ends(p) ==
    /\ Live(p)
    /\ Mode(p) = "loop" => proc[p].state = "asked"
    /\ SetState(p, "done")
    /\ UNCHANGED <<procs, current, thread, server, history>>

\* variant: the whole map is emptied
PrunedWhole(m) == [procs EXCEPT ![m] = [k \in Keys |-> NoProc]]

Pruned(m) == [procs EXCEPT ![m] =
    [k \in Keys |-> IF k \in Running(m) THEN @[k] ELSE NoProc]]

\* WaitKey, the goroutine behind a one-shot command that has ended, prunes the
\* whole map; each does so once, at some time, which here may be any times.
Prune(m) ==
    /\ Up
    /\ \E p \in Procs : /\ proc[p].state = "done" /\ proc[p].by = m
                        /\ Mode(p) = "oneshot"
    /\ procs' = Pruned(m)
    /\ UNCHANGED <<proc, current, thread, server, history>>

-----------------------------------------------------------------------------
(* StopKey *)

\* The entry is looked up, and a process that runs is asked to end.
AskToEnd(t, kind, m, k, todo) ==
    /\ k \in Running(m)
    /\ SetState(procs[m][k], "asked")
    /\ Become(t, [kind |-> kind, pc |-> "wait", by |-> m, key |-> k,
                  proc |-> procs[m][k], todo |-> todo])

\* handleSchedulerStop
Stop(t, k) ==
    /\ Up /\ t \in Requests /\ thread[t].kind = "none"
    /\ k \in Stoppable
    /\ \E m \in Reachable : AskToEnd(t, "stop", m, k, {})
    /\ UNCHANGED <<procs, current, server, history>>

\* Settings were saved: a goroutine stops the local scheduler that runs and
\* later starts it again.
Restart(t, k) ==
    /\ Up /\ t \in Requests /\ thread[t].kind = "none"
    /\ ModeOf[k] = "local"
    /\ \E m \in Reachable : AskToEnd(t, "restart", m, k, {})
    /\ UNCHANGED <<procs, current, server, history>>

\* Five seconds have passed: a command is killed.
Kill(t) ==
    /\ At(t, "wait")
    /\ LET p == thread[t].proc IN
         Live(p) /\ Mode(p) # "loop" /\ SetState(p, "done")
    /\ UNCHANGED <<procs, current, thread, server, history>>

\* variant: a command that does not react is forgotten, as a loop is
GivesUpOnAll(p) == TRUE

\* A loop that has not returned after five seconds is forgotten.
GivesUp(p) == ~Live(p) \/ Mode(p) = "loop"

\* The key is deleted, whatever process it leads to by now.
Delete(t) ==
    /\ At(t, "wait")
    /\ GivesUp(thread[t].proc)
    /\ SetEntry(thread[t].by, thread[t].key, NoProc)
    /\ Become(t, CASE thread[t].kind = "stop" -> Idle
                   [] thread[t].kind = "restart" ->
                        [thread[t] EXCEPT !.pc = "again", !.proc = NoProc]
                   [] OTHER ->
                        [thread[t] EXCEPT !.pc = "each", !.key = NoKey,
                                          !.proc = NoProc])
    /\ UNCHANGED <<proc, current, server, history>>

StartAgain(t) ==
    /\ At(t, "again")
    /\ LET k == thread[t].key IN
         IF Free(current, k) THEN Begin(current, k)
                             ELSE UNCHANGED <<procs, proc, raced, late>>
    /\ Become(t, Idle)
    /\ UNCHANGED <<current, server, swept>>

-----------------------------------------------------------------------------
(* Cleanup: StopKey for the keys of the moment, one after the other *)

CleanupNext(t) ==
    /\ At(t, "each")
    /\ \E k \in thread[t].todo :
         LET m == thread[t].by
             todo == thread[t].todo \ {k} IN
         \/ AskToEnd(t, thread[t].kind, m, k, todo)
         \/ /\ k \notin Running(m)
            /\ Become(t, [thread[t] EXCEPT !.todo = todo])
            /\ UNCHANGED proc
    /\ UNCHANGED <<procs, current, server, history>>

CleanedUp(t) == At(t, "each") /\ thread[t].todo = {}

\* switchWorkspaceRoot, under workspaceMu: clean up, then a new manager.
Switch(t) ==
    /\ Up /\ t \in Requests /\ thread[t].kind = "none"
    /\ current < MaxManager
    /\ \A u \in Requests : thread[u].kind # "switch"
    /\ Become(t, [Idle EXCEPT !.kind = "switch", !.pc = "each", !.by = current,
                              !.todo = Listed(current)])
    /\ swept' = swept \cup {current}
    /\ UNCHANGED <<procs, proc, current, server, raced, late>>

Swap(t) ==
    /\ thread[t].kind = "switch" /\ CleanedUp(t)
    /\ current' = current + 1
    /\ Become(t, Idle)
    /\ UNCHANGED <<procs, proc, server, history>>

-----------------------------------------------------------------------------
(* ShutdownGracefully *)

\* variant: every process is signalled
SignalledAll(p) == TRUE

Signalled(p) == Mode(p) # "oneshot"

\* GracefulShutdown cancels the loops and sends SIGTERM to the schedulers;
\* one-shot commands are left alone.
Shutdown ==
    /\ server = "up"
    /\ server' = "draining"
    /\ Become(Main, [Idle EXCEPT !.kind = "shutdown", !.pc = "poll",
                                 !.by = current])
    /\ proc' = [p \in Procs |->
                  IF /\ proc[p].state = "alive"
                     /\ p = procs[current][proc[p].key]
                     /\ Signalled(p)
                    THEN [proc[p] EXCEPT !.state = "asked"] ELSE proc[p]]
    /\ UNCHANGED <<procs, current, history>>

\* The process exits: its goroutines are gone, its commands are not.
Exit ==
    /\ server' = "down"
    /\ thread' = [t \in Threads |-> Idle]
    /\ proc' = [p \in Procs |->
                  IF Live(p) /\ Mode(p) = "loop"
                    THEN [proc[p] EXCEPT !.state = "done"] ELSE proc[p]]
    /\ UNCHANGED <<current, history>>

\* Nothing in the map runs any more,
Drained ==
    /\ At(Main, "poll") /\ Running(thread[Main].by) = {}
    /\ procs' = Pruned(thread[Main].by)
    /\ Exit

\* variant: the processes that are left over are not cleaned up
DrainTimesOutAndExits ==
    /\ At(Main, "poll") /\ Running(thread[Main].by) # {}
    /\ UNCHANGED procs
    /\ Exit

\* variant: one-shot commands are waited for, however long they take
DrainWaitsForOneShots ==
    /\ At(Main, "poll") /\ Running(thread[Main].by) # {}
    /\ \A k \in Running(thread[Main].by) : ModeOf[k] # "oneshot"
    /\ server' = "cleanup"
    /\ Become(Main, [thread[Main] EXCEPT !.pc = "each", !.by = current,
                                         !.todo = Listed(current)])
    /\ UNCHANGED <<procs, proc, current, history>>

\* or the time to drain is over, and what is in the map is stopped.
DrainTimesOut ==
    /\ At(Main, "poll") /\ Running(thread[Main].by) # {}
    /\ server' = "cleanup"
    /\ Become(Main, [thread[Main] EXCEPT !.pc = "each", !.by = current,
                                         !.todo = Listed(current)])
    /\ UNCHANGED <<procs, proc, current, history>>

Finish ==
    /\ thread[Main].kind = "shutdown" /\ CleanedUp(Main)
    /\ UNCHANGED procs
    /\ Exit

-----------------------------------------------------------------------------
StopStep(t) == Kill(t) \/ Delete(t) \/ StartAgain(t) \/ CleanupNext(t) \/ Swap(t)
ShutdownStep == Drained \/ DrainTimesOut \/ Finish

Next ==
    \/ \E k \in Keys : Start(k)
    \/ \E t \in Requests, k \in Keys : Stop(t, k) \/ Restart(t, k)
    \/ \E t \in Requests : Switch(t)
    \/ \E t \in Threads : StopStep(t)
    \/ \E p \in Procs : Ends(p)
    \/ \E m \in Managers : Prune(m)
    \/ Shutdown \/ ShutdownStep

Spec == Init /\ [][Next]_vars

\* Callers go on, and the time-outs of StopKey and of the drain are timers.
\* Nothing is assumed of the processes: a command may ignore SIGTERM, the tick
\* of a loop may hang.
Fairness == WF_vars(ShutdownStep) /\ \A t \in Threads : WF_vars(StopStep(t))

FairSpec == Spec /\ Fairness

-----------------------------------------------------------------------------
(* The invariant from which the properties follow *)

\* An entry leads to a process that was started for its key,
Entries ==
    \A m \in Managers, k \in Keys :
        LET p == procs[m][k] IN
        p # NoProc => /\ proc[p].state # "unused"
                      /\ proc[p].key = k /\ proc[p].by = m

\* and every process that was not asked to end, and every command that has not
\* ended, has an entry, unless a stop of its predecessor took it.
Accounted ==
    \A p \in Procs :
        \/ proc[p].state \in {"unused", "done"}
        \/ proc[p].state = "asked" /\ Mode(p) = "loop"
        \/ procs[proc[p].by][proc[p].key] = p
        \/ p \in raced

\* A caller that waits has asked its process to end, and what has become of the
\* entry meanwhile is in raced.
Waits(t) ==
    LET r == thread[t] IN
    r.pc = "wait" =>
        /\ r.key \in Keys /\ r.proc \in Procs
        /\ proc[r.proc].state \in {"asked", "done"}
        /\ proc[r.proc].key = r.key
        /\ procs[r.by][r.key] \in {NoProc, r.proc} \cup raced

\* What each kind of caller can be doing, and when.
Doing(t) ==
    LET r == thread[t] IN
    /\ r.pc = "idle" <=> r.kind = "none"
    /\ t = Main => r.kind \in {"none", "shutdown"}
    /\ r.pc = "each" => r.kind \in {"switch", "shutdown"}
    /\ r.pc = "again" => r.kind = "restart" /\ r.key \in Keys
    /\ r.pc = "poll" => r.kind = "shutdown" /\ server = "draining"
    /\ r.kind = "shutdown" <=> t = Main /\ server \in {"draining", "cleanup"}
    /\ r.kind = "shutdown" /\ r.pc # "poll" => server = "cleanup"
    /\ r.kind = "switch" =>
         /\ r.by = current /\ current \in swept /\ current < MaxManager
         /\ \A u \in Threads : thread[u].kind = "switch" => u = t

\* A command that must not be left behind.
Owed(p) == Live(p) /\ Mode(p) # "loop" /\ p \notin raced \cup late

\* A clean-up still has the keys of all of them before it,
Sweeps(t) ==
    LET r == thread[t] IN
    r.kind \in {"switch", "shutdown"} /\ r.pc \in {"each", "wait"} =>
        \A p \in Procs :
            Owed(p) /\ proc[p].by = r.by =>
                \/ proc[p].key \in r.todo
                \/ r.pc = "wait" /\ proc[p].key = r.key

\* so earlier workspaces have none, and no workspace was opened after the one
\* that a shutdown looks at without its processes being late.
OwedHere ==
    \A p \in Procs :
        /\ proc[p].state # "unused" => proc[p].key \in Keys /\ proc[p].by <= current
        /\ Owed(p) => proc[p].by >= current
        /\ Owed(p) /\ server \in {"draining", "cleanup"} =>
             proc[p].by <= thread[Main].by

ManagerInv ==
    /\ TypeOK
    /\ Entries /\ Accounted /\ OwedHere
    /\ \A t \in Threads : Waits(t) /\ Doing(t) /\ Sweeps(t)
    /\ thread[Main].by <= current
    /\ \A m \in swept : m <= current

-----------------------------------------------------------------------------
\* A key has one process that nobody asked to end, unless one of two was
\* started between the look-up and the delete of a stop of that key: only then
\* can a stop take the entry of a process it did not stop.
OnePerKey ==
    \A p, q \in Procs :
        /\ proc[p].state = "alive" /\ proc[q].state = "alive"
        /\ proc[p].key = proc[q].key /\ proc[p].by = proc[q].by
        => p = q \/ {p, q} \cap raced # {}

\* Wakeups and tasks started by hand are left to finish their work: they are
\* signalled only when the time to drain is over, or for another workspace.
OneShotsLeftAlone ==
    \A p \in Procs :
        proc[p].state = "asked" /\ Mode(p) = "oneshot" =>
            server \in {"cleanup", "down"} \/ proc[p].by \in swept

\* A server that was shut down leaves no command running behind it, except
\* those that a stop had lost before and those started too late.
NothingLeftBehind ==
    server = "down" =>
        \A p \in Procs : Live(p) => p \in raced \cup late

\* However processes behave, a shutdown comes to its end,
ShutdownCompletes == server = "draining" ~> server = "down"

\* and a command that was asked to end does not go on for ever.
AskedCommandEnds ==
    \A p \in Procs :
        proc[p].state = "asked" /\ Mode(p) # "loop"
        ~> proc[p].state = "done" \/ p \in raced \cup late
=============================================================================
