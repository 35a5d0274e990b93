------------------------------ MODULE WebChat ------------------------------
(***************************************************************************)
(* Talking to one agent from the web console: handleAgentChat and its stop *)
(* (internal/api/agent_chat_handlers.go) with the session they hold        *)
(* meanwhile (internal/api/interaction_helpers.go, internal/interaction).  *)
(* A session is a lock in the server's memory and a row of the database,   *)
(* one of each per person; the agent's process is listed in execProcs, one *)
(* entry per agent, checked, filled and deleted in separate critical       *)
(* sections, by key. An agent on a runtime node has a run in the queue     *)
(* instead of a process.                                                   *)
(***************************************************************************)
EXTENDS Naturals

CONSTANTS
    Chats,      \* requests to talk to the agent, one message each
    People,     \* who sends them: a source of the interaction manager
    PersonOf,   \* [Chats -> People]
    Stops,      \* requests to stop the agent
    Nobody,     \* lock not held, no entry
    Orphan,     \* a lock that nobody will release
    MaxFaults,  \* bound: database calls that fail
    MaxCrashes  \* bound: restarts of the server

ASSUME ChatAssumption ==
    /\ PersonOf \in [Chats -> People]
    /\ Nobody \notin Chats /\ Orphan \notin Chats /\ Nobody # Orphan
    /\ MaxFaults \in Nat /\ MaxCrashes \in Nat

VARIABLES
    chat,       \* where each request is in its handler
    lock,       \* interactions.active: the session a person has in memory
    row,        \* interactive_sessions: the row of each request's session
    exec,       \* execProcs[agent]: whose entry, and is it only a placeholder
    child,      \* the "multigent exec" process of each request
    run,        \* or its run in the queue of the runtime nodes
    stop,       \* the process each stop request is about to kill
    up, faults, crashes,
    stuck,      \* history: requests whose row a failed call has left as it was: a write
                \* of the row, or the list of open rows at a start of the server
    letgo,      \* history: requests whose entry others have removed
    meddled     \* history: a stop took an entry, or the server was restarted

vars == <<chat, lock, row, exec, child, run, stop, up, faults, crashes,
          stuck, letgo, meddled>>

-----------------------------------------------------------------------------
Places == {"idle", "insert", "drop", "look", "sync", "exec", "start", "register",
           "stream", "unregister", "enqueue", "poll", "settle", "unlock", "ended"}
NoEntry == [by |-> Nobody, started |-> FALSE]
Entries == [by : Chats \cup {Nobody}, started : BOOLEAN]

TypeOK ==
    /\ chat \in [Chats -> Places]
    /\ lock \in [People -> Chats \cup {Nobody, Orphan}]
    /\ row \in [Chats -> {"none", "active", "closed"}]
    /\ exec \in Entries
    /\ child \in [Chats -> {"none", "alive", "ended"}]
    /\ run \in [Chats -> {"none", "open", "reported", "cancelled"}]
    /\ stop \in [Stops -> Chats \cup {Nobody}]
    /\ up \in BOOLEAN /\ meddled \in BOOLEAN
    /\ faults \in 0..MaxFaults /\ crashes \in 0..MaxCrashes
    /\ stuck \subseteq Chats /\ letgo \subseteq Chats

Init ==
    /\ chat = [c \in Chats |-> "idle"]
    /\ lock = [p \in People |-> Nobody]
    /\ row = [c \in Chats |-> "none"]
    /\ exec = NoEntry
    /\ child = [c \in Chats |-> "none"]
    /\ run = [c \in Chats |-> "none"]
    /\ stop = [s \in Stops |-> Nobody]
    /\ up = TRUE /\ faults = 0 /\ crashes = 0
    /\ stuck = {} /\ letgo = {} /\ meddled = FALSE

sessions == <<lock, row, stuck>>
work == <<exec, child, run, letgo>>
outside == <<stop, up, crashes, meddled>>

At(c, pc) == up /\ chat[c] = pc
Set(f, c, v) == [f EXCEPT ![c] = v]
Goto(c, pc) == chat' = Set(chat, c, pc)
Fault == faults < MaxFaults /\ faults' = faults + 1

SamePerson(c) == {d \in Chats : PersonOf[d] = PersonOf[c]}
HasActiveRow(c) == \E d \in SamePerson(c) : row[d] = "active"

-----------------------------------------------------------------------------
(* acquireAgentInteractionLease *)

\* interactions.Acquire
Ask(c) ==
    /\ At(c, "idle")
    /\ IF lock[PersonOf[c]] = Nobody
         THEN lock' = Set(lock, PersonOf[c], c) /\ Goto(c, "insert")
         ELSE Goto(c, "ended") /\ UNCHANGED lock
    /\ UNCHANGED <<row, stuck, work, outside, faults>>

\* CreateInteractionSession; the agent is local, or assigned to a node.
Insert(c) ==
    /\ At(c, "insert")
    /\ \/ /\ ~HasActiveRow(c)
          /\ row' = Set(row, c, "active")
          /\ \E pc \in {"exec", "enqueue"} : Goto(c, pc)
          /\ UNCHANGED <<stuck, faults>>
       \/ HasActiveRow(c) /\ Goto(c, "drop") /\ UNCHANGED <<row, stuck, faults>>
       \/ Fault /\ stuck' = stuck \cup {c} /\ Goto(c, "drop") /\ UNCHANGED row
    /\ UNCHANGED <<lock, work, outside>>

ReleaseLock(c) ==
    lock' = IF lock[PersonOf[c]] = c THEN Set(lock, PersonOf[c], Nobody) ELSE lock

\* The insert failed: the lock is given back,
DropLock(c) ==
    /\ At(c, "drop")
    /\ ReleaseLock(c) /\ Goto(c, "look")
    /\ UNCHANGED <<row, stuck, work, outside, faults>>

\* and if the person has an active row, the one that was in the way or another,
Look(c) ==
    /\ At(c, "look")
    /\ \/ Goto(c, IF HasActiveRow(c) THEN "sync" ELSE "ended") /\ UNCHANGED faults
       \/ Fault /\ Goto(c, "ended")
    /\ UNCHANGED <<sessions, work, outside>>

\* that row gets a lock, whose lease is thrown away (syncInteractionSession).
Sync(c) ==
    /\ At(c, "sync")
    /\ lock' = IF lock[PersonOf[c]] = Nobody
                 THEN Set(lock, PersonOf[c], Orphan) ELSE lock
    /\ Goto(c, "ended")
    /\ UNCHANGED <<row, stuck, work, outside, faults>>

-----------------------------------------------------------------------------
(* handleAgentChat, with a process of the server *)

\* An entry removed by another than the request it belongs to.
Removed(c) == IF exec.by \in {c, Nobody} THEN letgo ELSE letgo \cup {exec.by}

\* variant: nothing keeps a second process out
FreeAlways == TRUE

Free == exec = NoEntry

ReserveEntry(c) ==
    /\ At(c, "exec")
    /\ IF Free
         THEN exec' = [by |-> c, started |-> FALSE] /\ Goto(c, "start")
         ELSE UNCHANGED exec /\ Goto(c, "settle")
    /\ UNCHANGED <<sessions, child, run, letgo, outside, faults>>

\* variant: the placeholder of a process that did not start is forgotten
KeepEntry(c) == UNCHANGED <<exec, letgo>>

DeleteEntry(c) == exec' = NoEntry /\ letgo' = Removed(c)

StartProcess(c) ==
    /\ At(c, "start")
    /\ \/ child' = Set(child, c, "alive") /\ Goto(c, "register")
          /\ UNCHANGED <<exec, letgo>>
       \/ DeleteEntry(c) /\ Goto(c, "settle") /\ UNCHANGED child
    /\ UNCHANGED <<sessions, run, outside, faults>>

Register(c) ==
    /\ At(c, "register")
    /\ exec' = [by |-> c, started |-> TRUE] /\ letgo' = Removed(c)
    /\ Goto(c, "stream")
    /\ UNCHANGED <<sessions, child, run, outside, faults>>

\* The output is passed on until the process has ended, the client may leave.
Stream(c) ==
    /\ At(c, "stream") /\ child[c] # "alive"
    /\ Goto(c, "unregister")
    /\ UNCHANGED <<sessions, work, outside, faults>>

Unregister(c) ==
    /\ At(c, "unregister")
    /\ DeleteEntry(c) /\ Goto(c, "settle")
    /\ UNCHANGED <<sessions, child, run, outside, faults>>

ChildEnds(c) ==
    /\ child[c] = "alive"
    /\ child' = Set(child, c, "ended")
    /\ UNCHANGED <<chat, sessions, exec, run, letgo, outside, faults>>

-----------------------------------------------------------------------------
(* handleAgentChatViaRuntimeNode *)

Enqueue(c) ==
    /\ At(c, "enqueue")
    /\ \/ run' = Set(run, c, "open") /\ Goto(c, "poll") /\ UNCHANGED faults
       \/ Fault /\ Goto(c, "settle") /\ UNCHANGED run
    /\ UNCHANGED <<sessions, exec, child, letgo, outside>>

\* A run that was cancelled is polled on.
PollRun(c) ==
    /\ At(c, "poll")
    /\ \/ run[c] = "reported" /\ UNCHANGED faults
       \/ Fault
    /\ Goto(c, "settle")
    /\ UNCHANGED <<sessions, work, outside>>

\* variant: the time limit is for runs that are still open
TimeOutOpen(c) ==
    /\ At(c, "poll") /\ run[c] = "open"
    /\ Goto(c, "settle")
    /\ UNCHANGED <<sessions, work, outside, faults>>

\* After thirty minutes,
TimeOut(c) ==
    /\ At(c, "poll") /\ Goto(c, "settle")
    /\ UNCHANGED <<sessions, work, outside, faults>>

\* or when the client leaves, the run is left to itself.
ClientLeaves(c) ==
    /\ At(c, "poll") /\ Goto(c, "settle")
    /\ UNCHANGED <<sessions, work, outside, faults>>

RunEnds(c) ==
    /\ run[c] = "open"
    /\ \E end \in {"reported", "cancelled"} : run' = Set(run, c, end)
    /\ UNCHANGED <<chat, sessions, exec, child, letgo, outside, faults>>

-----------------------------------------------------------------------------
(* Release and Fail of the lease: the row, then the lock *)

\* An error of the update is ignored.
WriteRow(c) ==
    \/ row' = Set(row, c, "closed") /\ UNCHANGED <<stuck, faults>>
    \/ Fault /\ stuck' = stuck \cup {c} /\ UNCHANGED row

\* variant: the lock, then the row
SettleLockFirst(c) ==
    /\ At(c, "settle")
    /\ IF lock[PersonOf[c]] = c
         THEN ReleaseLock(c) /\ Goto(c, "settle") /\ UNCHANGED <<row, stuck, faults>>
         ELSE WriteRow(c) /\ Goto(c, "unlock") /\ UNCHANGED lock
    /\ UNCHANGED <<work, outside>>

Settle(c) ==
    /\ At(c, "settle")
    /\ WriteRow(c) /\ Goto(c, "unlock")
    /\ UNCHANGED <<lock, work, outside>>

Unlock(c) ==
    /\ At(c, "unlock")
    /\ ReleaseLock(c) /\ Goto(c, "ended")
    /\ UNCHANGED <<row, stuck, work, outside, faults>>

-----------------------------------------------------------------------------
(* handleAgentChatStop: the entry is taken, whoever it belongs to *)

StopTakes(s) ==
    /\ up /\ stop[s] = Nobody /\ exec # NoEntry
    /\ stop' = Set(stop, s, IF exec.started THEN exec.by ELSE Nobody)
    /\ exec' = NoEntry /\ letgo' = letgo \cup {exec.by} /\ meddled' = TRUE
    /\ UNCHANGED <<chat, sessions, child, run, up, crashes, faults>>

StopKills(s) ==
    /\ up /\ stop[s] # Nobody
    /\ child' = IF child[stop[s]] = "alive" THEN Set(child, stop[s], "ended") ELSE child
    /\ stop' = Set(stop, s, Nobody)
    /\ UNCHANGED <<chat, sessions, exec, run, letgo, up, crashes, meddled, faults>>

-----------------------------------------------------------------------------
\* The server stops: what is in its memory is gone, its processes go on.
Crash ==
    /\ up /\ crashes < MaxCrashes
    /\ up' = FALSE /\ crashes' = crashes + 1 /\ meddled' = TRUE
    /\ chat' = [c \in Chats |-> IF chat[c] = "idle" THEN "idle" ELSE "ended"]
    /\ lock' = [p \in People |-> Nobody]
    /\ exec' = NoEntry
    /\ letgo' = letgo \cup {c \in Chats : child[c] = "alive"}
    /\ stop' = [s \in Stops |-> Nobody]
    /\ UNCHANGED <<row, child, run, stuck, faults>>

\* variant: sessions are left as the crash left them
RestartOnly ==
    /\ ~up /\ up' = TRUE
    /\ UNCHANGED <<chat, sessions, work, stop, crashes, meddled, faults>>

\* failStaleInteractionSessionsOnStartup: the list of open rows may fail, which
\* leaves them all, and the update of any of them. Either is only logged.
Restart ==
    /\ ~up /\ up' = TRUE
    /\ LET open == {c \in Chats : row[c] = "active"} IN
         \E missed \in SUBSET open :
            /\ IF missed = {} THEN UNCHANGED faults ELSE Fault
            /\ stuck' = stuck \cup missed
            /\ row' = [c \in Chats |-> IF c \in open \ missed THEN "closed" ELSE row[c]]
    /\ UNCHANGED <<chat, lock, work, stop, crashes, meddled>>

-----------------------------------------------------------------------------
Step(c) ==
    \/ Insert(c) \/ DropLock(c) \/ Look(c) \/ Sync(c)
    \/ ReserveEntry(c) \/ StartProcess(c) \/ Register(c) \/ Stream(c) \/ Unregister(c)
    \/ Enqueue(c) \/ PollRun(c) \/ TimeOut(c)
    \/ Settle(c) \/ Unlock(c)

Next ==
    \/ \E c \in Chats : Ask(c) \/ Step(c) \/ ClientLeaves(c) \/ ChildEnds(c) \/ RunEnds(c)
    \/ \E s \in Stops : StopTakes(s) \/ StopKills(s)
    \/ Crash \/ Restart

Spec == Init /\ [][Next]_vars

\* Handlers go on, and the limit of thirty minutes is a timer. Processes and
\* runs may go on for ever.
FairSpec == Spec /\ \A c \in Chats : WF_vars(Step(c))

-----------------------------------------------------------------------------
Busy(c) == chat[c] \notin {"idle", "ended"}

\* Where a request holds its person's lock, and where its row is open.
Holding == Places \ {"idle", "look", "sync", "ended"}
Open == Holding \ {"insert", "drop", "unlock"}
Exec == {"start", "register", "stream", "unregister"}

\* A request in progress holds the lock of its person, one that failed to insert
\* its row apart; an active row is that of a request about to close it, unless a
\* failed call has left the row as it was.
Held == \A c \in Chats :
    /\ chat[c] \in Holding => lock[PersonOf[c]] = c
    /\ row[c] = "active" /\ up /\ c \notin stuck => chat[c] \in Open
    /\ chat[c] \in {"idle", "insert"} => row[c] # "active"

\* A person is locked out until the next restart only after a failed call has left
\* one of that person's rows as it was.
LockoutNeedsFault ==
    \A p \in People :
        lock[p] = Orphan => \E c \in stuck : PersonOf[c] = p

\* A lock is that of a request in progress of the same person, or the one taken
\* for a row that a failed write, or a failed list of rows at a start, left active:
\* however requests fail, are left by their clients, are stopped or are cut short by
\* a restart whose calls succeed, none keeps its person out once it is over
\* (Acquire, session.go:60; Release, interaction_helpers.go:107).
LockHasHolder ==
    \A p \in People : lock[p] # Nobody =>
        \/ \E c \in Chats : lock[p] = c /\ PersonOf[c] = p /\ Busy(c)
        \/ lock[p] = Orphan /\ \E c \in stuck : PersonOf[c] = p

\* Nor does any other request meet an active row in its way.
Refused ==
    /\ LockoutNeedsFault
    /\ \A c \in Chats :
         chat[c] \in {"drop", "look", "sync"} => stuck \cap SamePerson(c) # {}

\* The entry is that of a request that is going to delete it, and a request with
\* a process has the entry unless others have removed it.
Listed ==
    /\ exec.by # Nobody => chat[exec.by] \in Exec
    /\ exec.by = Nobody => ~exec.started
    /\ \A c \in Chats \ letgo :
         /\ chat[c] \in Exec => exec.by = c
         /\ child[c] = "alive" => chat[c] \in {"register", "stream"}
    /\ letgo # {} => meddled

\* Nothing of a stopped server is left in memory.
Stopped == ~up => \A c \in Chats : ~Busy(c)

\* The inductive invariant: the type of the variables and how locks, rows,
\* entries and processes relate while requests, stops and restarts overlap.
ChatInv == TypeOK /\ Held /\ Refused /\ Listed /\ Stopped

\* A row says "active" only while its request is in progress and holds the lock
\* of its person, unless a failed call has left the row as it was: the row is closed
\* before the lock is given back, and a restart closes the rows it is able to list
\* and to write (server.go:208).
RowHasHolder ==
    \A c \in Chats :
        row[c] = "active" /\ up /\ c \notin stuck =>
            lock[PersonOf[c]] = c /\ Busy(c)

\* The agent has one process, but for those whose entry was removed by others;
\* and that takes a stop request or a restart.
OneProcess ==
    /\ \A c, d \in Chats :
         child[c] = "alive" /\ child[d] = "alive" /\ c # d => {c, d} \cap letgo # {}
    /\ letgo # {} => meddled

\* A request gets out of the way once its process has ended; one that waits for
\* a runtime node does so whatever becomes of the run.
RequestEnds ==
    \A c \in Chats :
        Busy(c) /\ child[c] # "alive" ~> ~Busy(c) \/ child[c] = "alive"
=============================================================================
