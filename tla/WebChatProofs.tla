--------------------------- MODULE WebChatProofs ---------------------------
(***************************************************************************)
(* What holds of WebChat for any number of requests, people, stops, failed *)
(* writes, restarts and failed lists of the open rows at a start.  One     *)
(* inductive invariant, ChatInv, whose parts are: who holds a lock and     *)
(* whose row is open (Held), what a row left active explains (Refused),    *)
(* whose entry and process there is (Listed), and that a stopped server    *)
(* has no request in progress (Stopped).  One lemma per action, one step   *)
(* per part.                                                               *)
(***************************************************************************)
EXTENDS WebChat, TLAPS

USE ChatAssumption DEF At, Goto, Set, sessions, work, outside

LEMMA NoEntryIsEntry == NoEntry \in Entries /\ NoEntry.by = Nobody /\ ~NoEntry.started
  BY DEF NoEntry, Entries

\* Whose entry is removed by another, and that it takes a request in progress.
LEMMA RemovedGrows ==
  ASSUME ChatInv, NEW c \in Chats
  PROVE  /\ Removed(c) \subseteq Chats /\ letgo \subseteq Removed(c)
         /\ exec.by \in {c, Nobody} \cup Removed(c)
         /\ exec.by \in {c, Nobody} => Removed(c) = letgo
  BY DEF ChatInv, TypeOK, Entries, Removed

LEMMA AskKeeps ==
  ASSUME ChatInv, NEW c \in Chats, Ask(c)
  PROVE  ChatInv'
  <1> USE DEF ChatInv, Ask
  <1>1. TypeOK'
    BY DEF TypeOK, Places
  <1>2. Held'
    BY DEF TypeOK, Held, Holding, Open, Places
  <1>3. Refused'
    BY DEF TypeOK, Held, Refused, LockoutNeedsFault, Holding, Open, SamePerson
  <1>4. Listed'
    BY DEF TypeOK, Listed, Exec, Entries
  <1>5. Stopped'
    BY DEF TypeOK, Stopped, Busy
  <1> QED  BY <1>1, <1>2, <1>3, <1>4, <1>5

LEMMA InsertKeeps ==
  ASSUME ChatInv, NEW c \in Chats, Insert(c)
  PROVE  ChatInv'
  <1> USE DEF ChatInv, Insert, Fault, HasActiveRow
  <1>1. TypeOK'
    BY DEF TypeOK, Places
  <1>2. Held'
    BY DEF TypeOK, Held, Holding, Open, Places
  <1>3. Refused'
    BY DEF TypeOK, Held, Refused, LockoutNeedsFault, Holding, Open, SamePerson
  <1>4. Listed'
    BY DEF TypeOK, Listed, Exec, Entries
  <1>5. Stopped'
    BY DEF TypeOK, Stopped, Busy
  <1> QED  BY <1>1, <1>2, <1>3, <1>4, <1>5

LEMMA DropLockKeeps ==
  ASSUME ChatInv, NEW c \in Chats, DropLock(c)
  PROVE  ChatInv'
  <1> USE DEF ChatInv, DropLock, ReleaseLock
  <1>1. TypeOK'
    BY DEF TypeOK, Places
  <1>2. Held'
    BY DEF TypeOK, Held, Holding, Open, Places
  <1>3. Refused'
    BY DEF TypeOK, Held, Refused, LockoutNeedsFault, Holding, Open, SamePerson
  <1>4. Listed'
    BY DEF TypeOK, Listed, Exec, Entries
  <1>5. Stopped'
    BY DEF TypeOK, Stopped, Busy
  <1> QED  BY <1>1, <1>2, <1>3, <1>4, <1>5

LEMMA LookKeeps ==
  ASSUME ChatInv, NEW c \in Chats, Look(c)
  PROVE  ChatInv'
  <1> USE DEF ChatInv, Look, Fault, HasActiveRow
  <1>1. TypeOK'
    BY DEF TypeOK, Places
  <1>2. Held'
    BY DEF TypeOK, Held, Holding, Open, Places
  <1>3. Refused'
    BY DEF TypeOK, Held, Refused, LockoutNeedsFault, Holding, Open, SamePerson
  <1>4. Listed'
    BY DEF TypeOK, Listed, Exec, Entries
  <1>5. Stopped'
    BY DEF TypeOK, Stopped, Busy
  <1> QED  BY <1>1, <1>2, <1>3, <1>4, <1>5

LEMMA SyncKeeps ==
  ASSUME ChatInv, NEW c \in Chats, Sync(c)
  PROVE  ChatInv'
  <1> USE DEF ChatInv, Sync
  <1>1. TypeOK'
    BY DEF TypeOK, Places
  <1>2. Held'
    BY DEF TypeOK, Held, Holding, Open, Places
  <1>3. Refused'
    BY DEF TypeOK, Held, Refused, LockoutNeedsFault, Holding, Open, SamePerson
  <1>4. Listed'
    BY DEF TypeOK, Listed, Exec, Entries
  <1>5. Stopped'
    BY DEF TypeOK, Stopped, Busy
  <1> QED  BY <1>1, <1>2, <1>3, <1>4, <1>5

LEMMA ReserveEntryKeeps ==
  ASSUME ChatInv, NEW c \in Chats, ReserveEntry(c)
  PROVE  ChatInv'
  <1> USE DEF ChatInv, ReserveEntry, Free
  <1>1. TypeOK'
    <2>1. chat' \in [Chats -> Places]
      BY DEF TypeOK, Places
    <2>2. CASE Free
      <3>1. [by |-> c, started |-> FALSE] \in Entries
        BY DEF Entries
      <3> QED  BY <2>1, <2>2, <3>1 DEF TypeOK
    <2>3. CASE ~Free
      BY <2>1, <2>3 DEF TypeOK
    <2> QED  BY <2>2, <2>3
  <1>2. Held'
    BY DEF TypeOK, Held, Holding, Open, Places
  <1>3. Refused'
    BY DEF TypeOK, Held, Refused, LockoutNeedsFault, Holding, Open, SamePerson
  <1>4. Listed'
    BY DEF TypeOK, Listed, Exec, Entries, NoEntry
  <1>5. Stopped'
    BY DEF TypeOK, Stopped, Busy
  <1> QED  BY <1>1, <1>2, <1>3, <1>4, <1>5

LEMMA StartProcessKeeps ==
  ASSUME ChatInv, NEW c \in Chats, StartProcess(c)
  PROVE  ChatInv'
  <1> USE DEF ChatInv, StartProcess, DeleteEntry
  <1>1. TypeOK'
    BY NoEntryIsEntry, RemovedGrows DEF TypeOK, Places
  <1>2. Held'
    BY DEF TypeOK, Held, Holding, Open, Places
  <1>3. Refused'
    BY DEF TypeOK, Held, Refused, LockoutNeedsFault, Holding, Open, SamePerson
  <1>4. Listed'
    BY DEF TypeOK, Listed, Exec, Entries, NoEntry, Removed
  <1>5. Stopped'
    BY DEF TypeOK, Stopped, Busy
  <1> QED  BY <1>1, <1>2, <1>3, <1>4, <1>5

LEMMA RegisterKeeps ==
  ASSUME ChatInv, NEW c \in Chats, Register(c)
  PROVE  ChatInv'
  <1> USE DEF ChatInv, Register
  <1>1. TypeOK'
    BY NoEntryIsEntry, RemovedGrows DEF TypeOK, Places, Entries
  <1>2. Held'
    BY DEF TypeOK, Held, Holding, Open, Places
  <1>3. Refused'
    BY DEF TypeOK, Held, Refused, LockoutNeedsFault, Holding, Open, SamePerson
  <1>4. Listed'
    BY DEF TypeOK, Listed, Exec, Entries, Removed
  <1>5. Stopped'
    BY DEF TypeOK, Stopped, Busy
  <1> QED  BY <1>1, <1>2, <1>3, <1>4, <1>5

LEMMA StreamKeeps ==
  ASSUME ChatInv, NEW c \in Chats, Stream(c)
  PROVE  ChatInv'
  <1> USE DEF ChatInv, Stream
  <1>1. TypeOK'
    BY DEF TypeOK, Places
  <1>2. Held'
    BY DEF TypeOK, Held, Holding, Open, Places
  <1>3. Refused'
    BY DEF TypeOK, Held, Refused, LockoutNeedsFault, Holding, Open, SamePerson
  <1>4. Listed'
    BY DEF TypeOK, Listed, Exec, Entries
  <1>5. Stopped'
    BY DEF TypeOK, Stopped, Busy
  <1> QED  BY <1>1, <1>2, <1>3, <1>4, <1>5

LEMMA UnregisterKeeps ==
  ASSUME ChatInv, NEW c \in Chats, Unregister(c)
  PROVE  ChatInv'
  <1> USE DEF ChatInv, Unregister, DeleteEntry
  <1>1. TypeOK'
    BY NoEntryIsEntry, RemovedGrows DEF TypeOK, Places
  <1>2. Held'
    BY DEF TypeOK, Held, Holding, Open, Places
  <1>3. Refused'
    BY DEF TypeOK, Held, Refused, LockoutNeedsFault, Holding, Open, SamePerson
  <1>4. Listed'
    BY DEF TypeOK, Listed, Exec, Entries, NoEntry, Removed
  <1>5. Stopped'
    BY DEF TypeOK, Stopped, Busy
  <1> QED  BY <1>1, <1>2, <1>3, <1>4, <1>5

LEMMA EnqueueKeeps ==
  ASSUME ChatInv, NEW c \in Chats, Enqueue(c)
  PROVE  ChatInv'
  <1> USE DEF ChatInv, Enqueue, Fault
  <1>1. TypeOK'
    BY DEF TypeOK, Places
  <1>2. Held'
    BY DEF TypeOK, Held, Holding, Open, Places
  <1>3. Refused'
    BY DEF TypeOK, Held, Refused, LockoutNeedsFault, Holding, Open, SamePerson
  <1>4. Listed'
    BY DEF TypeOK, Listed, Exec, Entries
  <1>5. Stopped'
    BY DEF TypeOK, Stopped, Busy
  <1> QED  BY <1>1, <1>2, <1>3, <1>4, <1>5

LEMMA PollRunKeeps ==
  ASSUME ChatInv, NEW c \in Chats, PollRun(c)
  PROVE  ChatInv'
  <1> USE DEF ChatInv, PollRun, Fault
  <1>1. TypeOK'
    BY DEF TypeOK, Places
  <1>2. Held'
    BY DEF TypeOK, Held, Holding, Open, Places
  <1>3. Refused'
    BY DEF TypeOK, Held, Refused, LockoutNeedsFault, Holding, Open, SamePerson
  <1>4. Listed'
    BY DEF TypeOK, Listed, Exec, Entries
  <1>5. Stopped'
    BY DEF TypeOK, Stopped, Busy
  <1> QED  BY <1>1, <1>2, <1>3, <1>4, <1>5

LEMMA TimeOutKeeps ==
  ASSUME ChatInv, NEW c \in Chats, TimeOut(c)
  PROVE  ChatInv'
  <1> USE DEF ChatInv, TimeOut
  <1>1. TypeOK'
    BY DEF TypeOK, Places
  <1>2. Held'
    BY DEF TypeOK, Held, Holding, Open, Places
  <1>3. Refused'
    BY DEF TypeOK, Held, Refused, LockoutNeedsFault, Holding, Open, SamePerson
  <1>4. Listed'
    BY DEF TypeOK, Listed, Exec, Entries
  <1>5. Stopped'
    BY DEF TypeOK, Stopped, Busy
  <1> QED  BY <1>1, <1>2, <1>3, <1>4, <1>5

LEMMA ClientLeavesKeeps ==
  ASSUME ChatInv, NEW c \in Chats, ClientLeaves(c)
  PROVE  ChatInv'
  <1> USE DEF ChatInv, ClientLeaves
  <1>1. TypeOK'
    BY DEF TypeOK, Places
  <1>2. Held'
    BY DEF TypeOK, Held, Holding, Open, Places
  <1>3. Refused'
    BY DEF TypeOK, Held, Refused, LockoutNeedsFault, Holding, Open, SamePerson
  <1>4. Listed'
    BY DEF TypeOK, Listed, Exec, Entries
  <1>5. Stopped'
    BY DEF TypeOK, Stopped, Busy
  <1> QED  BY <1>1, <1>2, <1>3, <1>4, <1>5

LEMMA SettleKeeps ==
  ASSUME ChatInv, NEW c \in Chats, Settle(c)
  PROVE  ChatInv'
  <1> USE DEF ChatInv, Settle, WriteRow, Fault
  <1>1. TypeOK'
    BY DEF TypeOK, Places
  <1>2. Held'
    BY DEF TypeOK, Held, Holding, Open, Places
  <1>3. Refused'
    BY DEF TypeOK, Held, Refused, LockoutNeedsFault, Holding, Open, SamePerson
  <1>4. Listed'
    BY DEF TypeOK, Listed, Exec, Entries
  <1>5. Stopped'
    BY DEF TypeOK, Stopped, Busy
  <1> QED  BY <1>1, <1>2, <1>3, <1>4, <1>5

LEMMA UnlockKeeps ==
  ASSUME ChatInv, NEW c \in Chats, Unlock(c)
  PROVE  ChatInv'
  <1> USE DEF ChatInv, Unlock, ReleaseLock
  <1>1. TypeOK'
    BY DEF TypeOK, Places
  <1>2. Held'
    BY DEF TypeOK, Held, Holding, Open, Places
  <1>3. Refused'
    BY DEF TypeOK, Held, Refused, LockoutNeedsFault, Holding, Open, SamePerson
  <1>4. Listed'
    BY DEF TypeOK, Listed, Exec, Entries
  <1>5. Stopped'
    BY DEF TypeOK, Stopped, Busy
  <1> QED  BY <1>1, <1>2, <1>3, <1>4, <1>5

LEMMA ChildEndsKeeps ==
  ASSUME ChatInv, NEW c \in Chats, ChildEnds(c)
  PROVE  ChatInv'
  <1> USE DEF ChatInv, ChildEnds
  <1>1. TypeOK'
    BY DEF TypeOK, Places
  <1>2. Held'
    BY DEF TypeOK, Held, Holding, Open, Places
  <1>3. Refused'
    BY DEF TypeOK, Held, Refused, LockoutNeedsFault, Holding, Open, SamePerson
  <1>4. Listed'
    BY DEF TypeOK, Listed, Exec, Entries
  <1>5. Stopped'
    BY DEF TypeOK, Stopped, Busy
  <1> QED  BY <1>1, <1>2, <1>3, <1>4, <1>5

LEMMA RunEndsKeeps ==
  ASSUME ChatInv, NEW c \in Chats, RunEnds(c)
  PROVE  ChatInv'
  <1> USE DEF ChatInv, RunEnds
  <1>1. TypeOK'
    BY DEF TypeOK, Places
  <1>2. Held'
    BY DEF TypeOK, Held, Holding, Open, Places
  <1>3. Refused'
    BY DEF TypeOK, Held, Refused, LockoutNeedsFault, Holding, Open, SamePerson
  <1>4. Listed'
    BY DEF TypeOK, Listed, Exec, Entries
  <1>5. Stopped'
    BY DEF TypeOK, Stopped, Busy
  <1> QED  BY <1>1, <1>2, <1>3, <1>4, <1>5

LEMMA StopTakesKeeps ==
  ASSUME ChatInv, NEW s \in Stops, StopTakes(s)
  PROVE  ChatInv'
  <1> USE DEF ChatInv, StopTakes
  <1>1. TypeOK'
    <2>1. exec \in Entries /\ exec.by \in Chats
      BY DEF TypeOK, Listed, Entries, NoEntry
    <2> QED  BY <2>1, NoEntryIsEntry DEF TypeOK
  <1>2. Held'
    BY DEF TypeOK, Held, Holding, Open, Places
  <1>3. Refused'
    BY DEF TypeOK, Held, Refused, LockoutNeedsFault, Holding, Open, SamePerson
  <1>4. Listed'
    BY DEF TypeOK, Listed, Exec, Entries, NoEntry
  <1>5. Stopped'
    BY DEF TypeOK, Stopped, Busy
  <1> QED  BY <1>1, <1>2, <1>3, <1>4, <1>5

LEMMA StopKillsKeeps ==
  ASSUME ChatInv, NEW s \in Stops, StopKills(s)
  PROVE  ChatInv'
  <1> USE DEF ChatInv, StopKills
  <1>1. TypeOK'
    BY DEF TypeOK, Places
  <1>2. Held'
    BY DEF TypeOK, Held, Holding, Open, Places
  <1>3. Refused'
    BY DEF TypeOK, Held, Refused, LockoutNeedsFault, Holding, Open, SamePerson
  <1>4. Listed'
    BY DEF TypeOK, Listed, Exec, Entries
  <1>5. Stopped'
    BY DEF TypeOK, Stopped, Busy
  <1> QED  BY <1>1, <1>2, <1>3, <1>4, <1>5

LEMMA CrashKeeps ==
  ASSUME ChatInv, Crash
  PROVE  ChatInv'
  <1> USE DEF ChatInv, Crash
  <1>1. TypeOK'
    <2>1. chat' \in [Chats -> Places]
      BY DEF TypeOK, Places
    <2>2. lock' \in [People -> Chats \cup {Nobody, Orphan}] /\ stop' \in [Stops -> Chats \cup {Nobody}]
      OBVIOUS
    <2>3. exec' \in Entries /\ letgo' \subseteq Chats
      BY NoEntryIsEntry DEF TypeOK
    <2>4. up' \in BOOLEAN /\ meddled' \in BOOLEAN
      OBVIOUS
    <2>5. crashes \in 0..MaxCrashes /\ crashes < MaxCrashes /\ crashes' = crashes + 1
      BY DEF TypeOK
    <2>6. crashes' \in 0..MaxCrashes
      BY <2>5
    <2> QED  BY <2>1, <2>2, <2>3, <2>4, <2>6 DEF TypeOK
  <1>2. Held'
    BY DEF TypeOK, Held, Holding, Open, Places
  <1>3. Refused'
    BY DEF TypeOK, Held, Refused, LockoutNeedsFault, Holding, Open, SamePerson
  <1>4. Listed'
    BY DEF TypeOK, Listed, Exec, Entries, NoEntry
  <1>5. Stopped'
    BY DEF TypeOK, Stopped, Busy
  <1> QED  BY <1>1, <1>2, <1>3, <1>4, <1>5

LEMMA RestartKeeps ==
  ASSUME ChatInv, Restart
  PROVE  ChatInv'
  <1> USE DEF ChatInv, Restart, Fault
  <1>1. TypeOK'
    BY DEF TypeOK, Places
  <1>2. Held'
    BY DEF TypeOK, Held, Holding, Open, Places
  <1>3. Refused'
    BY DEF TypeOK, Held, Refused, LockoutNeedsFault, Holding, Open, SamePerson
  <1>4. Listed'
    BY DEF TypeOK, Listed, Exec, Entries
  <1>5. Stopped'
    BY DEF TypeOK, Stopped, Busy
  <1> QED  BY <1>1, <1>2, <1>3, <1>4, <1>5

-----------------------------------------------------------------------------
LEMMA StepKeeps ==
  ASSUME ChatInv, [Next]_vars
  PROVE  ChatInv'
  <1>1. ASSUME NEW c \in Chats, Ask(c) \/ Step(c) \/ ClientLeaves(c) \/ ChildEnds(c) \/ RunEnds(c)
        PROVE  ChatInv'
    BY <1>1, AskKeeps, InsertKeeps, DropLockKeeps, LookKeeps, SyncKeeps, ReserveEntryKeeps,
       StartProcessKeeps, RegisterKeeps, StreamKeeps, UnregisterKeeps, EnqueueKeeps,
       PollRunKeeps, TimeOutKeeps, ClientLeavesKeeps, SettleKeeps, UnlockKeeps,
       ChildEndsKeeps, RunEndsKeeps DEF Step
  <1>2. ASSUME NEW s \in Stops, StopTakes(s) \/ StopKills(s)
        PROVE  ChatInv'
    BY <1>2, StopTakesKeeps, StopKillsKeeps
  <1>3. CASE UNCHANGED vars
    BY <1>3 DEF vars, ChatInv, TypeOK, Held, Refused, LockoutNeedsFault, Listed, Stopped, Busy
  <1> QED  BY <1>1, <1>2, <1>3, CrashKeeps, RestartKeeps DEF Next

LEMMA InitOK ==
  ASSUME Init
  PROVE  ChatInv
  <1> USE DEF Init
  <1>1. TypeOK
    <2>1. faults \in 0..MaxFaults /\ crashes \in 0..MaxCrashes
      OBVIOUS
    <2>2. up \in BOOLEAN /\ meddled \in BOOLEAN /\ stuck \subseteq Chats /\ letgo \subseteq Chats
      OBVIOUS
    <2>3. chat \in [Chats -> Places]
      BY DEF Places
    <2> QED  BY <2>1, <2>2, <2>3, NoEntryIsEntry DEF TypeOK
  <1>2. Held
    BY DEF Held, Holding
  <1>3. Refused
    BY DEF Refused, LockoutNeedsFault
  <1>4. Listed
    BY NoEntryIsEntry DEF Listed, Exec
  <1>5. Stopped
    BY DEF Stopped
  <1> QED  BY <1>1, <1>2, <1>3, <1>4, <1>5 DEF ChatInv

\* ChatInv is inductive: the types, and how locks, rows, entries and processes
\* relate, whatever requests, stops, failed writes and restarts interleave.
THEOREM ChatInvHolds == Spec => []ChatInv
  BY InitOK, StepKeeps, PTL DEF Spec

\* An active row has a request in progress that holds the lock of its person,
\* unless a failed call has left it as it was: sessions are closed in the right
\* order on every way out of the handler, and by a start that lists and writes them.
THEOREM RowsHaveHolders == Spec => []RowHasHolder
  <1>1. ChatInv => RowHasHolder
    BY DEF ChatInv, TypeOK, Held, RowHasHolder, Open, Holding, Busy
  <1> QED  BY <1>1, ChatInvHolds, PTL

\* The lock that syncInteractionSession takes and nobody releases needs a row of
\* that person that a failed write, or a failed list at a start, has left active.
THEOREM LockoutsNeedFaults == Spec => []LockoutNeedsFault
  BY ChatInvHolds, PTL DEF ChatInv, Refused

-----------------------------------------------------------------------------
\* Whose lock a request's is: ChatInv gives the lock to whoever is in progress,
\* this the progress to whoever has a lock.
LockInv == \A p \in People :
    lock[p] \in Chats => PersonOf[lock[p]] = p /\ chat[lock[p]] \in Holding

\* A request that goes from place to place with its lock, or has none.
LEMMA GoesOnWithLock ==
  ASSUME ChatInv, LockInv, NEW c \in Chats, lock' = lock,
         \A d \in Chats \ {c} : chat'[d] = chat[d],
         chat[c] \in Holding => chat'[c] \in Holding
  PROVE  LockInv'
  BY DEF LockInv

LEMMA StepKeepsLock ==
  ASSUME ChatInv, LockInv, NEW c \in Chats, Ask(c) \/ Step(c) \/ ClientLeaves(c)
  PROVE  LockInv'
<1> USE DEF ChatInv, TypeOK
<1>1. CASE Ask(c)
  <2>1. CASE lock[PersonOf[c]] = Nobody
    BY <1>1, <2>1 DEF Ask, LockInv, Holding, Places
  <2>2. CASE lock[PersonOf[c]] # Nobody
    <3>1. chat[c] \notin Holding
      BY <1>1 DEF Ask, Holding
    <3> QED  BY <1>1, <2>2, <3>1, GoesOnWithLock DEF Ask
  <2> QED  BY <2>1, <2>2
<1>2. CASE DropLock(c) \/ Unlock(c)
  <2>1. lock[PersonOf[c]] = c
    BY <1>2 DEF DropLock, Unlock, Held, Holding
  <2>2. lock' = [lock EXCEPT ![PersonOf[c]] = Nobody] /\ \A d \in Chats \ {c} : chat'[d] = chat[d]
    BY <1>2, <2>1 DEF DropLock, Unlock, ReleaseLock
  <2>3. ASSUME NEW p \in People, lock'[p] \in Chats
        PROVE  PersonOf[lock'[p]] = p /\ chat'[lock'[p]] \in Holding
    <3>1. p # PersonOf[c] /\ lock'[p] = lock[p]
      BY <2>2, <2>3
    <3>2. lock[p] # c
      BY <2>3, <3>1 DEF LockInv
    <3> QED  BY <2>2, <2>3, <3>1, <3>2 DEF LockInv
  <2> QED  BY <2>3 DEF LockInv
<1>3. CASE Sync(c)
  <2>1. chat[c] \notin Holding /\ \A d \in Chats \ {c} : chat'[d] = chat[d]
    BY <1>3 DEF Sync, Holding
  <2>2. \A p \in People : lock'[p] \in {lock[p], Orphan}
    BY <1>3 DEF Sync
  <2> QED  BY <2>1, <2>2 DEF LockInv
<1>4. CASE Look(c)
  <2>1. chat[c] \notin Holding /\ lock' = lock /\ \A d \in Chats \ {c} : chat'[d] = chat[d]
    BY <1>4 DEF Look, Holding
  <2> QED  BY <2>1, GoesOnWithLock
<1>5. CASE \/ Insert(c) \/ ReserveEntry(c) \/ StartProcess(c) \/ Register(c) \/ Stream(c)
           \/ Unregister(c) \/ Enqueue(c) \/ PollRun(c) \/ TimeOut(c) \/ ClientLeaves(c) \/ Settle(c)
  <2>1. /\ lock' = lock
        /\ \E pc \in {"drop", "exec", "enqueue", "start", "register", "stream", "unregister",
                      "settle", "poll", "unlock"} : chat' = [chat EXCEPT ![c] = pc]
    BY <1>5 DEF Insert, ReserveEntry, StartProcess, Register, Stream, Unregister, Enqueue,
       PollRun, TimeOut, ClientLeaves, Settle
  <2>2. chat'[c] \in Holding /\ \A d \in Chats \ {c} : chat'[d] = chat[d]
    BY <2>1 DEF Holding, Places
  <2> QED  BY <2>1, <2>2, GoesOnWithLock
<1> QED  BY <1>1, <1>2, <1>3, <1>4, <1>5 DEF Step

\* Whoever holds a lock is a request in progress of that person, unless a failed
\* call has left one of the person's rows as it was: no request leaves its lock behind.
THEOREM LocksHaveHolders == Spec => []LockHasHolder
  <1>1. Init => LockInv
    BY DEF Init, LockInv
  <1>2. ChatInv /\ LockInv /\ [Next]_vars => LockInv'
    <2> SUFFICES ASSUME ChatInv, LockInv, [Next]_vars PROVE LockInv'
      OBVIOUS
    <2>1. ASSUME UNCHANGED <<chat, lock>> PROVE LockInv'
      BY <2>1 DEF LockInv
    <2>2. ASSUME NEW c \in Chats, ChildEnds(c) \/ RunEnds(c) PROVE LockInv'
      BY <2>1, <2>2 DEF ChildEnds, RunEnds
    <2>3. ASSUME NEW s \in Stops, StopTakes(s) \/ StopKills(s) PROVE LockInv'
      BY <2>1, <2>3 DEF StopTakes, StopKills
    <2>4. CASE Crash
      BY <2>4 DEF Crash, LockInv
    <2>5. CASE Restart \/ UNCHANGED vars
      BY <2>1, <2>5 DEF Restart, vars
    <2> QED  BY <2>2, <2>3, <2>4, <2>5, StepKeepsLock DEF Next
  <1>3. ChatInv /\ LockInv => LockHasHolder
    <2> SUFFICES ASSUME ChatInv, LockInv, NEW p \in People, lock[p] # Nobody
                 PROVE  \/ \E c \in Chats : lock[p] = c /\ PersonOf[c] = p /\ Busy(c)
                        \/ lock[p] = Orphan /\ \E c \in stuck : PersonOf[c] = p
      BY DEF LockHasHolder
    <2>1. lock[p] \in Chats \cup {Orphan}
      BY DEF ChatInv, TypeOK
    <2>2. CASE lock[p] \in Chats
      BY <2>2 DEF LockInv, Holding, Busy
    <2>3. CASE lock[p] = Orphan
      BY <2>3 DEF ChatInv, Refused, LockoutNeedsFault
    <2> QED  BY <2>1, <2>2, <2>3
  <1> QED  BY <1>1, <1>2, <1>3, ChatInvHolds, PTL DEF Spec

\* Two processes of the agent at once need a stop request or a restart that has
\* removed the entry of one of them.
THEOREM ProcessIsAlone == Spec => []OneProcess
  <1>1. ChatInv => OneProcess
    BY DEF ChatInv, TypeOK, Listed, OneProcess, Exec
  <1> QED  BY <1>1, ChatInvHolds, PTL
=============================================================================
