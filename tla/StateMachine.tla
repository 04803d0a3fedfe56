---------------------------- MODULE StateMachine ----------------------------
(***************************************************************************)
(* The goroutines that meet at one StateMachine (fsm/fsm.go) and the       *)
(* Pebble handles of its store: raft's FSM goroutine (Apply, Snapshot and  *)
(* Restore), raft's snapshot goroutine (Persist, Release), the goroutine   *)
(* that starts the node (UpdateFsmIndex), the readers (ReadLocal) and      *)
(* Close.  A restore opens a new handle and closes the old one, or fails   *)
(* before or after the swap; a method of a closed Pebble handle panics,    *)
(* and nothing in the process recovers.                                    *)
(*                                                                         *)
(* The content of a handle is the index of the last entry whose effect is  *)
(* in it.  raft is external.                                               *)
(***************************************************************************)
EXTENDS Naturals

CONSTANTS
    Readers,   \* calls of ReadLocal
    MaxIndex,  \* bound on the length of the log
    MaxHandle  \* bound on the handles that somebody holds at one time

ASSUME IndexAssumption == MaxIndex \in Nat /\ MaxHandle \in Nat

VARIABLES
    dispatched,  \* the last entry raft has handed to the FSM goroutine
    lastApplied, \* raft.AppliedIndex()
    finished,    \* the last entry or snapshot whose Apply or Restore has succeeded
    fsmPc,       \* the FSM goroutine: "idle", or the next step of Apply or Restore
    target,      \* the index of the snapshot being restored
    spare,       \* recoverSnapShot's other handle: newdb until the swap, then old
    state,       \* history: the last entry the FSM goroutine has brought in
    fsmIndex,    \* StateMachine.fsmIndex
    db,          \* store.db: the handles are numbered
    content,     \* the content of each handle
    open,        \* the handles that are open
    closed,      \* store.closed
    upc, uindex, \* UpdateFsmIndex: control state and argument
    spc, snap,   \* the snapshot goroutine, and the fsmSnapshot it holds
    persisted,   \* the one it has written last, if any
    rpc, rdb,    \* ReadLocal: control state and db
    rval,        \* what it returned
    floor,       \* history: what was finished when ReadLocal was called
    panicked     \* the goroutines that panicked: the process ends

raftVars == <<dispatched, lastApplied>>
restoreVars == <<target, spare>>
fsmVars == <<finished, fsmPc, restoreVars, state, db, content, open>>
snapVars == <<spc, snap, persisted>>
readVars == <<rpc, rdb, rval, floor>>
vars == <<raftVars, fsmVars, fsmIndex, closed, upc, uindex, snapVars, readVars, panicked>>

Indexes == 0 .. MaxIndex

Handles == 0 .. MaxHandle

\* content: what the Pebble snapshot holds; at: the state when it was taken.
Snapshots == [db : Handles, content : Indexes, lastIndex : Indexes, at : Indexes]

NoSnapshot == [db |-> 0, content |-> 0, lastIndex |-> 0, at |-> 0]

\* The one type invariant of this module.
TypeOK ==
    /\ dispatched \in Indexes /\ lastApplied \in Indexes /\ finished \in Indexes
    /\ fsmPc \in {"idle", "write", "fill", "closeOld", "removeOld"}
    /\ target \in Indexes /\ spare \in Handles /\ state \in Indexes
    /\ fsmIndex \in Indexes
    /\ db \in Handles /\ content \in [Handles -> Indexes]
    /\ open \subseteq Handles /\ closed \in BOOLEAN
    /\ upc \in {"load", "store", "done"} /\ uindex \in Indexes
    /\ spc \in {"none", "taken", "iterating", "release"}
    /\ snap \in Snapshots /\ persisted \subseteq Snapshots
    /\ rpc \in [Readers -> {"idle", "load", "get", "returned", "closed"}]
    /\ rdb \in [Readers -> Handles] /\ rval \in [Readers -> Indexes]
    /\ floor \in [Readers -> Indexes]
    /\ panicked \subseteq {"reader", "persist"}

\* NewStateMachine, and raft.NewRaft, which has restored a snapshot of index
\* i or found none and has started its goroutines.
Init ==
    \E i \in Indexes \cap {0, 1} :
        /\ dispatched = i /\ lastApplied = i /\ finished = i /\ fsmIndex = i
        /\ fsmPc = "idle" /\ target = 0 /\ spare = 0 /\ state = i
        /\ db = 0 /\ content = [h \in Handles |-> IF h = 0 THEN i ELSE 0] /\ open = {0} /\ closed = FALSE
        /\ upc = "load" /\ uindex = 0
        /\ spc = "none" /\ persisted = {}
        /\ snap = NoSnapshot
        /\ rpc = [r \in Readers |-> "idle"] /\ rdb = [r \in Readers |-> 0]
        /\ rval = [r \in Readers |-> 0] /\ floor = [r \in Readers |-> 0]
        /\ panicked = {}

\* The process runs, and goes on.
Runs == panicked = {} /\ panicked' = {}

-----------------------------------------------------------------------------
(* raft, external: its main goroutine hands entries over and then advances *)
(* AppliedIndex(), before or after the FSM goroutine has applied them.     *)

Restoring == fsmPc \in {"fill", "closeOld", "removeOld"}

\* It waits for a restore.
HandOver ==
    /\ ~closed /\ ~Restoring /\ lastApplied = dispatched
    /\ dispatched' \in dispatched + 1 .. MaxIndex
    /\ UNCHANGED <<lastApplied, fsmVars, fsmIndex, closed, upc, uindex, snapVars, readVars>> /\ Runs

SetLastApplied ==
    /\ lastApplied < dispatched
    /\ lastApplied' = dispatched
    /\ UNCHANGED <<dispatched, fsmVars, fsmIndex, closed, upc, uindex, snapVars, readVars>> /\ Runs

-----------------------------------------------------------------------------
(* The FSM goroutine *)

\* recoverSnapShot's variables, when it returns.
RestoreReturns == target' = 0 /\ spare' = 0

\* A closed handle has no content any more.
CloseHandle(h) ==
    /\ open' = open \ {h}
    /\ content' = [content EXCEPT ![h] = 0]

Later(i, j) == IF i < j THEN j ELSE i

\* Apply stores the index first ...
Apply ==
    /\ fsmPc = "idle" /\ ~closed /\ finished < dispatched
    /\ fsmIndex' = finished + 1
    /\ fsmPc' = "write"
    /\ UNCHANGED <<raftVars, finished, restoreVars, state, db, content, open, closed, upc, uindex,
                   snapVars, readVars>> /\ Runs

\* ... and then insert writes the entry, perhaps for the second time: a
\* restore that failed late has left a later state than raft knows of.
ApplyInsert ==
    /\ fsmPc = "write"
    /\ content' = [content EXCEPT ![db] = Later(@, finished + 1)]
    /\ state' = Later(state, finished + 1)
    /\ finished' = finished + 1
    /\ fsmPc' = "idle"
    /\ UNCHANGED <<raftVars, restoreVars, fsmIndex, db, open, closed, upc, uindex,
                   snapVars, readVars>> /\ Runs

Snapshot ==
    /\ fsmPc = "idle" /\ ~closed /\ finished > 0
    /\ spc = "none"
    /\ spc' = "taken"
    /\ snap' = [db |-> db, content |-> content[db], lastIndex |-> fsmIndex, at |-> state]
    /\ UNCHANGED <<raftVars, fsmVars, fsmIndex, closed, upc, uindex, persisted, readVars>> /\ Runs

\* The handles that no goroutine holds.
FreeHandles ==
    {h \in Handles : /\ h \notin open \cup {db}
                     /\ h # snap.db \/ spc = "none"
                     /\ \A r \in Readers : h # rdb[r] \/ rpc[r] # "get"}

\* Restore: raft hands over a snapshot of index i when nothing else is left,
\* and recoverSnapShot opens a new database.  (It may fail before that: nothing
\* has happened then.)
RestoreOpen(i) ==
    /\ fsmPc = "idle" /\ ~closed
    /\ finished = dispatched /\ lastApplied = dispatched
    /\ target' = i
    /\ \E h \in FreeHandles :
        /\ \A g \in FreeHandles : h <= g
        /\ spare' = h
        /\ open' = open \cup {h}
    /\ fsmPc' = "fill"
    /\ UNCHANGED <<raftVars, finished, state, db, content, fsmIndex, closed, upc, uindex,
                   snapVars, readVars>> /\ Runs

\* Mutant of RestoreFailed: it returns without cleanupNewDB.
RestoreFailedLeaks ==
    /\ fsmPc = "fill"
    /\ fsmPc' = "idle"
    /\ RestoreReturns
    /\ UNCHANGED <<raftVars, finished, state, db, content, open, fsmIndex, closed,
                   upc, uindex, snapVars, readVars>> /\ Runs

\* The stream is bad, or pebble.running cannot be replaced: cleanupNewDB.
RestoreFailed ==
    /\ fsmPc = "fill"
    /\ CloseHandle(spare)
    /\ fsmPc' = "idle"
    /\ RestoreReturns
    /\ UNCHANGED <<raftVars, finished, state, db, fsmIndex, closed, upc, uindex,
                   snapVars, readVars>> /\ Runs

\* Mutant of RestoreSwap: the new database is filled and not put into place.
RestoreUnswapped ==
    /\ fsmPc = "fill"
    /\ content' = [content EXCEPT ![spare] = target]
    /\ state' = target
    /\ fsmPc' = "closeOld"
    /\ UNCHANGED <<raftVars, finished, restoreVars, db, open, fsmIndex, closed, upc, uindex,
                   snapVars, readVars>> /\ Runs

\* The database is filled and named by pebble.running, and the handles are
\* swapped ...
RestoreSwap ==
    /\ fsmPc = "fill"
    /\ content' = [content EXCEPT ![spare] = target]
    /\ state' = target
    /\ db' = spare /\ spare' = db
    /\ fsmPc' = "closeOld"
    /\ UNCHANGED <<raftVars, finished, target, open, fsmIndex, closed, upc, uindex,
                   snapVars, readVars>> /\ Runs

\* ... the old one is closed ...
RestoreCloseOld ==
    /\ fsmPc = "closeOld"
    /\ CloseHandle(spare)
    /\ fsmPc' = "removeOld"
    /\ UNCHANGED <<raftVars, finished, restoreVars, state, db, fsmIndex, closed, upc,
                   uindex, snapVars, readVars>> /\ Runs

\* ... and its directory cannot be removed, or the removal not be synced:
\* Restore returns the error with the new state in place, and raft stays where
\* it was.
RestoreFailedLate ==
    /\ fsmPc = "removeOld"
    /\ fsmPc' = "idle"
    /\ RestoreReturns
    /\ UNCHANGED <<raftVars, finished, state, db, content, open, fsmIndex, closed,
                   upc, uindex, snapVars, readVars>> /\ Runs

\* Or all went well, and Restore takes the index of the header, which is not
\* 0: here that of a node whose header was right.
RestoreIndex ==
    /\ fsmPc = "removeOld"
    /\ fsmIndex' = target
    /\ dispatched' = target /\ finished' = target
    /\ fsmPc' = "idle"
    /\ RestoreReturns
    /\ UNCHANGED <<lastApplied, state, db, content, open, closed, upc, uindex,
                   snapVars, readVars>> /\ Runs

-----------------------------------------------------------------------------
(* The goroutine that started raft: UpdateFsmIndex(raft.AppliedIndex()) *)

UpdateLoad ==
    /\ upc = "load"
    /\ uindex' = lastApplied
    /\ upc' = IF fsmIndex < lastApplied THEN "store" ELSE "done"
    /\ UNCHANGED <<raftVars, fsmVars, fsmIndex, closed, snapVars, readVars>> /\ Runs

UpdateStore ==
    /\ upc = "store"
    /\ fsmIndex' = uindex
    /\ upc' = "done"
    /\ UNCHANGED <<raftVars, fsmVars, closed, uindex, snapVars, readVars>> /\ Runs

-----------------------------------------------------------------------------
(* The snapshot goroutine: Persist, which does not lock out the FSM goroutine *)

Idle(goroutine) == UNCHANGED <<raftVars, fsmVars, fsmIndex, closed, upc, uindex, goroutine>>

\* snapshot.NewIter
PersistIter ==
    /\ panicked = {} /\ spc = "taken"
    /\ IF snap.db \in open
       THEN spc' = "iterating" /\ Runs
       ELSE panicked' = panicked \cup {"persist"} /\ UNCHANGED spc
    /\ UNCHANGED <<snap, persisted>> /\ Idle(readVars)

\* Mutant of PersistRows: it iterates over the database.
PersistLive ==
    /\ spc = "iterating"
    /\ persisted' = {[snap EXCEPT !.content = content[snap.db]]}
    /\ spc' = "release"
    /\ UNCHANGED snap /\ Runs /\ Idle(readVars)

\* All records are written and the sink is closed ...
PersistRows ==
    /\ spc = "iterating"
    /\ persisted' = {snap}
    /\ spc' = "release"
    /\ UNCHANGED snap /\ Runs /\ Idle(readVars)

\* ... or one is not, and the sink is cancelled; with the handle closed under
\* the iterator any of these may happen, and a panic.
PersistFailed ==
    /\ panicked = {} /\ spc = "iterating"
    /\ \/ spc' = "release" /\ Runs
       \/ snap.db \notin open /\ panicked' = panicked \cup {"persist"} /\ UNCHANGED spc
    /\ UNCHANGED <<snap, persisted>> /\ Idle(readVars)

Release ==
    /\ spc = "release"
    /\ spc' = "none"
    /\ snap' = NoSnapshot
    /\ UNCHANGED persisted /\ Runs /\ Idle(readVars)

-----------------------------------------------------------------------------
(* ReadLocal: query and getBytes *)

ReadLocal(r) ==
    /\ rpc[r] = "idle"
    /\ rpc' = [rpc EXCEPT ![r] = IF closed THEN "closed" ELSE "load"]
    /\ floor' = [floor EXCEPT ![r] = finished]
    /\ UNCHANGED <<rdb, rval>> /\ Runs /\ Idle(snapVars)

LoadDB(r) ==
    /\ rpc[r] = "load"
    /\ rpc' = [rpc EXCEPT ![r] = "get"]
    /\ rdb' = [rdb EXCEPT ![r] = db]
    /\ UNCHANGED <<rval, floor>> /\ Runs /\ Idle(snapVars)

Get(r) ==
    /\ panicked = {} /\ rpc[r] = "get"
    /\ IF rdb[r] \in open
       THEN /\ rpc' = [rpc EXCEPT ![r] = "returned"]
            /\ rval' = [rval EXCEPT ![r] = content[rdb[r]]]
            /\ Runs
       ELSE /\ panicked' = panicked \cup {"reader"}
            /\ UNCHANGED <<rpc, rval>>
    /\ UNCHANGED <<rdb, floor>> /\ Idle(snapVars)

\* The caller has its answer and may call again.
Return(r) ==
    /\ rpc[r] = "returned"
    /\ rpc' = [rpc EXCEPT ![r] = "idle"]
    /\ rdb' = [rdb EXCEPT ![r] = 0]
    /\ rval' = [rval EXCEPT ![r] = 0]
    /\ floor' = [floor EXCEPT ![r] = 0]
    /\ Runs /\ Idle(snapVars)

-----------------------------------------------------------------------------
(* Close, after raft and its goroutines have ended *)

Close ==
    /\ ~closed
    /\ fsmPc = "idle" /\ spc = "none" /\ upc = "done"
    /\ closed' = TRUE
    /\ UNCHANGED <<raftVars, fsmVars, fsmIndex, upc, uindex, snapVars, readVars>> /\ Runs

CloseDB ==
    /\ closed /\ open # {}
    /\ CloseHandle(db)
    /\ UNCHANGED <<raftVars, finished, fsmPc, restoreVars, state, db, fsmIndex, closed,
                   upc, uindex, snapVars, readVars>> /\ Runs

-----------------------------------------------------------------------------

FSMStep ==
    \/ Apply \/ ApplyInsert \/ Snapshot
    \/ \E i \in dispatched + 1 .. MaxIndex : RestoreOpen(i)
    \/ RestoreFailed \/ RestoreSwap \/ RestoreCloseOld \/ RestoreFailedLate \/ RestoreIndex

Next ==
    \/ HandOver \/ SetLastApplied
    \/ FSMStep
    \/ UpdateLoad \/ UpdateStore
    \/ PersistIter \/ PersistRows \/ PersistFailed \/ Release
    \/ \E r \in Readers : ReadLocal(r) \/ LoadDB(r) \/ Get(r) \/ Return(r)
    \/ Close \/ CloseDB

Spec == Init /\ [][Next]_vars

-----------------------------------------------------------------------------
(* Properties *)

\* A read that returns a value reflects every entry whose Apply or Restore
\* had succeeded when it was called, whichever handle it got and however many
\* restores went by, failed before or after the swap (store.go getBytes,
\* recoverSnapShot).
ReadIsRecent ==
    \A r \in Readers : rpc[r] = "returned" => rval[r] >= floor[r]

\* What Persist writes is the state at the moment of Snapshot, although Apply
\* goes on, and a restore may replace the database, while it is written
\* (fsm.go Snapshot, Persist).
SnapshotIsFrozen ==
    \A s \in persisted : s.content = s.at

\* The store serves an open handle, and between restores it has no other
\* one: whichever exit recoverSnapShot takes, before the swap (the new handle
\* is closed), after it (the old one is) or at its end, it neither leaks a
\* database nor closes the one in use.
OneHandle ==
    ~closed => db \in open /\ (~Restoring => open = {db})

\* A restore does not take a running read down: only Close makes one panic.
\* "Blocking queries should watch this to detect when they need to re-query
\* after a restore" (fsm.go:182): a query lives through a restore.
RestoreSparesReaders == "reader" \in panicked => closed

\* "Persist should dump all necessary state to the WriteCloser 'sink', and
\* call sink.Close() when finished or call sink.Cancel() on error"
\* (fsm.go:214): it does not end in a panic.
PersistEnds == "persist" \notin panicked

\* "LastIndex uint64 // Last applied index at snapshot time" (store.go:33).
HeaderNamesLastIndex == \A s \in persisted : s.lastIndex = s.at
=============================================================================
