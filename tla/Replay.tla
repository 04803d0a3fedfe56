------------------------------- MODULE Replay -------------------------------
(***************************************************************************)
(* What the state machines of the nodes hold, as raft's log is applied to  *)
(* them, snapshot, restored, and replayed after a restart: the Apply,      *)
(* Snapshot, Persist and Restore of fsm/fsm.go over a store that outlives  *)
(* the process, and the start of a node (NewStateMachine, newRaft).        *)
(*                                                                         *)
(* The value of a key is the index of the entry that wrote it, 0 for none. *)
(* A restore replaces the store at one instant: module Store refines that. *)
(* raft is external: it commits one log, hands it over in order, restores  *)
(* the latest snapshot when it starts, and then replays what follows it.   *)
(***************************************************************************)
EXTENDS Naturals

CONSTANTS
    Nodes,
    Keys,
    MaxIndex,  \* bound on the length of the log
    Faults     \* "write" \in Faults: a write to the store may fail

ASSUME ReplayAssumption == MaxIndex \in Nat

VARIABLES
    log,      \* the key that each committed entry writes
    up,       \* the nodes that run
    db,       \* the content of each store
    applied,  \* the last entry raft has handed to the FSM since the start
    taken,    \* the fsmSnapshot that is being persisted
    latest,   \* the latest snapshot in the node's snapshot store
    acked,    \* history: the last entry that some node has applied
    failed    \* history: the entries whose write has failed on some node

vars == <<log, up, db, applied, taken, latest, acked, failed>>

Indexes == 0 .. MaxIndex
Contents == [Keys -> Indexes]
Snapshots == [index : Indexes, content : Contents]

\* No snapshot: it has index 0.
NoSnapshot == [index |-> 0, content |-> [k \in Keys |-> 0]]

\* The one type invariant of this module.
TypeOK ==
    /\ log \in [1 .. MaxIndex -> Keys]
    /\ up \in SUBSET Nodes
    /\ db \in [Nodes -> Contents]
    /\ applied \in [Nodes -> Indexes]
    /\ taken \in [Nodes -> Snapshots] /\ latest \in [Nodes -> Snapshots]
    /\ acked \in Indexes /\ failed \in SUBSET (1 .. MaxIndex)

Init ==
    /\ log \in [1 .. MaxIndex -> Keys]
    /\ up = {}
    /\ db = [n \in Nodes |-> NoSnapshot.content]
    /\ applied = [n \in Nodes |-> 0]
    /\ taken = [n \in Nodes |-> NoSnapshot]
    /\ latest = [n \in Nodes |-> NoSnapshot]
    /\ acked = 0 /\ failed = {}

-----------------------------------------------------------------------------
(* The state machine *)

\* StateMachine.Apply: insert writes one key, with pebble.Sync ...
Apply(n) ==
    /\ n \in up /\ applied[n] < MaxIndex
    /\ applied' = [applied EXCEPT ![n] = @ + 1]
    /\ db' = [db EXCEPT ![n][log[applied[n] + 1]] = applied[n] + 1]
    /\ acked' = IF applied[n] < acked THEN acked ELSE applied[n] + 1
    /\ UNCHANGED <<log, up, taken, latest, failed>>

\* ... and where it fails the response carries the error, or, since
\* Logger.Fatalf returns, nothing: raft goes on to the next entry.
ApplyFailed(n) ==
    /\ "write" \in Faults
    /\ n \in up /\ applied[n] < MaxIndex
    /\ applied' = [applied EXCEPT ![n] = @ + 1]
    /\ acked' = IF applied[n] < acked THEN acked ELSE applied[n] + 1
    /\ failed' = failed \cup {applied[n] + 1}
    /\ UNCHANGED <<log, up, db, taken, latest>>

\* Snapshot: the Pebble snapshot stays as it is while Apply goes on.  raft
\* takes one snapshot at a time, and none before an entry was applied.
Snapshot(n) ==
    /\ n \in up /\ applied[n] > 0
    /\ taken[n] = NoSnapshot
    /\ taken' = [taken EXCEPT ![n] = [index |-> applied[n], content |-> db[n]]]
    /\ UNCHANGED <<log, up, db, applied, latest, acked, failed>>

\* The snapshot store lists the snapshot with the highest index first.
Newest(s, t) == IF s.index < t.index THEN t ELSE s

\* Mutant of Persist: the index is that of the moment at which it ends.
PersistLate(n) ==
    /\ n \in up /\ taken[n] # NoSnapshot
    /\ latest' = [latest EXCEPT ![n] = Newest(@, [taken[n] EXCEPT !.index = applied[n]])]
    /\ taken' = [taken EXCEPT ![n] = NoSnapshot]
    /\ UNCHANGED <<log, up, db, applied, acked, failed>>

\* Persist closes the sink, which lists the snapshot, and Release follows ...
Persist(n) ==
    /\ n \in up /\ taken[n] # NoSnapshot
    /\ latest' = [latest EXCEPT ![n] = Newest(@, taken[n])]
    /\ taken' = [taken EXCEPT ![n] = NoSnapshot]
    /\ UNCHANGED <<log, up, db, applied, acked, failed>>

\* ... or cancels the sink.
PersistFailed(n) ==
    /\ n \in up /\ taken[n] # NoSnapshot
    /\ taken' = [taken EXCEPT ![n] = NoSnapshot]
    /\ UNCHANGED <<log, up, db, applied, latest, acked, failed>>

\* raft's InstallSnapshot: a leader sends its latest snapshot to a follower
\* that lacks entries the leader has dropped.  The follower keeps it in its
\* own snapshot store first, and then Restore replaces its state ...
Restore(n, m) ==
    /\ n \in up /\ m \in up
    /\ applied[n] < latest[m].index
    /\ latest' = [latest EXCEPT ![n] = Newest(@, latest[m])]
    /\ db' = [db EXCEPT ![n] = latest[m].content]
    /\ applied' = [applied EXCEPT ![n] = latest[m].index]
    /\ UNCHANGED <<log, up, taken, acked, failed>>

\* ... or fails, before the swap or after it: raft stays where it was.
RestoreFailed(n, m) ==
    /\ n \in up /\ m \in up
    /\ applied[n] < latest[m].index
    /\ latest' = [latest EXCEPT ![n] = Newest(@, latest[m])]
    /\ \E c \in {db[n], latest[m].content} : db' = [db EXCEPT ![n] = c]
    /\ UNCHANGED <<log, up, applied, taken, acked, failed>>

\* Mutant of Start: the replay begins one entry late.
StartLate(n) ==
    /\ n \notin up
    /\ up' = up \cup {n}
    /\ db' = [db EXCEPT ![n] = IF latest[n].index = 0 THEN @ ELSE latest[n].content]
    /\ applied' = [applied EXCEPT ![n] = IF latest[n].index = 0 THEN 0 ELSE latest[n].index + 1]
    /\ UNCHANGED <<log, taken, latest, acked, failed>>

\* NewEngineWithConfig: newStore opens what the last process left.  raft
\* restores the latest snapshot, if there is one (NoSnapshotRestoreOnStart
\* is false), and replays the log from there, else from the beginning.
Start(n) ==
    /\ n \notin up
    /\ up' = up \cup {n}
    /\ db' = [db EXCEPT ![n] = IF latest[n].index = 0 THEN @ ELSE latest[n].content]
    /\ applied' = [applied EXCEPT ![n] = latest[n].index]
    /\ UNCHANGED <<log, taken, latest, acked, failed>>

\* The process ends, by Close or by a crash: writes are synced.
Stop(n) ==
    /\ n \in up
    /\ up' = up \ {n}
    /\ taken' = [taken EXCEPT ![n] = NoSnapshot]
    /\ UNCHANGED <<log, db, applied, latest, acked, failed>>

Next ==
    \E n \in Nodes :
        \/ Apply(n) \/ ApplyFailed(n)
        \/ Snapshot(n) \/ Persist(n) \/ PersistFailed(n)
        \/ \E m \in Nodes \ {n} : Restore(n, m) \/ RestoreFailed(n, m)
        \/ Start(n) \/ Stop(n)

Spec == Init /\ [][Next]_vars

-----------------------------------------------------------------------------
(* Properties *)

\* v is what key k holds when the entries up to i, but for some of those in
\* lost, and no others are applied.
IsStateBut(lost, k, i, v) ==
    /\ v \in 0 .. i
    /\ v > 0 => log[v] = k
    /\ \A j \in (v + 1 .. i) \ lost : log[j] # k

CaughtUp == {n \in up : applied[n] = acked}

\* The comment on Apply says that it must "produce the same result on all
\* peers in the cluster" (fsm.go:105): a running node that has applied every
\* entry that any node ever applied holds exactly the state of the log.
AppliedIsState ==
    \A n \in CaughtUp, k \in Keys : IsStateBut({}, k, acked, db[n][k])

\* That is so but for the entries whose write has failed: whatever restarts,
\* replays over a store that was already ahead, interrupted replays, snapshots
\* taken in the middle of a replay, installed snapshots and failed restores led
\* there, a failed write costs no more than itself (fsm.go Apply, Snapshot,
\* Restore; raft.go newRaft).
CaughtUpIsState ==
    \A n \in CaughtUp, k \in Keys : IsStateBut(failed, k, acked, db[n][k])

\* A running node holds at every moment, for every key, the last write among
\* the entries it was handed, but for the failed ones, or one after them: a
\* replay and a restore, which may fail, never lose a write (fsm.go Apply,
\* Restore).
NeverBehind ==
    \A n \in up, i \in (1 .. MaxIndex) \ failed : i <= applied[n] => db[n][log[i]] >= i

\* Two running nodes that were handed the same entries hold the same state.
\* The comment on Apply says that it must "produce the same result on all
\* peers in the cluster" (fsm.go:105).
PeersAgree ==
    \A n, m \in up : applied[n] = applied[m] /\ applied[n] > 0 => db[n] = db[m]
=============================================================================
