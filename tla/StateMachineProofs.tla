------------------------- MODULE StateMachineProofs -------------------------
(***************************************************************************)
(* The handles of the store, for any number of readers and restores.       *)
(***************************************************************************)
EXTENDS StateMachine, TLAPS

\* The handle in use holds the state; a restore has a second one, which it
\* closes whether it has come to the swap or not.
HandleInv ==
    /\ finished <= dispatched /\ lastApplied <= dispatched /\ finished <= state
    /\ fsmPc = "write" => finished < dispatched
    /\ db \in open => content[db] = state
    /\ Restoring => ~closed /\ finished = dispatched /\ finished < target
    /\ fsmPc \in {"fill", "closeOld"} => spare # db /\ open = {db, spare}
    /\ fsmPc \in {"closeOld", "removeOld"} => state = target
    /\ fsmPc = "removeOld" => open = {db}
    /\ ~Restoring /\ ~closed => open = {db}
    /\ closed => fsmPc = "idle" /\ open \subseteq {db}

\* A reader's handle, while it is open, holds what was finished when the
\* reader was called: the content of a handle never goes back, and a restore
\* does not fill a handle that a reader has.
ReaderInv ==
    \A r \in Readers :
        /\ rpc[r] = "load" => floor[r] <= finished
        /\ rpc[r] = "get" => /\ rdb[r] \in open => floor[r] <= content[rdb[r]]
                             /\ fsmPc = "fill" => rdb[r] # spare
        /\ rpc[r] = "returned" => floor[r] <= rval[r]

SnapInv ==
    /\ snap.content = snap.at
    /\ SnapshotIsFrozen

IInv == TypeOK /\ HandleInv /\ ReaderInv /\ SnapInv

\* Who takes a step.
RaftStep == HandOver \/ SetLastApplied
UpdateStep == UpdateLoad \/ UpdateStore
PersistStep == PersistIter \/ PersistRows \/ PersistFailed \/ Release
ReadStep(r) == ReadLocal(r) \/ LoadDB(r) \/ Get(r) \/ Return(r)
CloseStep == Close \/ CloseDB

LEMMA NextCases ==
    ASSUME Next
    PROVE  \/ RaftStep \/ FSMStep \/ UpdateStep \/ PersistStep
           \/ \E r \in Readers : ReadStep(r)
           \/ CloseStep
  BY DEF Next, RaftStep, UpdateStep, PersistStep, ReadStep, CloseStep

LEMMA InitInv == Init => IInv
  <1> SUFFICES ASSUME NEW i \in Indexes \cap {0, 1},
                      dispatched = i /\ lastApplied = i /\ finished = i /\ fsmIndex = i,
                      fsmPc = "idle" /\ target = 0 /\ spare = 0 /\ state = i,
                      db = 0 /\ content = [h \in Handles |-> IF h = 0 THEN i ELSE 0] /\ open = {0},
                      closed = FALSE /\ upc = "load" /\ uindex = 0 /\ spc = "none" /\ persisted = {},
                      snap = NoSnapshot,
                      rpc = [r \in Readers |-> "idle"] /\ rdb = [r \in Readers |-> 0],
                      rval = [r \in Readers |-> 0] /\ floor = [r \in Readers |-> 0],
                      panicked = {}
               PROVE  IInv
    BY DEF Init
  <1>0. i \in Indexes /\ 0 \in Indexes /\ 0 \in Handles
    BY IndexAssumption DEF Indexes, Handles
  <1>1. TypeOK
    BY <1>0 DEF TypeOK, Snapshots, NoSnapshot
  <1>2. HandleInv
    <2>1. i \in Nat /\ content[db] = i
      BY <1>0 DEF Indexes
    <2>2. finished <= dispatched /\ lastApplied <= dispatched /\ finished <= state
      BY <2>1
    <2> QED BY <2>1, <2>2 DEF HandleInv, Restoring
  <1>3. ReaderInv /\ SnapInv
    BY DEF ReaderInv, SnapInv, SnapshotIsFrozen, NoSnapshot
  <1> QED BY <1>1, <1>2, <1>3 DEF IInv

\* Steps that touch neither the FSM nor a reader.
LEMMA OtherSteps ==
    ASSUME IInv, RaftStep \/ UpdateStep \/ PersistStep
    PROVE  IInv'
  <1> USE IndexAssumption DEF IInv
  <1>1. UNCHANGED <<fsmVars, closed, readVars>>
    BY DEF RaftStep, HandOver, SetLastApplied, UpdateStep, UpdateLoad, UpdateStore,
           PersistStep, PersistIter, PersistRows, PersistFailed, Release, Idle
  <1>2. TypeOK'
    <2>1. CASE RaftStep
      BY <2>1, <1>1 DEF TypeOK, RaftStep, HandOver, SetLastApplied, Runs, fsmVars, restoreVars,
                        readVars, snapVars, Indexes
    <2>2. CASE UpdateStep
      BY <2>2, <1>1 DEF TypeOK, UpdateStep, UpdateLoad, UpdateStore, Runs, raftVars, fsmVars,
                        restoreVars, readVars, snapVars
    <2>3. CASE PersistStep
      <3>1. NoSnapshot \in Snapshots
        BY DEF NoSnapshot, Snapshots, Indexes, Handles
      <3> QED BY <2>3, <3>1, <1>1 DEF TypeOK, PersistStep, PersistIter, PersistRows,
                 PersistFailed, Release, Idle, Runs, raftVars, fsmVars, restoreVars, readVars
    <2> QED BY <2>1, <2>2, <2>3
  <1>3. HandleInv'
    <2>1. lastApplied' <= dispatched' /\ dispatched <= dispatched'
          /\ (Restoring => dispatched' = dispatched)
      BY DEF RaftStep, HandOver, SetLastApplied, UpdateStep, UpdateLoad, UpdateStore,
             PersistStep, PersistIter, PersistRows, PersistFailed, Release, Idle, raftVars,
             TypeOK, HandleInv, Indexes
    <2>2. finished' = finished /\ fsmPc' = fsmPc /\ target' = target /\ spare' = spare
          /\ state' = state /\ db' = db /\ content' = content /\ open' = open /\ closed' = closed
      BY <1>1 DEF fsmVars, restoreVars
    <2>3. finished \in Nat /\ dispatched \in Nat /\ dispatched' \in Nat
      BY <1>2 DEF TypeOK, Indexes
    <2>4. finished' <= dispatched' /\ (fsmPc' = "write" => finished' < dispatched')
      BY <2>1, <2>2, <2>3 DEF HandleInv
    <2> QED BY <2>1, <2>2, <2>4 DEF HandleInv, Restoring
  <1>4. ReaderInv'
    BY <1>1 DEF ReaderInv, fsmVars, restoreVars, readVars
  <1>5. SnapInv'
    BY DEF SnapInv, SnapshotIsFrozen, NoSnapshot, RaftStep, HandOver, SetLastApplied, UpdateStep,
           UpdateLoad, UpdateStore, PersistStep, PersistIter, PersistRows, PersistFailed, Release,
           snapVars
  <1> QED BY <1>2, <1>3, <1>4, <1>5

\* What a step of the FSM goroutine must not do to the readers.
LEMMA ReadersUndisturbed ==
    ASSUME IInv, TypeOK', UNCHANGED readVars, finished <= finished',
           \A r \in Readers : rpc[r] = "get" =>
               /\ rdb[r] \in open' => rdb[r] \in open /\ content[rdb[r]] <= content'[rdb[r]]
               /\ fsmPc' = "fill" => rdb[r] # spare'
    PROVE  ReaderInv'
  <1> SUFFICES ASSUME NEW r \in Readers
               PROVE  /\ rpc[r] = "load" => floor[r] <= finished'
                      /\ rpc[r] = "get" =>
                             /\ rdb[r] \in open' => floor[r] <= content'[rdb[r]]
                             /\ fsmPc' = "fill" => rdb[r] # spare'
                      /\ rpc[r] = "returned" => floor[r] <= rval[r]
    BY DEF ReaderInv, readVars
  <1>1. floor[r] \in Indexes /\ content[rdb[r]] \in Indexes /\ finished \in Indexes
    BY DEF IInv, TypeOK
  <1>2. content'[rdb[r]] \in Indexes /\ finished' \in Indexes
    BY DEF IInv, TypeOK
  <1> QED BY <1>1, <1>2, IndexAssumption DEF IInv, ReaderInv, Indexes

\* Steps of the FSM goroutine that leave the handles as they are.
LEMMA FSMQuietSteps ==
    ASSUME IInv, Apply \/ Snapshot \/ RestoreFailedLate \/ RestoreIndex
    PROVE  IInv'
  <1> USE IndexAssumption DEF IInv
  <1>1. UNCHANGED <<state, db, content, open, closed, readVars, upc, uindex>>
    BY DEF Apply, Snapshot, RestoreFailedLate, RestoreIndex, fsmVars
  <1>2. TypeOK'
    <2>1. CASE Apply
      BY <2>1 DEF Apply, TypeOK, HandleInv, Runs, raftVars, restoreVars, readVars, snapVars, Indexes
    <2>2. CASE Snapshot
      BY <2>2 DEF Snapshot, TypeOK, Runs, raftVars, fsmVars, restoreVars, readVars, Snapshots
    <2>3. CASE RestoreFailedLate
      BY <2>3 DEF RestoreFailedLate, RestoreReturns, TypeOK, Runs, raftVars, readVars, snapVars,
                  Indexes, Handles
    <2>4. CASE RestoreIndex
      BY <2>4 DEF RestoreIndex, RestoreReturns, TypeOK, Runs, readVars, snapVars, Indexes, Handles
    <2> QED BY <2>1, <2>2, <2>3, <2>4
  <1>3. HandleInv'
    <2>1. CASE Apply
      BY <2>1 DEF Apply, HandleInv, Restoring, raftVars, restoreVars
    <2>2. CASE Snapshot
      BY <2>2 DEF Snapshot, HandleInv, Restoring, raftVars, fsmVars, restoreVars
    <2>3. CASE RestoreFailedLate
      BY <2>3 DEF RestoreFailedLate, HandleInv, Restoring, raftVars
    <2>4. CASE RestoreIndex
      <3>1. finished' = target /\ dispatched' = target /\ lastApplied' = lastApplied
            /\ fsmPc' = "idle" /\ state = target /\ open = {db} /\ ~closed
            /\ lastApplied <= dispatched /\ dispatched < target
        BY <2>4 DEF RestoreIndex, HandleInv, Restoring
      <3>2. lastApplied <= target /\ target <= target
        BY <3>1 DEF TypeOK, Indexes
      <3> QED BY <3>1, <3>2, <1>1 DEF HandleInv, Restoring
    <2> QED BY <2>1, <2>2, <2>3, <2>4
  <1>4. ReaderInv'
    <2>1. finished <= finished' /\ fsmPc' # "fill"
      <3>1. CASE RestoreIndex
        BY <3>1 DEF RestoreIndex, HandleInv, Restoring, TypeOK, Indexes
      <3>2. CASE Apply \/ Snapshot \/ RestoreFailedLate
        BY <3>2 DEF Apply, Snapshot, RestoreFailedLate, fsmVars, TypeOK, Indexes
      <3> QED BY <3>1, <3>2
    <2>2. \A h \in Handles : content[h] <= content'[h]
      BY <1>1 DEF TypeOK, Indexes
    <2>3. \A r \in Readers : rdb[r] \in Handles
      BY DEF TypeOK
    <2> QED BY <1>1, <1>2, <2>1, <2>2, <2>3, ReadersUndisturbed
  <1>5. SnapInv'
    BY DEF SnapInv, SnapshotIsFrozen, Apply, Snapshot, RestoreFailedLate, RestoreIndex, HandleInv,
           Restoring, snapVars
  <1> QED BY <1>2, <1>3, <1>4, <1>5

\* insert raises the content of the handle in use.
LEMMA InsertStep ==
    ASSUME IInv, ApplyInsert
    PROVE  IInv'
  <1> USE IndexAssumption DEF IInv
  <1>1. /\ finished \in Nat /\ finished < dispatched /\ dispatched \in Indexes /\ state \in Nat
        /\ db \in Handles /\ content[db] \in Nat /\ content \in [Handles -> Indexes]
    <2>1. fsmPc = "write" /\ TypeOK
      BY DEF ApplyInsert
    <2> QED BY <2>1 DEF HandleInv, TypeOK, Indexes
  <1>2. finished + 1 \in Indexes /\ Later(content[db], finished + 1) \in Indexes
        /\ Later(state, finished + 1) \in Indexes
    BY <1>1 DEF Later, TypeOK, Indexes
  <1>3. finished + 1 <= Later(state, finished + 1) /\ finished + 1 <= dispatched
        /\ content[db] <= Later(content[db], finished + 1) /\ finished <= finished + 1
    BY <1>1 DEF Later, Indexes
  <1>4. TypeOK'
    BY <1>2 DEF ApplyInsert, TypeOK, Runs, raftVars, restoreVars, readVars, snapVars
  <1>5. HandleInv'
    BY <1>1, <1>3 DEF ApplyInsert, HandleInv, Restoring, raftVars, restoreVars
  <1>6. ReaderInv'
    <2>1. \A h \in Handles : content[h] <= content'[h]
      <3> TAKE h \in Handles
      <3>1. CASE h = db
        BY <3>1, <1>1, <1>3 DEF ApplyInsert
      <3>2. CASE h # db
        BY <3>2, <1>1 DEF ApplyInsert, Indexes
      <3> QED BY <3>1, <3>2
    <2>2. UNCHANGED <<readVars, open>> /\ fsmPc' = "idle" /\ finished <= finished'
      BY <1>3 DEF ApplyInsert
    <2>3. \A r \in Readers : rdb[r] \in Handles
      BY DEF TypeOK
    <2> QED BY <1>4, <2>1, <2>2, <2>3, ReadersUndisturbed
  <1>7. SnapInv'
    BY DEF SnapInv, SnapshotIsFrozen, ApplyInsert, snapVars
  <1> QED BY <1>4, <1>5, <1>6, <1>7

\* A restore opens a handle that nobody has.
LEMMA OpenStep ==
    ASSUME IInv, NEW i \in dispatched + 1 .. MaxIndex, RestoreOpen(i)
    PROVE  IInv'
  <1> USE IndexAssumption DEF IInv
  <1>1. PICK h \in FreeHandles : spare' = h /\ open' = open \cup {h}
    BY DEF RestoreOpen
  <1>2. h \in Handles /\ h \notin open /\ h # db /\ \A r \in Readers : h # rdb[r] \/ rpc[r] # "get"
    BY DEF FreeHandles
  <1>3. i \in Indexes /\ dispatched < i
    BY DEF TypeOK, Indexes
  <1>4. TypeOK'
    BY <1>1, <1>2, <1>3 DEF RestoreOpen, TypeOK, Runs, raftVars, readVars, snapVars
  <1>5. HandleInv'
    BY <1>1, <1>2, <1>3 DEF RestoreOpen, HandleInv, Restoring, raftVars
  <1>6. ReaderInv'
    <2>1. \A g \in Handles : content[g] <= content'[g]
      BY DEF RestoreOpen, TypeOK, Indexes
    <2>2. \A r \in Readers : rdb[r] \in Handles
      BY DEF TypeOK
    <2>3. UNCHANGED readVars /\ finished <= finished'
      BY DEF RestoreOpen, TypeOK, Indexes
    <2> QED BY <1>1, <1>2, <1>4, <2>1, <2>2, <2>3, ReadersUndisturbed
  <1>7. SnapInv'
    BY DEF SnapInv, SnapshotIsFrozen, RestoreOpen, snapVars
  <1> QED BY <1>4, <1>5, <1>6, <1>7

\* The new handle is filled, which no reader has, and swapped in.
LEMMA SwapStep ==
    ASSUME IInv, RestoreSwap
    PROVE  IInv'
  <1> USE IndexAssumption DEF IInv
  <1>1. /\ spare # db /\ open = {db, spare} /\ finished = dispatched /\ finished < target /\ ~closed
        /\ spare \in Handles /\ db \in Handles /\ target \in Indexes
        /\ content \in [Handles -> Indexes]
    BY DEF RestoreSwap, HandleInv, Restoring, TypeOK
  <1>2. TypeOK'
    BY <1>1 DEF RestoreSwap, TypeOK, Runs, raftVars, readVars, snapVars
  <1>3. HandleInv'
    <2>1. finished <= target
      BY <1>1 DEF TypeOK, Indexes
    <2> QED BY <1>1, <2>1 DEF RestoreSwap, HandleInv, Restoring, raftVars
  <1>4. ReaderInv'
    <2>1. \A r \in Readers : rpc[r] = "get" =>
              rdb[r] \in Handles /\ rdb[r] # spare /\ content[rdb[r]] <= content[rdb[r]]
      BY DEF RestoreSwap, ReaderInv, TypeOK, Indexes
    <2>2. content' = [content EXCEPT ![spare] = target] /\ open' = open /\ fsmPc' = "closeOld"
          /\ UNCHANGED readVars /\ finished <= finished'
      BY DEF RestoreSwap, TypeOK, Indexes
    <2> QED BY <1>1, <1>2, <2>1, <2>2, ReadersUndisturbed
  <1>5. SnapInv'
    BY DEF SnapInv, SnapshotIsFrozen, RestoreSwap, snapVars
  <1> QED BY <1>2, <1>3, <1>4, <1>5

\* The other handle is closed, on the way back or after the swap.
LEMMA CloseSpareStep ==
    ASSUME IInv, RestoreFailed \/ RestoreCloseOld
    PROVE  IInv'
  <1> USE IndexAssumption DEF IInv
  <1>1. /\ spare # db /\ open = {db, spare} /\ ~closed
        /\ spare \in Handles /\ db \in Handles /\ content \in [Handles -> Indexes]
    BY DEF RestoreFailed, RestoreCloseOld, HandleInv, Restoring, TypeOK
  <1>2. content' = [content EXCEPT ![spare] = 0] /\ open' = {db}
    BY <1>1 DEF RestoreFailed, RestoreCloseOld, CloseHandle
  <1>3. TypeOK'
    <2>1. 0 \in Indexes /\ 0 \in Handles
      BY DEF Indexes, Handles
    <2>2. content' \in [Handles -> Indexes] /\ open' \subseteq Handles
      BY <1>1, <1>2, <2>1
    <2>3. CASE RestoreFailed
      BY <2>1, <2>2, <2>3 DEF RestoreFailed, RestoreReturns, TypeOK, Runs, raftVars, readVars,
                              snapVars
    <2>4. CASE RestoreCloseOld
      BY <2>2, <2>4 DEF RestoreCloseOld, TypeOK, Runs, raftVars, restoreVars, readVars, snapVars
    <2> QED BY <2>3, <2>4
  <1>4. HandleInv'
    BY <1>1, <1>2 DEF RestoreFailed, RestoreCloseOld, HandleInv, Restoring, raftVars, restoreVars
  <1>5. ReaderInv'
    <2>1. UNCHANGED readVars /\ fsmPc' # "fill" /\ finished <= finished'
      BY DEF RestoreFailed, RestoreCloseOld, TypeOK, Indexes
    <2>2. content[db] <= content'[db]
      BY <1>1, <1>2 DEF Indexes
    <2> QED BY <1>1, <1>2, <1>3, <2>1, <2>2, ReadersUndisturbed
  <1>6. SnapInv'
    BY DEF SnapInv, SnapshotIsFrozen, RestoreFailed, RestoreCloseOld, snapVars
  <1> QED BY <1>3, <1>4, <1>5, <1>6

LEMMA FSMSteps ==
    ASSUME IInv, FSMStep
    PROVE  IInv'
  BY FSMQuietSteps, InsertStep, OpenStep, SwapStep, CloseSpareStep DEF FSMStep

LEMMA ReadSteps ==
    ASSUME IInv, NEW r \in Readers, ReadStep(r)
    PROVE  IInv'
  <1> USE IndexAssumption DEF IInv
  <1>1. UNCHANGED <<raftVars, fsmVars, fsmIndex, closed, upc, uindex, snapVars>>
    BY DEF ReadStep, ReadLocal, LoadDB, Get, Return, Idle
  <1>2. TypeOK'
    <2>1. /\ rpc' \in [Readers -> {"idle", "load", "get", "returned", "closed"}]
          /\ rdb' \in [Readers -> Handles] /\ rval' \in [Readers -> Indexes]
          /\ floor' \in [Readers -> Indexes]
          /\ panicked' \subseteq {"reader", "persist"}
      <3>1. CASE ReadLocal(r)
        BY <3>1 DEF TypeOK, ReadLocal, Runs
      <3>2. CASE LoadDB(r)
        BY <3>2 DEF TypeOK, LoadDB, Runs
      <3>3. CASE Get(r)
        BY <3>3 DEF TypeOK, Get, Runs
      <3>4. CASE Return(r)
        <4>1. 0 \in Indexes /\ 0 \in Handles
          BY DEF Indexes, Handles
        <4> QED BY <3>4, <4>1 DEF TypeOK, Return, Runs
      <3> QED BY <3>1, <3>2, <3>3, <3>4 DEF ReadStep
    <2> QED BY <1>1, <2>1 DEF TypeOK, raftVars, fsmVars, restoreVars, snapVars
  <1>3. HandleInv' /\ SnapInv'
    BY <1>1 DEF HandleInv, Restoring, SnapInv, SnapshotIsFrozen, raftVars, fsmVars, restoreVars,
                snapVars
  <1>4. ASSUME NEW q \in Readers
        PROVE  /\ rpc'[q] = "load" => floor'[q] <= finished'
               /\ rpc'[q] = "get" => /\ rdb'[q] \in open' => floor'[q] <= content'[rdb'[q]]
                                     /\ fsmPc' = "fill" => rdb'[q] # spare'
               /\ rpc'[q] = "returned" => floor'[q] <= rval'[q]
    <2>1. finished' = finished /\ db' = db /\ content' = content /\ open' = open
          /\ fsmPc' = fsmPc /\ spare' = spare
      BY <1>1 DEF fsmVars, restoreVars
    <2>2. /\ rpc[q] = "load" => floor[q] <= finished
          /\ rpc[q] = "get" => /\ rdb[q] \in open => floor[q] <= content[rdb[q]]
                               /\ fsmPc = "fill" => rdb[q] # spare
          /\ rpc[q] = "returned" => floor[q] <= rval[q]
      BY DEF ReaderInv
    <2>3. finished <= finished /\ (fsmPc = "fill" => db # spare)
          /\ (db \in open /\ floor[q] <= finished => floor[q] <= content[db])
      BY DEF HandleInv, TypeOK, Indexes
    <2>4. CASE ReadLocal(r)
      BY <2>1, <2>2, <2>3, <2>4 DEF ReadLocal, TypeOK
    <2>5. CASE LoadDB(r)
      BY <2>1, <2>2, <2>3, <2>5 DEF LoadDB, TypeOK
    <2>6. CASE Get(r)
      BY <2>1, <2>2, <2>6 DEF Get, TypeOK
    <2>7. CASE Return(r)
      BY <2>1, <2>2, <2>7 DEF Return, TypeOK
    <2> QED BY <2>4, <2>5, <2>6, <2>7 DEF ReadStep
  <1> QED BY <1>2, <1>3, <1>4 DEF ReaderInv

LEMMA CloseSteps ==
    ASSUME IInv, CloseStep
    PROVE  IInv'
  <1> USE DEF IInv
  <1>1. UNCHANGED <<raftVars, finished, fsmPc, restoreVars, state, db, snapVars, readVars>>
    BY DEF CloseStep, Close, CloseDB, fsmVars
  <1>2. CASE Close
    <2>1. UNCHANGED <<content, open>>
      BY <1>2 DEF Close, fsmVars
    <2>2. TypeOK'
      BY <1>1, <1>2, <2>1 DEF TypeOK, Close, Runs, raftVars, restoreVars, snapVars, readVars
    <2>3. HandleInv'
      BY <1>1, <1>2, <2>1 DEF HandleInv, Restoring, Close, raftVars, restoreVars
    <2> QED BY <1>1, <2>1, <2>2, <2>3 DEF ReaderInv, SnapInv, SnapshotIsFrozen, restoreVars,
                                         snapVars, readVars
  <1>3. CASE CloseDB
    <2>1. open' = {} /\ content' = [content EXCEPT ![db] = 0] /\ closed /\ closed'
      BY <1>3 DEF CloseDB, CloseHandle, HandleInv
    <2>2. TypeOK'
      BY <1>1, <1>3, <2>1, IndexAssumption DEF TypeOK, CloseDB, Runs, raftVars, restoreVars,
                                               snapVars, readVars, Indexes
    <2>3. HandleInv'
      BY <1>1, <2>1 DEF HandleInv, Restoring, raftVars, restoreVars
    <2> QED BY <1>1, <2>1, <2>2, <2>3 DEF ReaderInv, SnapInv, SnapshotIsFrozen, restoreVars,
                                         snapVars, readVars
  <1> QED BY <1>2, <1>3 DEF CloseStep

LEMMA NextInv == IInv /\ [Next]_vars => IInv'
  <1> SUFFICES ASSUME IInv, [Next]_vars
               PROVE  IInv'
    OBVIOUS
  <1>1. CASE UNCHANGED vars
    BY <1>1 DEF IInv, TypeOK, HandleInv, Restoring, ReaderInv, SnapInv, SnapshotIsFrozen, vars,
                raftVars, fsmVars, restoreVars, snapVars, readVars
  <1> QED BY <1>1, NextCases, OtherSteps, FSMSteps, ReadSteps, CloseSteps

-----------------------------------------------------------------------------

\* A read that returns reflects every entry that was finished when it was
\* called, across any number of restores, failed or not (getBytes,
\* recoverSnapShot).
THEOREM ReadsAreRecent == Spec => []ReadIsRecent
  <1>1. IInv => ReadIsRecent
    BY IndexAssumption DEF IInv, ReaderInv, ReadIsRecent, TypeOK, Indexes
  <1> QED BY <1>1, InitInv, NextInv, PTL DEF Spec

\* Persist writes the state at the moment of Snapshot (Snapshot, Persist).
THEOREM SnapshotsAreFrozen == Spec => []SnapshotIsFrozen
  <1>1. IInv => SnapshotIsFrozen
    BY DEF IInv, SnapInv
  <1> QED BY <1>1, InitInv, NextInv, PTL DEF Spec

\* The store serves an open handle and leaks none, whichever exits its
\* restores take (recoverSnapShot, cleanupNewDB, close).
THEOREM HandlesAreSafe == Spec => []OneHandle
  <1>1. IInv => OneHandle
    BY DEF IInv, HandleInv, OneHandle, Restoring
  <1> QED BY <1>1, InitInv, NextInv, PTL DEF Spec

\* The type invariant: indexes and handles stay within their bounds.
THEOREM StateMachineTypes == Spec => []TypeOK
  <1>1. IInv => TypeOK
    BY DEF IInv
  <1> QED BY <1>1, InitInv, NextInv, PTL DEF Spec

=============================================================================
