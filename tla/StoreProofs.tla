---------------------------- MODULE StoreProofs ----------------------------
(***************************************************************************)
(* Proofs about Store, for any set of directories and of values: as long   *)
(* as directory syncs and batch commits do not fail, and a process that    *)
(* dies has its directory entries written back, every crash and power      *)
(* failure finds pebble.running naming a complete directory, and the store *)
(* is atomic.                                                              *)
(***************************************************************************)
EXTENDS Store, TLAPS

OrderlyFaults == Faults \cap {"dirtyCrash", "syncDir", "commit"} = {}

\* What is on disk.  Until the first open there is no directory at all.
DiskInv ==
    /\ whole \subseteq exists
    /\ running # Torn /\ runningSynced # Torn
    /\ ~opened => exists = {} /\ existsSynced = {}
    /\ opened => running \in whole /\ runningSynced \in existsSynced \cap whole
    /\ pc # "syncRunning" => running = runningSynced
    /\ pc = "rename" => updating = newDir

\* A start of the process: the handle is not there yet.
BootInv ==
    /\ db # NoDir <=> restoring \/ pc = "idle"
    /\ pc \in {"save", "saveSync", "rename"} /\ ~restoring
           => ~opened /\ newDir \in Dirs /\ running = NoDir
    /\ pc = "syncRunning" /\ ~restoring
           => ~opened /\ newDir \in Dirs /\ running = newDir
    /\ pc \in {"cleanup", "stat", "open"} => running \in Dirs
    /\ pc = "open" => newDir = running
    /\ pc = "idle" => opened /\ db = running

\* A restore: pebble.running goes from the old directory to the new one, and
\* then the handle does.
RestoreInv ==
    /\ pc \in {"fill", "swap", "closeOld", "removeOld", "syncParent"} => restoring
    /\ restoring =>
        /\ opened
        /\ pc \in {"fill", "save", "saveSync", "rename", "syncRunning",
                   "swap", "closeOld", "removeOld", "syncParent"}
        /\ newDir \in exists \cap existsSynced
        /\ oldDir \in Dirs /\ newDir # oldDir
        /\ pc # "fill" => newDir \in whole /\ content[newDir] = target
        /\ pc \in {"fill", "save", "saveSync", "rename"} => running = oldDir /\ db = oldDir
        /\ pc = "syncRunning" => running = newDir /\ runningSynced = oldDir /\ db = oldDir
        /\ pc = "swap" => running = newDir /\ db = oldDir
        /\ pc \in {"closeOld", "removeOld", "syncParent"} => running = newDir /\ db = newDir

\* The only directories are the one in use, the one being filled, and those
\* known to be left behind.
LeakInv ==
    /\ pc \in {"stat", "open"} => exists \subseteq {running}
    /\ pc = "idle" => exists \subseteq {running} \cup leftBehind
    /\ restoring => exists \subseteq {oldDir, newDir} \cup leftBehind
    /\ pc = "syncParent" => exists \subseteq {newDir} \cup leftBehind

StoreInv == DiskInv /\ BootInv /\ RestoreInv

\* What the handle needs, whatever fails: until the swap it is open on a
\* directory other than the one being filled, from then on it is that one,
\* and the directory to be removed is never the new one.
ServeInv ==
    /\ pc = "idle" => db \in exists \cap open
    /\ pc \in {"fill", "swap", "closeOld", "removeOld", "syncParent"} => restoring
    /\ restoring =>
        /\ pc \in {"fill", "save", "saveSync", "rename", "syncRunning",
                   "swap", "closeOld", "removeOld", "syncParent"}
        /\ newDir \in exists \cap open /\ newDir # oldDir
        /\ pc \in {"fill", "save", "saveSync", "rename", "syncRunning", "swap"}
               => db \in exists \cap open /\ db # newDir
        /\ pc \in {"closeOld", "removeOld", "syncParent"} => db = newDir

-----------------------------------------------------------------------------
\* The type invariant is inductive, whatever fails.
LEMMA StoreTypeInductive ==
    StoreTypeOK /\ [StoreNext]_storeVars => StoreTypeOK'
<1> SUFFICES ASSUME StoreTypeOK, [StoreNext]_storeVars PROVE StoreTypeOK'
  OBVIOUS
<1> USE NamesAssumption DEF StoreTypeOK, ControlStates, fileVars, dirVars, callVars, handleVars
<1>1. CASE BootNew
  BY <1>1 DEF BootNew, Down, FreshDirs
<1>2. CASE BootExisting
  BY <1>2 DEF BootExisting, Down
<1>3. CASE CleanupDone
  BY <1>3 DEF CleanupDone
<1>4. CASE StatFound
  BY <1>4 DEF StatFound
<1>5. CASE StatMissing
  BY <1>5 DEF StatMissing
<1>6. CASE OpenPebbleDB
  BY <1>6 DEF OpenPebbleDB, CreatePebble
<1>7. CASE BootFailed
  BY <1>7 DEF BootFailed
<1>8. CASE SaveCreated
  BY <1>8 DEF SaveCreated
<1>9. CASE SaveWritten
  BY <1>9 DEF SaveWritten, SyncDir
<1>10. CASE SaveFailed
  BY <1>10 DEF SaveFailed, SyncDir, Abort, RemoveAll, RemovalFailed
<1>11. CASE Rename
  BY <1>11 DEF Rename
<1>12. CASE RenameFailed
  BY <1>12 DEF RenameFailed, Abort, RemoveAll, RemovalFailed
<1>13. CASE SyncRunning
  BY <1>13 DEF SyncRunning, SyncDir
<1>14. CASE SyncRunningFailed
  BY <1>14 DEF SyncRunningFailed, Abort, RemoveAll, RemovalFailed
<1>15. CASE RestoreNotOpened
  BY <1>15 DEF RestoreNotOpened, FreshDirs
<1>16. CASE RestoreFilled
  BY <1>16 DEF RestoreFilled
<1>17. CASE RestoreRejected
  BY <1>17 DEF RestoreRejected, Abort, RemoveAll, RemovalFailed
<1>18. CASE RestoreLossy
  BY <1>18 DEF RestoreLossy
<1>19. CASE RestoreSwapped
  BY <1>19 DEF RestoreSwapped
<1>20. CASE RestoreClosedOld
  BY <1>20 DEF RestoreClosedOld
<1>21. CASE RestoreRemovedOld
  BY <1>21 DEF RestoreRemovedOld, RemoveAll
<1>22. CASE RestoreFailedLate
  BY <1>22 DEF RestoreFailedLate, RemovalFailed
<1>23. CASE RestoreDone
  BY <1>23 DEF RestoreDone, SyncDir
<1>24. CASE Close
  BY <1>24 DEF Close, ProcessEnds
<1>25. CASE Crash
  BY <1>25 DEF Crash, ProcessEnds, SyncDir, Down
<1>26. CASE PowerFailure
  BY <1>26 DEF PowerFailure, ProcessEnds
<1>27. ASSUME NEW d \in Dirs, CleanupDir(d) PROVE StoreTypeOK'
  BY <1>27 DEF CleanupDir, RemoveAll
<1>28. ASSUME NEW v \in Values, Apply(v) PROVE StoreTypeOK'
  BY <1>28 DEF Apply
<1>29. ASSUME NEW v \in Values, RestoreOpened(v) PROVE StoreTypeOK'
  BY <1>29 DEF RestoreOpened, CreatePebble, FreshDirs
<1>30. CASE UNCHANGED storeVars
  BY <1>30 DEF storeVars
<1> QED
  BY <1>1, <1>2, <1>3, <1>4, <1>5, <1>6, <1>7, <1>8, <1>9, <1>10, <1>11,
     <1>12, <1>13, <1>14, <1>15, <1>16, <1>17, <1>18, <1>19, <1>20, <1>21,
     <1>22, <1>23, <1>24, <1>25, <1>26, <1>27, <1>28, <1>29, <1>30 DEF
     StoreNext

\* The invariant holds initially ...
LEMMA StoreInvInitial ==
    StoreInit => StoreTypeOK /\ StoreInv
BY NamesAssumption DEF StoreInit, StoreTypeOK, ControlStates, StoreInv, DiskInv, BootInv, RestoreInv

\* ... and the steps of the store preserve it.
LEMMA StoreInvInductive ==
    ASSUME OrderlyFaults, StoreTypeOK, StoreInv, [StoreNext]_storeVars
    PROVE  StoreInv'
<1> USE NamesAssumption DEF OrderlyFaults, StoreTypeOK, ControlStates, StoreInv, DiskInv, BootInv,
        RestoreInv, fileVars, dirVars, callVars, handleVars
<1>1. CASE BootNew
  BY <1>1 DEF BootNew, Down, FreshDirs
<1>2. CASE BootExisting
  BY <1>2 DEF BootExisting, Down
<1>3. CASE CleanupDone
  BY <1>3 DEF CleanupDone
<1>4. CASE StatFound
  BY <1>4 DEF StatFound
<1>5. CASE StatMissing
  BY <1>5 DEF StatMissing
<1>6. CASE OpenPebbleDB
  BY <1>6 DEF OpenPebbleDB, CreatePebble
<1>7. CASE BootFailed
  BY <1>7 DEF BootFailed
<1>8. CASE SaveCreated
  BY <1>8 DEF SaveCreated
<1>9. CASE SaveWritten
  BY <1>9 DEF SaveWritten, SyncDir
<1>10. CASE SaveFailed
  BY <1>10 DEF SaveFailed, SyncDir, Abort, RemoveAll, RemovalFailed
<1>11. CASE Rename
  BY <1>11 DEF Rename
<1>12. CASE RenameFailed
  BY <1>12 DEF RenameFailed, Abort, RemoveAll, RemovalFailed
<1>13. CASE SyncRunning
  BY <1>13 DEF SyncRunning, SyncDir
<1>14. CASE SyncRunningFailed
  BY <1>14 DEF SyncRunningFailed, Abort, RemoveAll, RemovalFailed
<1>15. CASE RestoreNotOpened
  BY <1>15 DEF RestoreNotOpened, FreshDirs
<1>16. CASE RestoreFilled
  BY <1>16 DEF RestoreFilled
<1>17. CASE RestoreRejected
  BY <1>17 DEF RestoreRejected, Abort, RemoveAll, RemovalFailed
<1>18. CASE RestoreLossy
  BY <1>18 DEF RestoreLossy
<1>19. CASE RestoreSwapped
  BY <1>19 DEF RestoreSwapped
<1>20. CASE RestoreClosedOld
  BY <1>20 DEF RestoreClosedOld
<1>21. CASE RestoreRemovedOld
  BY <1>21 DEF RestoreRemovedOld, RemoveAll
<1>22. CASE RestoreFailedLate
  BY <1>22 DEF RestoreFailedLate, RemovalFailed
<1>23. CASE RestoreDone
  BY <1>23 DEF RestoreDone, SyncDir
<1>24. CASE Close
  BY <1>24 DEF Close, ProcessEnds
<1>25. CASE Crash
  BY <1>25 DEF Crash, ProcessEnds, SyncDir, Down
<1>26. CASE PowerFailure
  BY <1>26 DEF PowerFailure, ProcessEnds
<1>27. ASSUME NEW d \in Dirs, CleanupDir(d) PROVE StoreInv'
  BY <1>27 DEF CleanupDir, RemoveAll
<1>28. ASSUME NEW v \in Values, Apply(v) PROVE StoreInv'
  BY <1>28 DEF Apply
<1>29. ASSUME NEW v \in Values, RestoreOpened(v) PROVE StoreInv'
  BY <1>29 DEF RestoreOpened, CreatePebble, FreshDirs
<1>30. CASE UNCHANGED storeVars
  BY <1>30 DEF storeVars
<1> QED
  BY <1>1, <1>2, <1>3, <1>4, <1>5, <1>6, <1>7, <1>8, <1>9, <1>10, <1>11,
     <1>12, <1>13, <1>14, <1>15, <1>16, <1>17, <1>18, <1>19, <1>20, <1>21,
     <1>22, <1>23, <1>24, <1>25, <1>26, <1>27, <1>28, <1>29, <1>30 DEF
     StoreNext

\* Nothing is left behind but what could not be opened or removed.
LEMMA LeakInvInductive ==
    ASSUME OrderlyFaults, StoreTypeOK, StoreInv, LeakInv,
           [StoreNext]_storeVars
    PROVE  LeakInv'
<1> USE NamesAssumption DEF OrderlyFaults, StoreTypeOK, ControlStates, StoreInv, DiskInv, BootInv,
        RestoreInv, LeakInv, fileVars, dirVars, callVars, handleVars
<1>1. CASE BootNew
  BY <1>1 DEF BootNew, Down, FreshDirs
<1>2. CASE BootExisting
  BY <1>2 DEF BootExisting, Down
<1>3. CASE CleanupDone
  BY <1>3 DEF CleanupDone
<1>4. CASE StatFound
  BY <1>4 DEF StatFound
<1>5. CASE StatMissing
  BY <1>5 DEF StatMissing
<1>6. CASE OpenPebbleDB
  BY <1>6 DEF OpenPebbleDB, CreatePebble
<1>7. CASE BootFailed
  BY <1>7 DEF BootFailed
<1>8. CASE SaveCreated
  BY <1>8 DEF SaveCreated
<1>9. CASE SaveWritten
  BY <1>9 DEF SaveWritten, SyncDir
<1>10. CASE SaveFailed
  BY <1>10 DEF SaveFailed, SyncDir, Abort, RemoveAll, RemovalFailed
<1>11. CASE Rename
  BY <1>11 DEF Rename
<1>12. CASE RenameFailed
  BY <1>12 DEF RenameFailed, Abort, RemoveAll, RemovalFailed
<1>13. CASE SyncRunning
  BY <1>13 DEF SyncRunning, SyncDir
<1>14. CASE SyncRunningFailed
  BY <1>14 DEF SyncRunningFailed, Abort, RemoveAll, RemovalFailed
<1>15. CASE RestoreNotOpened
  BY <1>15 DEF RestoreNotOpened, FreshDirs
<1>16. CASE RestoreFilled
  BY <1>16 DEF RestoreFilled
<1>17. CASE RestoreRejected
  BY <1>17 DEF RestoreRejected, Abort, RemoveAll, RemovalFailed
<1>18. CASE RestoreLossy
  BY <1>18 DEF RestoreLossy
<1>19. CASE RestoreSwapped
  BY <1>19 DEF RestoreSwapped
<1>20. CASE RestoreClosedOld
  BY <1>20 DEF RestoreClosedOld
<1>21. CASE RestoreRemovedOld
  BY <1>21 DEF RestoreRemovedOld, RemoveAll
<1>22. CASE RestoreFailedLate
  BY <1>22 DEF RestoreFailedLate, RemovalFailed
<1>23. CASE RestoreDone
  BY <1>23 DEF RestoreDone, SyncDir
<1>24. CASE Close
  BY <1>24 DEF Close, ProcessEnds
<1>25. CASE Crash
  BY <1>25 DEF Crash, ProcessEnds, SyncDir, Down
<1>26. CASE PowerFailure
  BY <1>26 DEF PowerFailure, ProcessEnds
<1>27. ASSUME NEW d \in Dirs, CleanupDir(d) PROVE LeakInv'
  BY <1>27 DEF CleanupDir, RemoveAll
<1>28. ASSUME NEW v \in Values, Apply(v) PROVE LeakInv'
  BY <1>28 DEF Apply
<1>29. ASSUME NEW v \in Values, RestoreOpened(v) PROVE LeakInv'
  BY <1>29 DEF RestoreOpened, CreatePebble, FreshDirs
<1>30. CASE UNCHANGED storeVars
  BY <1>30 DEF storeVars
<1> QED
  BY <1>1, <1>2, <1>3, <1>4, <1>5, <1>6, <1>7, <1>8, <1>9, <1>10, <1>11,
     <1>12, <1>13, <1>14, <1>15, <1>16, <1>17, <1>18, <1>19, <1>20, <1>21,
     <1>22, <1>23, <1>24, <1>25, <1>26, <1>27, <1>28, <1>29, <1>30 DEF
     StoreNext

-----------------------------------------------------------------------------
\* From the first open on, pebble.running names a directory that exists and
\* holds a complete state, and it is the one the node serves: at every step
\* of newStore and recoverSnapShot, across crashes, power failures, rejected
\* snapshots and I/O errors.
THEOREM StoreSafety ==
    ASSUME OrderlyFaults
    PROVE  StoreSpec => [](StoreTypeOK /\ RunningIsWhole /\ RunningNamesCurrentDir)
<1>1. StoreInit => StoreTypeOK /\ StoreInv
  BY StoreInvInitial
<1>2. StoreTypeOK /\ StoreInv /\ [StoreNext]_storeVars => StoreTypeOK' /\ StoreInv'
  BY StoreTypeInductive, StoreInvInductive
<1>3. StoreInv => RunningIsWhole /\ RunningNamesCurrentDir
  BY DEF StoreInv, DiskInv, BootInv, RunningIsWhole, RunningNamesCurrentDir
<1> QED
  BY <1>1, <1>2, <1>3, PTL DEF StoreSpec

\* Whatever restores fail and at whichever exit, an idle node has its data
\* directory and those that a restore of the same process could not open or
\* remove, and nothing from before its start (recoverSnapShot, cleanupNewDB,
\* cleanupNodeDataDir).
THEOREM StoreLeaksNothing ==
    ASSUME OrderlyFaults
    PROVE  StoreSpec => []NoLeakedDirs
<1> DEFINE I == StoreTypeOK /\ StoreInv /\ LeakInv
<1>1. StoreInit => I
  BY StoreInvInitial, NamesAssumption DEF StoreInit, LeakInv
<1>2. I /\ [StoreNext]_storeVars => I'
  BY StoreTypeInductive, StoreInvInductive, LeakInvInductive
<1>3. I => NoLeakedDirs
  BY DEF StoreInv, DiskInv, BootInv, LeakInv, NoLeakedDirs
<1> HIDE DEF I
<1> QED
  BY <1>1, <1>2, <1>3, PTL DEF StoreSpec

\* The steps of the store preserve what the handle needs.
LEMMA ServeInvInductive ==
    StoreTypeOK /\ ServeInv /\ [StoreNext]_storeVars => ServeInv'
<1> SUFFICES ASSUME StoreTypeOK, ServeInv, [StoreNext]_storeVars PROVE ServeInv'
  OBVIOUS
<1> USE NamesAssumption DEF StoreTypeOK, ServeInv, fileVars, dirVars, callVars, handleVars
<1>1. CASE BootNew
  BY <1>1 DEF BootNew, Down, FreshDirs
<1>2. CASE BootExisting
  BY <1>2 DEF BootExisting, Down
<1>3. CASE CleanupDone
  BY <1>3 DEF CleanupDone
<1>4. CASE StatFound
  BY <1>4 DEF StatFound
<1>5. CASE StatMissing
  BY <1>5 DEF StatMissing
<1>6. CASE OpenPebbleDB
  BY <1>6 DEF OpenPebbleDB, CreatePebble
<1>7. CASE BootFailed
  BY <1>7 DEF BootFailed
<1>8. CASE SaveCreated
  BY <1>8 DEF SaveCreated
<1>9. CASE SaveWritten
  BY <1>9 DEF SaveWritten, SyncDir
<1>10. CASE SaveFailed
  BY <1>10 DEF SaveFailed, SyncDir, Abort, RemoveAll, RemovalFailed
<1>11. CASE Rename
  BY <1>11 DEF Rename
<1>12. CASE RenameFailed
  BY <1>12 DEF RenameFailed, Abort, RemoveAll, RemovalFailed
<1>13. CASE SyncRunning
  BY <1>13 DEF SyncRunning, SyncDir
<1>14. CASE SyncRunningFailed
  BY <1>14 DEF SyncRunningFailed, Abort, RemoveAll, RemovalFailed
<1>15. CASE RestoreNotOpened
  BY <1>15 DEF RestoreNotOpened, FreshDirs
<1>16. CASE RestoreFilled
  BY <1>16 DEF RestoreFilled
<1>17. CASE RestoreRejected
  BY <1>17 DEF RestoreRejected, Abort, RemoveAll, RemovalFailed
<1>18. CASE RestoreLossy
  BY <1>18 DEF RestoreLossy
<1>19. CASE RestoreSwapped
  BY <1>19 DEF RestoreSwapped
<1>20. CASE RestoreClosedOld
  BY <1>20 DEF RestoreClosedOld
<1>21. CASE RestoreRemovedOld
  BY <1>21 DEF RestoreRemovedOld, RemoveAll
<1>22. CASE RestoreFailedLate
  BY <1>22 DEF RestoreFailedLate, RemovalFailed
<1>23. CASE RestoreDone
  BY <1>23 DEF RestoreDone, SyncDir
<1>24. CASE Close
  BY <1>24 DEF Close, ProcessEnds
<1>25. CASE Crash
  BY <1>25 DEF Crash, ProcessEnds, SyncDir, Down
<1>26. CASE PowerFailure
  BY <1>26 DEF PowerFailure, ProcessEnds
<1>27. ASSUME NEW d \in Dirs, CleanupDir(d) PROVE ServeInv'
  BY <1>27 DEF CleanupDir, RemoveAll
<1>28. ASSUME NEW v \in Values, Apply(v) PROVE ServeInv'
  BY <1>28 DEF Apply
<1>29. ASSUME NEW v \in Values, RestoreOpened(v) PROVE ServeInv'
  BY <1>29 DEF RestoreOpened, CreatePebble, FreshDirs
<1>30. CASE UNCHANGED storeVars
  BY <1>30 DEF storeVars
<1> QED
  BY <1>1, <1>2, <1>3, <1>4, <1>5, <1>6, <1>7, <1>8, <1>9, <1>10, <1>11,
     <1>12, <1>13, <1>14, <1>15, <1>16, <1>17, <1>18, <1>19, <1>20, <1>21,
     <1>22, <1>23, <1>24, <1>25, <1>26, <1>27, <1>28, <1>29, <1>30 DEF
     StoreNext

\* Whatever fails, the start, the restore and their error paths included, a
\* node between two operations serves an open handle of a directory that is
\* there (newStore, recoverSnapShot, cleanupNewDB).
THEOREM StoreServes ==
    StoreSpec => []ServesOpenDir
<1>1. StoreInit => StoreTypeOK /\ ServeInv
  BY StoreInvInitial DEF StoreInit, ServeInv
<1>2. StoreTypeOK /\ ServeInv /\ [StoreNext]_storeVars => StoreTypeOK' /\ ServeInv'
  BY StoreTypeInductive, ServeInvInductive
<1>3. ServeInv => ServesOpenDir
  BY DEF ServeInv, ServesOpenDir
<1> QED
  BY <1>1, <1>2, <1>3, PTL DEF StoreSpec

\* The type invariant holds whatever fails.
THEOREM StoreTypes ==
    StoreSpec => []StoreTypeOK
<1>1. StoreInit => StoreTypeOK
  BY StoreInvInitial
<1> QED
  BY <1>1, StoreTypeInductive, PTL DEF StoreSpec

\* As long as no directory sync fails, no write goes to a directory that the
\* next start removes (recoverSnapShot, replaceCurrentDBFile).
THEOREM StoreNamesCurrentDir ==
    ASSUME OrderlyFaults
    PROVE  StoreSpec => []RunningNamesCurrentDir
BY StoreSafety, PTL

-----------------------------------------------------------------------------
\* The initial states of the store are initial states of AtomicStore ...
LEMMA AtomicInitial ==
    StoreInit => Atomic!AtomicInit
BY NamesAssumption DEF StoreInit, Atomic!AtomicInit

\* ... and every step of the store is a step of AtomicStore or a stutter: the
\* restore commits when pebble.running is synced, or when the process ends
\* between the rename and the sync.
LEMMA AtomicStep ==
    ASSUME OrderlyFaults, StoreTypeOK, StoreInv, [StoreNext]_storeVars
    PROVE  [Atomic!AtomicNext]_(Atomic!atomicVars)
<1> USE NamesAssumption DEF OrderlyFaults, StoreTypeOK, ControlStates, StoreInv, DiskInv, BootInv,
        RestoreInv, fileVars, dirVars, callVars, handleVars
<1> DEFINE Goal == [Atomic!AtomicNext]_(Atomic!atomicVars)
<1>1. CASE BootNew
  BY <1>1 DEF BootNew, Down, FreshDirs, Atomic!atomicVars
<1>2. CASE BootExisting
  BY <1>2 DEF BootExisting, Down, Atomic!atomicVars
<1>3. CASE CleanupDone
  BY <1>3 DEF CleanupDone, Atomic!atomicVars
<1>4. CASE StatFound
  BY <1>4 DEF StatFound, Atomic!atomicVars
<1>5. CASE StatMissing
  BY <1>5 DEF StatMissing, Atomic!atomicVars
<1>6. CASE OpenPebbleDB
  BY <1>6 DEF OpenPebbleDB, CreatePebble, Atomic!atomicVars, Atomic!AtomicNext, Atomic!Start
<1>7. CASE BootFailed
  BY <1>7 DEF BootFailed, Atomic!atomicVars
<1>8. CASE SaveCreated
  BY <1>8 DEF SaveCreated, Atomic!atomicVars
<1>9. CASE SaveWritten
  BY <1>9 DEF SaveWritten, SyncDir, Atomic!atomicVars
<1>10. CASE SaveFailed
  BY <1>10 DEF SaveFailed, SyncDir, Abort, RemoveAll, RemovalFailed, Atomic!atomicVars, Atomic!AtomicNext, Atomic!AbortRestore
<1>11. CASE Rename
  BY <1>11 DEF Rename, Atomic!atomicVars
<1>12. CASE RenameFailed
  BY <1>12 DEF RenameFailed, Abort, RemoveAll, RemovalFailed, Atomic!atomicVars, Atomic!AtomicNext, Atomic!AbortRestore
<1>13. CASE SyncRunning
  BY <1>13 DEF SyncRunning, SyncDir, Atomic!atomicVars, Atomic!AtomicNext, Atomic!CommitRestore
<1>14. CASE SyncRunningFailed
  BY <1>14 DEF SyncRunningFailed, Abort, RemoveAll, RemovalFailed, Atomic!atomicVars
<1>15. CASE RestoreNotOpened
  BY <1>15 DEF RestoreNotOpened, FreshDirs, Atomic!atomicVars
<1>16. CASE RestoreFilled
  BY <1>16 DEF RestoreFilled, Atomic!atomicVars
<1>17. CASE RestoreRejected
  BY <1>17 DEF RestoreRejected, Abort, RemoveAll, RemovalFailed, Atomic!atomicVars, Atomic!AtomicNext, Atomic!AbortRestore
<1>18. CASE RestoreLossy
  BY <1>18 DEF RestoreLossy, Atomic!atomicVars
<1>19. CASE RestoreSwapped
  BY <1>19 DEF RestoreSwapped, Atomic!atomicVars
<1>20. CASE RestoreClosedOld
  BY <1>20 DEF RestoreClosedOld, Atomic!atomicVars
<1>21. CASE RestoreRemovedOld
  BY <1>21 DEF RestoreRemovedOld, RemoveAll, Atomic!atomicVars
<1>22. CASE RestoreFailedLate
  BY <1>22 DEF RestoreFailedLate, RemovalFailed, Atomic!atomicVars
<1>23. CASE RestoreDone
  BY <1>23 DEF RestoreDone, SyncDir, Atomic!atomicVars
<1>24. CASE Close
  BY <1>24 DEF Close, ProcessEnds, Atomic!atomicVars, Atomic!AtomicNext, Atomic!Stop
<1>25. CASE Crash
  BY <1>25 DEF Crash, ProcessEnds, SyncDir, Down, Atomic!atomicVars, Atomic!AtomicNext, Atomic!Stop
<1>26. CASE PowerFailure
  BY <1>26 DEF PowerFailure, ProcessEnds, Atomic!atomicVars, Atomic!AtomicNext, Atomic!Stop
<1>27. ASSUME NEW d \in Dirs, CleanupDir(d) PROVE Goal
  BY <1>27 DEF CleanupDir, RemoveAll, Atomic!atomicVars
<1>28. ASSUME NEW v \in Values, Apply(v) PROVE Goal
  BY <1>28 DEF Apply, Atomic!AtomicNext, Atomic!Write, Atomic!atomicVars
<1>29. ASSUME NEW v \in Values, RestoreOpened(v) PROVE Goal
  BY <1>29 DEF RestoreOpened, CreatePebble, FreshDirs, Atomic!AtomicNext,
              Atomic!BeginRestore, Atomic!atomicVars
<1>30. CASE UNCHANGED storeVars
  BY <1>30 DEF storeVars, Atomic!atomicVars
<1> QED
  BY <1>1, <1>2, <1>3, <1>4, <1>5, <1>6, <1>7, <1>8, <1>9, <1>10, <1>11,
     <1>12, <1>13, <1>14, <1>15, <1>16, <1>17, <1>18, <1>19, <1>20, <1>21,
     <1>22, <1>23, <1>24, <1>25, <1>26, <1>27, <1>28, <1>29, <1>30 DEF
     StoreNext

\* The store is atomic and survives crashes and power failures: Store
\* implements AtomicStore.
THEOREM StoreRefinesAtomic ==
    ASSUME OrderlyFaults
    PROVE  StoreSpec => StoreIsAtomic
<1> DEFINE I == StoreTypeOK /\ StoreInv
<1>1. StoreInit => I /\ Atomic!AtomicInit
  BY StoreInvInitial, AtomicInitial
<1>2. I /\ [StoreNext]_storeVars => I'
  BY StoreTypeInductive, StoreInvInductive
<1>3. I /\ [StoreNext]_storeVars => [Atomic!AtomicNext]_(Atomic!atomicVars)
  BY AtomicStep
<1> HIDE DEF I
<1> QED
  BY <1>1, <1>2, <1>3, PTL DEF StoreSpec, StoreIsAtomic, Atomic!AtomicSpec

=============================================================================
