------------------------------- MODULE Store -------------------------------
(***************************************************************************)
(* The store of one node on disk (fsm/store.go, fsm/utils.go): how a start *)
(* of the process finds the Pebble directory to open, and how the restore  *)
(* of a snapshot fills a new directory and switches to it, one system call *)
(* at a time, with crashes, power failures and errors between any two.     *)
(*                                                                         *)
(* A data directory is abstracted to the value its last write left in it.  *)
(* Pebble, the file system and raft are external.  Directory entries are   *)
(* volatile until the base directory is synced (xxxSynced); the contents   *)
(* of files are durable when written, as the code syncs them.              *)
(***************************************************************************)
EXTENDS FiniteSets

CONSTANTS
    Dirs,    \* the names getNewRandomDBDirName may draw
    NoDir,   \* no name: the file or the handle does not exist
    Torn,    \* the content of a file whose writing was cut short
    Values,  \* the states of the key-value store
    Empty,   \* the state of a new Pebble database
    Faults   \* what may go wrong: a subset of StoreFaultKinds

\* dirtyCrash: the process dies and its unsynced directory entries stay
\* unsynced; crash: the kernel has written them back before the restart.
StoreFaultKinds ==
    {"crash", "dirtyCrash", "power", "snapshot", "disk", "dir", "syncDir", "commit"}

ASSUME NamesAssumption ==
    /\ NoDir \notin Dirs /\ Torn \notin Dirs /\ NoDir # Torn
    /\ Empty \in Values
    /\ Faults \subseteq StoreFaultKinds

VARIABLES
    running,        \* what pebble.running names
    runningSynced,  \* what it names on the platter
    updating,       \* what pebble.updating names
    exists,         \* the subdirectories of the base directory
    existsSynced,   \* those with an entry on the platter
    whole,          \* those that hold a complete state
    content,        \* the state each one holds
    leftBehind,     \* history: those that a restore of this process could not
                    \* open, or not remove
    pc,             \* control state of newStore, then of the FSM goroutine
    restoring,      \* recoverSnapShot is in progress
    newDir,         \* dbdir of newStore or recoverSnapShot
    oldDir,         \* oldDirName of recoverSnapShot
    target,         \* the state in the snapshot being restored
    db,             \* the directory of the handle in store.db
    open,           \* the directories with an open Pebble handle
    opened          \* history: the store has been opened once

fileVars == <<running, runningSynced, updating>>
dirVars == <<exists, existsSynced, whole, content, leftBehind>>
callVars == <<restoring, newDir, oldDir, target>>
handleVars == <<db, open, opened>>
storeVars == <<fileVars, dirVars, pc, callVars, handleVars>>

ControlStates ==
    {"down", "failed", "missing", "cleanup", "stat", "save", "saveSync", "rename",
     "syncRunning", "open", "idle", "fill", "swap", "closeOld", "removeOld", "syncParent"}

\* The one type invariant of this module.
StoreTypeOK ==
    /\ running \in Dirs \cup {NoDir, Torn}
    /\ runningSynced \in Dirs \cup {NoDir, Torn}
    /\ updating \in Dirs \cup {NoDir, Torn}
    /\ exists \subseteq Dirs
    /\ existsSynced \subseteq Dirs
    /\ whole \subseteq Dirs
    /\ content \in [Dirs -> Values]
    /\ leftBehind \subseteq Dirs
    /\ pc \in ControlStates
    /\ restoring \in BOOLEAN
    /\ newDir \in Dirs \cup {NoDir}
    /\ newDir = NoDir => pc \in {"down", "failed", "missing", "cleanup", "stat", "idle"}
    /\ oldDir \in Dirs \cup {NoDir}
    /\ oldDir = NoDir
           => ~restoring /\ pc \notin {"fill", "swap", "closeOld", "removeOld", "syncParent"}
    /\ target \in Values
    /\ db \in Dirs \cup {NoDir}
    /\ open \subseteq Dirs
    /\ opened \in BOOLEAN

StoreInit ==
    /\ running = NoDir /\ runningSynced = NoDir /\ updating = NoDir
    /\ exists = {} /\ existsSynced = {} /\ whole = {} /\ leftBehind = {}
    /\ content = [d \in Dirs |-> Empty]
    /\ pc = "down"
    /\ restoring = FALSE /\ newDir = NoDir /\ oldDir = NoDir /\ target = Empty
    /\ db = NoDir /\ open = {} /\ opened = FALSE

-----------------------------------------------------------------------------
(* The file system *)

\* A random name with a timestamp in it is new.
FreshDirs == Dirs \ (exists \cup existsSynced \cup {running, runningSynced, updating})

\* syncDir(baseDir).
SyncDir ==
    /\ runningSynced' = running
    /\ existsSynced' = exists

\* os.RemoveAll of some of the directories.
RemoveAll(S) ==
    /\ exists' = exists \ S
    /\ whole' = whole \ S
    /\ UNCHANGED content

\* os.RemoveAll fails, perhaps after it has removed a part.
RemovalFailed(d) ==
    /\ "dir" \in Faults
    /\ whole' = whole \ {d}
    /\ leftBehind' = leftBehind \cup {d}
    /\ UNCHANGED <<exists, content>>

\* What OpenPebbleDB does on disk: a missing directory is created, empty, and
\* its parent synced; one that exists is opened as it is.
CreatePebble(d) ==
    /\ exists' = exists \cup {d}
    /\ existsSynced' = existsSynced \cup {d}
    /\ content' = IF d \in exists THEN content ELSE [content EXCEPT ![d] = Empty]

-----------------------------------------------------------------------------
(* newStore, getPebbleDBDir *)

Down == pc \in {"down", "failed", "missing"}

\* Mutant of BootNew: no directory is chosen.
BootNewUnnamed ==
    /\ Down
    /\ running = NoDir
    /\ pc' = "save"
    /\ UNCHANGED <<fileVars, dirVars, callVars, handleVars>>

\* No pebble.running: choose a directory and record it before it is created.
BootNew ==
    /\ Down
    /\ running = NoDir
    /\ newDir' \in FreshDirs
    /\ pc' = "save"
    /\ UNCHANGED <<fileVars, dirVars, restoring, oldDir, target, handleVars>>

\* cleanupNodeDataDir: drop pebble.updating, then read pebble.running ...
BootExisting ==
    /\ Down
    /\ running # NoDir
    /\ updating' = NoDir
    /\ pc' = IF running = Torn THEN "failed" ELSE "cleanup"
    /\ UNCHANGED <<running, runningSynced, dirVars, callVars, handleVars>>

\* ... and remove every other directory.
CleanupDir(d) ==
    /\ pc = "cleanup"
    /\ d \in exists \ {running}
    /\ RemoveAll({d})
    /\ UNCHANGED <<fileVars, existsSynced, leftBehind, pc, callVars, handleVars>>

CleanupDone ==
    /\ pc = "cleanup"
    /\ exists \subseteq {running}
    /\ pc' = "stat"
    /\ UNCHANGED <<fileVars, dirVars, callVars, handleVars>>

StatFound ==
    /\ pc = "stat"
    /\ running \in exists
    /\ newDir' = running
    /\ pc' = "open"
    /\ UNCHANGED <<fileVars, dirVars, restoring, oldDir, target, handleVars>>

\* "db dir unexpectedly deleted"
StatMissing ==
    /\ pc = "stat"
    /\ running \notin exists
    /\ pc' = "missing"
    /\ UNCHANGED <<fileVars, dirVars, callVars, handleVars>>

OpenPebbleDB ==
    /\ pc = "open"
    /\ CreatePebble(newDir)
    /\ whole' = IF newDir \in exists THEN whole ELSE whole \cup {newDir}
    /\ db' = newDir
    /\ open' = {newDir}
    /\ opened' = TRUE
    /\ pc' = "idle"
    /\ UNCHANGED <<fileVars, leftBehind, callVars>>

\* A directory cannot be removed, or the database not be opened.
BootFailed ==
    /\ \/ "dir" \in Faults /\ pc = "cleanup" /\ exists \ {running} # {}
       \/ "disk" \in Faults /\ pc = "open"
    /\ pc' = "failed"
    /\ UNCHANGED <<fileVars, dirVars, callVars, handleVars>>

-----------------------------------------------------------------------------
(* saveCurrentDBDirName, replaceCurrentDBFile *)

\* Mutant of Abort: the restore returns without cleanupNewDB.
AbortNoCleanup ==
    /\ pc' = IF restoring THEN "idle" ELSE "failed"
    /\ restoring' = FALSE
    /\ UNCHANGED <<exists, whole, content, leftBehind, newDir, oldDir, target, handleVars>>

\* The caller's answer to an error: recoverSnapShot calls cleanupNewDB, whose
\* own errors are dropped, and keeps serving the old handle; newStore gives up.
Abort ==
    /\ pc' = IF restoring THEN "idle" ELSE "failed"
    /\ restoring' = FALSE
    /\ IF restoring
       THEN /\ open' = open \ {newDir}
            /\ \/ RemoveAll({newDir}) /\ UNCHANGED leftBehind
               \/ RemovalFailed(newDir)
       ELSE UNCHANGED <<exists, whole, content, leftBehind, open>>
    /\ UNCHANGED <<newDir, oldDir, target, db, opened>>

SaveCreated ==
    /\ pc = "save"
    /\ updating' = Torn
    /\ pc' = "saveSync"
    /\ UNCHANGED <<running, runningSynced, dirVars, callVars, handleVars>>

SaveWritten ==
    /\ pc = "saveSync"
    /\ updating' = newDir
    /\ SyncDir
    /\ pc' = "rename"
    /\ UNCHANGED <<running, exists, whole, content, leftBehind, callVars, handleVars>>

\* The file cannot be created, or not be written; once it is created the
\* deferred syncDir runs in any case.
SaveFailed ==
    /\ "disk" \in Faults
    /\ \/ pc = "save" /\ UNCHANGED <<runningSynced, existsSynced>>
       \/ pc = "saveSync" /\ SyncDir
    /\ Abort
    /\ UNCHANGED <<running, updating>>

Rename ==
    /\ pc = "rename"
    /\ running' = updating
    /\ updating' = NoDir
    /\ pc' = "syncRunning"
    /\ UNCHANGED <<runningSynced, dirVars, callVars, handleVars>>

RenameFailed ==
    /\ "disk" \in Faults
    /\ pc = "rename"
    /\ Abort
    /\ UNCHANGED <<fileVars, existsSynced>>

\* Mutant of SyncRunning: replaceCurrentDBFile returns after the rename.
RunningNotSynced ==
    /\ pc = "syncRunning"
    /\ pc' = IF restoring THEN "swap" ELSE "open"
    /\ UNCHANGED <<fileVars, dirVars, callVars, handleVars>>

SyncRunning ==
    /\ pc = "syncRunning"
    /\ SyncDir
    /\ pc' = IF restoring THEN "swap" ELSE "open"
    /\ UNCHANGED <<running, updating, exists, whole, content, leftBehind, callVars, handleVars>>

\* The rename has happened, but its caller gets an error.
SyncRunningFailed ==
    /\ "syncDir" \in Faults
    /\ pc = "syncRunning"
    /\ Abort
    /\ UNCHANGED <<fileVars, existsSynced>>

-----------------------------------------------------------------------------
(* The FSM goroutine: Apply (insert) and Restore (recoverSnapShot) *)

Apply(v) ==
    /\ pc = "idle"
    /\ content' = [content EXCEPT ![db] = v]
    /\ UNCHANGED <<fileVars, exists, existsSynced, whole, leftBehind, pc, callVars, handleVars>>

\* The header is valid and pebble.running readable: open a new directory.
RestoreOpened(v) ==
    /\ pc = "idle"
    /\ running \in Dirs
    /\ restoring' = TRUE
    /\ newDir' \in FreshDirs
    /\ oldDir' = running
    /\ target' = v
    /\ CreatePebble(newDir')
    /\ open' = open \cup {newDir'}
    /\ pc' = "fill"
    /\ UNCHANGED <<fileVars, whole, leftBehind, db, opened>>

\* OpenPebbleDB fails after it has created the directory: recoverSnapShot
\* returns before cleanupNewDB is there to be called.
RestoreNotOpened ==
    /\ "disk" \in Faults
    /\ pc = "idle"
    /\ running \in Dirs
    /\ \E d \in FreshDirs :
        /\ exists' = exists \cup {d}
        /\ leftBehind' = leftBehind \cup {d}
    /\ UNCHANGED <<fileVars, existsSynced, whole, content, pc, callVars, handleVars>>

\* Mutant of RestoreFilled: the last batch is not committed.
RestoreFilledPartly ==
    /\ pc = "fill"
    /\ whole' = whole \cup {newDir}
    /\ pc' = "save"
    /\ UNCHANGED <<fileVars, exists, existsSynced, content, leftBehind, callVars, handleVars>>

\* Every batch is committed, and the memtable flushed.
RestoreFilled ==
    /\ pc = "fill"
    /\ content' = [content EXCEPT ![newDir] = target]
    /\ whole' = whole \cup {newDir}
    /\ pc' = "save"
    /\ UNCHANGED <<fileVars, exists, existsSynced, leftBehind, callVars, handleVars>>

\* The stream cannot be read, or its checksum does not match.
RestoreRejected ==
    /\ "snapshot" \in Faults
    /\ pc = "fill"
    /\ Abort
    /\ UNCHANGED <<fileVars, existsSynced>>

\* A batch or the flush fails; Commit and recoverSnapShot ignore the error.
RestoreLossy ==
    /\ "commit" \in Faults
    /\ pc = "fill"
    /\ pc' = "save"
    /\ UNCHANGED <<fileVars, dirVars, callVars, handleVars>>

\* Mutant of RestoreSwapped: the old handle stays in store.db.
RestoreNotSwapped ==
    /\ pc = "swap"
    /\ pc' = "closeOld"
    /\ UNCHANGED <<fileVars, dirVars, callVars, handleVars>>

RestoreSwapped ==
    /\ pc = "swap"
    /\ db' = newDir
    /\ pc' = "closeOld"
    /\ UNCHANGED <<fileVars, dirVars, callVars, open, opened>>

\* Mutant of RestoreClosedOld: the new handle is closed.
RestoreClosedNew ==
    /\ pc = "closeOld"
    /\ open' = open \ {newDir}
    /\ pc' = "removeOld"
    /\ UNCHANGED <<fileVars, dirVars, callVars, db, opened>>

RestoreClosedOld ==
    /\ pc = "closeOld"
    /\ open' = {newDir}
    /\ pc' = "removeOld"
    /\ UNCHANGED <<fileVars, dirVars, callVars, db, opened>>

RestoreRemovedOld ==
    /\ pc = "removeOld"
    /\ RemoveAll({oldDir})
    /\ pc' = "syncParent"
    /\ UNCHANGED <<fileVars, existsSynced, leftBehind, callVars, handleVars>>

\* The two errors after the switch: Restore returns them with the new
\* directory in use.
RestoreFailedLate ==
    /\ \/ pc = "removeOld" /\ RemovalFailed(oldDir) /\ UNCHANGED existsSynced
       \/ "syncDir" \in Faults /\ pc = "syncParent" /\ UNCHANGED dirVars
    /\ restoring' = FALSE
    /\ pc' = "idle"
    /\ UNCHANGED <<fileVars, newDir, oldDir, target, handleVars>>

RestoreDone ==
    /\ pc = "syncParent"
    /\ SyncDir
    /\ restoring' = FALSE
    /\ pc' = "idle"
    /\ UNCHANGED <<running, updating, exists, whole, content, leftBehind, newDir, oldDir, target, handleVars>>

-----------------------------------------------------------------------------
(* The end of the process *)

ProcessEnds ==
    /\ pc' = "down"
    /\ restoring' = FALSE
    /\ newDir' = NoDir /\ oldDir' = NoDir /\ target' = Empty
    /\ db' = NoDir /\ open' = {}
    /\ leftBehind' = {}
    /\ UNCHANGED opened

\* store.close flushes and closes the handle.
Close ==
    /\ pc = "idle"
    /\ ProcessEnds
    /\ UNCHANGED <<fileVars, exists, existsSynced, whole, content>>

Crash ==
    /\ ~Down
    /\ ProcessEnds
    /\ \/ "crash" \in Faults /\ SyncDir
       \/ "dirtyCrash" \in Faults /\ UNCHANGED <<runningSynced, existsSynced>>
    /\ UNCHANGED <<running, updating, exists, whole, content>>

\* Every entry that was not synced may be old or new.
PowerFailure ==
    /\ "power" \in Faults
    /\ ProcessEnds
    /\ running' \in {running, runningSynced}
    /\ runningSynced' = running'
    /\ updating' \in {NoDir, Torn, updating}
    /\ \E lost \in SUBSET (exists \ existsSynced), back \in SUBSET (existsSynced \ exists) :
        exists' = (exists \ lost) \cup back
    /\ existsSynced' = exists'
    /\ whole' = whole \cap exists'
    /\ UNCHANGED content

-----------------------------------------------------------------------------
StoreNext ==
    \/ BootNew
    \/ BootExisting
    \/ \E d \in Dirs : CleanupDir(d)
    \/ CleanupDone
    \/ StatFound
    \/ StatMissing
    \/ OpenPebbleDB
    \/ BootFailed
    \/ SaveCreated
    \/ SaveWritten
    \/ SaveFailed
    \/ Rename
    \/ RenameFailed
    \/ SyncRunning
    \/ SyncRunningFailed
    \/ \E v \in Values : Apply(v) \/ RestoreOpened(v)
    \/ RestoreNotOpened
    \/ RestoreFilled
    \/ RestoreRejected
    \/ RestoreLossy
    \/ RestoreSwapped
    \/ RestoreClosedOld
    \/ RestoreRemovedOld
    \/ RestoreFailedLate
    \/ RestoreDone
    \/ Close
    \/ Crash
    \/ PowerFailure

StoreSpec == StoreInit /\ [][StoreNext]_storeVars

-----------------------------------------------------------------------------
(* Properties *)

\* Once the store has been opened, whatever pebble.running names, now or
\* after a power failure, is a directory that exists and holds a complete
\* state: recoverSnapShot switches at a point where both are true.
RunningIsWhole ==
    opened => /\ running \in exists \cap whole
              /\ runningSynced \in exists \cap existsSynced \cap whole

\* "from currentDBFilename get pebbledb current directory" (store.go:286):
\* pebble.running names the directory whose handle serves the node, so that
\* no write goes to a directory that the next start removes.
RunningNamesCurrentDir == pc = "idle" => running = db

\* An idle node has one directory and those that one of its own restores could
\* not open (store.go:293, which returns without cleanupNewDB) or not remove:
\* no other exit of recoverSnapShot leaves one, and none outlives the process,
\* as the next start clears them away or does not come up.
NoLeakedDirs == pc = "idle" => exists \subseteq {running} \cup leftBehind

\* The directory in use is there and its handle open, whatever fails.
ServesOpenDir == pc = "idle" => db \in exists \cap open

\* "db dir unexpectedly deleted" (utils.go:96): only someone else's deletion
\* makes a start fail that way.
DirNeverMissing == pc # "missing"

\* What is on disk is one value that survives the process and that a snapshot
\* replaces at one instant: the last sync of pebble.running.  (The readers of
\* the running process follow a few steps later, when the handle is swapped.)
Atomic == INSTANCE AtomicStore WITH
    state <- IF runningSynced \in whole THEN content[runningSynced] ELSE Empty,
    up <- db # NoDir,
    pending <- IF restoring /\ pc \notin {"swap", "closeOld", "removeOld", "syncParent"}
               THEN {target} ELSE {}

StoreIsAtomic == Atomic!AtomicSpec

=============================================================================
