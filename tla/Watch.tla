------------------------------- MODULE Watch -------------------------------
(***************************************************************************)
(* The indexes a node hands out and the watches that wait on them:         *)
(* raftServer.Query (engine/kv.go), BlockingQuery and Watch (service/),    *)
(* and the abandonment of the store by StateMachine.Restore (fsm/fsm.go).  *)
(*                                                                         *)
(* One key is watched and every entry of the log writes it: the value of   *)
(* the key is the index of the entry that wrote it.  raft is external: its *)
(* main goroutine hands committed entries to the FSM goroutine first and   *)
(* advances AppliedIndex() afterwards, so that neither is ahead for good.  *)
(***************************************************************************)
EXTENDS Naturals

CONSTANTS
    Watchers,  \* the Watch streams open on the node
    Readers,   \* the linearizable Gets in progress
    MaxIndex   \* bound on the length of the log

ASSUME MaxIndexAssumption == MaxIndex \in Nat

VARIABLES
    main,        \* raft's main goroutine: "idle", or "handing" entries over
    dispatched,  \* the last entry handed to the FSM goroutine
    lastApplied, \* raft.AppliedIndex()
    fsmPc,       \* the FSM goroutine: idle, or in one of the steps of Restore
    target,      \* the index of the snapshot being restored
    finished,    \* the last entry or snapshot whose Apply or Restore has succeeded
    value,       \* the value in the store
    abandonCh,   \* which channel is in StateMachine.abandonCh
    closed,      \* the channels below this one are closed
    wpc,         \* control state of each Watch
    minIndex,    \* currentMinIndex of the Watch
    wval,        \* value in BlockingQuery
    windex,      \* currentIndex in BlockingQuery
    wch,         \* the channel the select waits on
    abandoned,   \* result.Abandoned
    reported,    \* the value last sent to the client
    owed,        \* history: the state was replaced while BlockingQuery waited
    rpc,         \* control state of each Get
    rindex,      \* ReadAtIndex of the Get
    floor        \* history: what this node had finished when Get was called

raftVars == <<main, dispatched, lastApplied>>
fsmVars == <<fsmPc, target, finished, value, abandonCh, closed>>
watchVars == <<wpc, minIndex, wval, windex, wch, abandoned, reported, owed>>
readVars == <<rpc, rindex, floor>>
vars == <<raftVars, fsmVars, watchVars, readVars>>

Indexes == 0 .. MaxIndex

\* The one type invariant of this module.
TypeOK ==
    /\ main \in {"idle", "handing", "installing"}
    /\ dispatched \in Indexes /\ lastApplied \in Indexes
    /\ fsmPc \in {"idle", "restore", "replaceCh", "closeCh"}
    /\ target \in Indexes /\ finished \in Indexes
    /\ value \in Indexes /\ abandonCh \in Nat /\ closed \in Nat
    /\ wpc \in [Watchers -> {"query", "index", "select", "tick", "tickIndex", "send", "end"}]
    /\ minIndex \in [Watchers -> 0 .. MaxIndex + 1]
    /\ wval \in [Watchers -> Indexes] /\ windex \in [Watchers -> Indexes]
    /\ wch \in [Watchers -> Nat]
    /\ abandoned \in [Watchers -> BOOLEAN]
    /\ reported \in [Watchers -> Indexes]
    /\ owed \in [Watchers -> BOOLEAN]
    /\ rpc \in [Readers -> {"idle", "verify", "read", "returned"}]
    /\ rindex \in [Readers -> Indexes] /\ floor \in [Readers -> Indexes]

Init ==
    /\ main = "idle" /\ dispatched = 0 /\ lastApplied = 0
    /\ fsmPc = "idle" /\ target = 0 /\ finished = 0
    /\ value = 0 /\ abandonCh = 0 /\ closed = 0
    /\ wpc = [w \in Watchers |-> "query"]
    /\ minIndex \in [Watchers -> 0 .. 1]
    /\ wval = [w \in Watchers |-> 0] /\ windex = [w \in Watchers |-> 0]
    /\ wch = [w \in Watchers |-> 0]
    /\ abandoned = [w \in Watchers |-> FALSE]
    /\ reported = [w \in Watchers |-> 0]
    /\ owed = [w \in Watchers |-> FALSE]
    /\ rpc = [r \in Readers |-> "idle"]
    /\ rindex = [r \in Readers |-> 0] /\ floor = [r \in Readers |-> 0]

-----------------------------------------------------------------------------
(* raft, external *)

\* The commit index has advanced: hand the new entries to the FSM ...
HandOver ==
    /\ main = "idle"
    /\ dispatched < MaxIndex
    /\ dispatched' \in dispatched + 1 .. MaxIndex
    /\ main' = "handing"
    /\ UNCHANGED <<lastApplied, fsmVars, watchVars, readVars>>

\* ... or, on a follower too far behind, the leader's snapshot ...
InstallSnapshot ==
    /\ main = "idle"
    /\ fsmPc = "idle" /\ finished = dispatched
    /\ dispatched < MaxIndex
    /\ target' \in dispatched + 1 .. MaxIndex
    /\ main' = "installing"
    /\ fsmPc' = "restore"
    /\ UNCHANGED <<dispatched, lastApplied, finished, value, abandonCh, closed, watchVars, readVars>>

\* ... and then advance AppliedIndex(); a snapshot is waited for, and one that
\* could not be restored does not count.
SetLastApplied ==
    /\ main \in {"handing", "installing"}
    /\ main = "installing" => fsmPc = "idle"
    /\ lastApplied' = dispatched
    /\ main' = "idle"
    /\ UNCHANGED <<dispatched, fsmVars, watchVars, readVars>>

-----------------------------------------------------------------------------
(* The FSM goroutine *)

\* StateMachine.Apply, and the answer to the client of the entry.
FSMApply ==
    /\ fsmPc = "idle"
    /\ main # "installing"
    /\ finished < dispatched
    /\ finished' = finished + 1
    /\ value' = finished + 1
    /\ UNCHANGED <<raftVars, fsmPc, target, abandonCh, closed, watchVars, readVars>>

Waiting(w) == wpc[w] \in {"select", "tick", "tickIndex"}

\* StateMachine.Restore: recoverSnapShot swaps the store ...
RestoreSwap ==
    /\ fsmPc = "restore"
    /\ value' = target
    /\ fsmPc' = "replaceCh"
    /\ owed' = [w \in Watchers |-> owed[w] \/ Waiting(w)]
    /\ UNCHANGED <<raftVars, target, finished, abandonCh, closed, wpc, minIndex, wval, windex, wch,
                   abandoned, reported, readVars>>

\* ... or fails, before the swap or after it: Restore returns the error and
\* abandons nothing ...
RestoreFailed ==
    /\ fsmPc \in {"restore", "replaceCh"}
    /\ fsmPc' = "idle" /\ target' = 0
    /\ UNCHANGED <<raftVars, finished, value, abandonCh, closed, watchVars, readVars>>

\* ... and abandon makes a new channel ...
AbandonReplace ==
    /\ fsmPc = "replaceCh"
    /\ abandonCh' = abandonCh + 1
    /\ fsmPc' = "closeCh"
    /\ UNCHANGED <<raftVars, target, finished, value, closed, watchVars, readVars>>

\* ... before it closes the old one, and Restore has succeeded.
AbandonClose ==
    /\ fsmPc = "closeCh"
    /\ closed' = abandonCh
    /\ finished' = target /\ dispatched' = target
    /\ fsmPc' = "idle" /\ target' = 0
    /\ UNCHANGED <<main, lastApplied, value, abandonCh, watchVars, readVars>>

-----------------------------------------------------------------------------
(* Watch and BlockingQuery *)

Goto(w, from, to) ==
    /\ wpc[w] = from
    /\ wpc' = [wpc EXCEPT ![w] = to]

\* The two reads of Query: the value (ReadLocal) ...
QueryValue(w, from, to) ==
    /\ Goto(w, from, to)
    /\ wval' = [wval EXCEPT ![w] = value]
    /\ UNCHANGED <<raftVars, fsmVars, minIndex, windex, wch, abandoned, reported, owed, readVars>>

\* ... and then AppliedIndex(): return, or (re-)enter the select, which
\* evaluates AbandonCh() anew.
QueryIndex(w, from, immediate) ==
    /\ windex' = [windex EXCEPT ![w] = lastApplied]
    /\ IF immediate \/ lastApplied >= minIndex[w]
       THEN /\ Goto(w, from, "send")
            /\ UNCHANGED wch
       ELSE /\ Goto(w, from, "select")
            /\ wch' = [wch EXCEPT ![w] = abandonCh]
    /\ abandoned' = [abandoned EXCEPT ![w] = FALSE]
    /\ UNCHANGED <<raftVars, fsmVars, minIndex, wval, reported, owed, readVars>>

\* <-ticker.C
Tick(w) ==
    /\ Goto(w, "select", "tick")
    /\ UNCHANGED <<raftVars, fsmVars, minIndex, wval, windex, wch, abandoned, reported, owed, readVars>>

\* Mutant of Timeout: the select is entered again.
TimeoutIgnored(w) ==
    /\ Goto(w, "select", "select")
    /\ UNCHANGED <<raftVars, fsmVars, minIndex, wval, windex, wch, abandoned, reported, owed, readVars>>

\* <-timeoutCtx.Done(): return what the last query found.
Timeout(w) ==
    /\ Goto(w, "select", "send")
    /\ UNCHANGED <<raftVars, fsmVars, minIndex, wval, windex, wch, abandoned, reported, owed, readVars>>

\* <-AbandonCh()
Abandoned(w) ==
    /\ Goto(w, "select", "send")
    /\ wch[w] < closed
    /\ wval' = [wval EXCEPT ![w] = 0]
    /\ windex' = [windex EXCEPT ![w] = 0]
    /\ abandoned' = [abandoned EXCEPT ![w] = TRUE]
    /\ UNCHANGED <<raftVars, fsmVars, minIndex, wch, reported, owed, readVars>>

\* Mutant of Send: the next round waits for one entry too many.
SendSkipsIndex(w) ==
    /\ Goto(w, "send", "query")
    /\ reported' = [reported EXCEPT ![w] = wval[w]]
    /\ minIndex' = [minIndex EXCEPT ![w] = IF abandoned[w] THEN 0 ELSE windex[w] + 2]
    /\ owed' = [owed EXCEPT ![w] = FALSE]
    /\ UNCHANGED <<raftVars, fsmVars, wval, windex, wch, abandoned, readVars>>

\* stream.Send, and the index to wait for in the next round.
Send(w) ==
    /\ Goto(w, "send", "query")
    /\ reported' = [reported EXCEPT ![w] = wval[w]]
    /\ minIndex' = [minIndex EXCEPT ![w] = IF abandoned[w] THEN 0 ELSE windex[w] + 1]
    /\ owed' = [owed EXCEPT ![w] = FALSE]
    /\ UNCHANGED <<raftVars, fsmVars, wval, windex, wch, abandoned, readVars>>

\* The client is gone and the loop or Send finds ctx done, or the store is
\* closed and Query fails: Watch returns.
WatchEnds(w) ==
    /\ wpc[w] \in {"query", "tick", "send"}
    /\ wpc' = [wpc EXCEPT ![w] = "end"]
    /\ UNCHANGED <<raftVars, fsmVars, minIndex, wval, windex, wch, abandoned, reported, owed, readVars>>

-----------------------------------------------------------------------------
(* Get with linearizable = true *)

ReadCalled(r) ==
    /\ rpc[r] \in {"idle", "returned"}
    /\ rpc' = [rpc EXCEPT ![r] = "verify"]
    /\ floor' = [floor EXCEPT ![r] = finished]
    /\ UNCHANGED <<raftVars, fsmVars, watchVars, rindex>>

\* Mutant of ReadVerified: raft's main goroutine is not asked.
ReadUnverified(r) ==
    /\ rpc[r] = "verify"
    /\ rpc' = [rpc EXCEPT ![r] = "read"]
    /\ UNCHANGED <<raftVars, fsmVars, watchVars, rindex, floor>>

\* VerifyLeader is answered by raft's main goroutine.
ReadVerified(r) ==
    /\ rpc[r] = "verify"
    /\ main = "idle"
    /\ rpc' = [rpc EXCEPT ![r] = "read"]
    /\ UNCHANGED <<raftVars, fsmVars, watchVars, rindex, floor>>

ReadReturned(r) ==
    /\ rpc[r] = "read"
    /\ rpc' = [rpc EXCEPT ![r] = "returned"]
    /\ rindex' = [rindex EXCEPT ![r] = lastApplied]
    /\ UNCHANGED <<raftVars, fsmVars, watchVars, floor>>

-----------------------------------------------------------------------------
WatchStep(w) ==
    \/ QueryValue(w, "query", "index")
    \/ QueryIndex(w, "index", minIndex[w] = 0)
    \/ Tick(w)
    \/ QueryValue(w, "tick", "tickIndex")
    \/ QueryIndex(w, "tickIndex", FALSE)
    \/ Abandoned(w)
    \/ Send(w)

FSMStep ==
    \/ FSMApply
    \/ RestoreSwap
    \/ RestoreFailed
    \/ AbandonReplace
    \/ AbandonClose

Next ==
    \/ HandOver
    \/ InstallSnapshot
    \/ SetLastApplied
    \/ FSMStep
    \/ \E w \in Watchers : WatchStep(w) \/ Timeout(w) \/ WatchEnds(w)
    \/ \E r \in Readers : ReadCalled(r) \/ ReadVerified(r) \/ ReadReturned(r)

\* The goroutines run, and BlockingQuery's timer fires in the end although the
\* ticker always comes first: strong fairness.  New entries, snapshots and the
\* departure of a client are not assumed.
Fairness ==
    /\ WF_vars(SetLastApplied)
    /\ WF_vars(FSMStep)
    /\ \A w \in Watchers : WF_vars(WatchStep(w)) /\ SF_vars(Timeout(w))

Spec == Init /\ [][Next]_vars /\ Fairness

-----------------------------------------------------------------------------
(* Properties *)

\* "The index at which this value was read" (service.proto:66): the value
\* sent with current_index is the value at that index.
ValueMatchesIndex ==
    \A w \in Watchers : wpc[w] = "send" /\ ~abandoned[w] => wval[w] = windex[w]

\* "if a snapshot restore happens while a client is waiting, the client is
\* promptly notified" (blocking_query.go:29): a query that was waiting
\* when the state was replaced, and waits still when Restore is done, has the
\* closed channel among the cases of its select.
RestoreNotifiesWaiting ==
    \A w \in Watchers :
        fsmPc = "idle" /\ wpc[w] = "select" /\ owed[w] => wch[w] < closed

\* Whatever a watch has missed by then, a value that stays in the store is
\* reported in the end: a value read just before its index advances, a restore that
\* goes unnoticed, or one that failed after its swap and notifies nobody,
\* costs at most one timeout.
WatchReportsValue ==
    \A w \in Watchers, v \in Indexes :
        [](value = v) ~> (reported[w] = v \/ wpc[w] = "end")

\* ReadAtIndex of a linearizable Get (raftServer.Query) covers every write
\* that the FSM of the node it asks had finished when it was called, although
\* the FSM answers a write before AppliedIndex() counts it.  The writes that
\* another leader has acknowledged are not counted: LinearizableRead is about
\* those.
ReadIndexCoversWrites ==
    \A r \in Readers : rpc[r] = "returned" => rindex[r] >= floor[r]

=============================================================================
