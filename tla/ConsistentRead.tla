--------------------------- MODULE ConsistentRead ---------------------------
(***************************************************************************)
(* Client writes (raftServer.Apply) and linearizable reads                 *)
(* (raftServer.Query with consistent = true: ConsistentRead, then          *)
(* ReadLocal) on a cluster whose nodes run the machinery of Leadership.    *)
(*                                                                         *)
(* The replicated log is external and abstracted to the number of          *)
(* committed writes: write number i is identified with its place i in the  *)
(* log, and the store of a node with the number of writes it has applied.  *)
(* Barriers and no-ops take no place.                                      *)
(***************************************************************************)
EXTENDS Leadership

CONSTANTS
    Clients,    \* the requests in progress, one per client
    MaxWrites,  \* bound on the length of the log
    NoNode      \* where an idle client's request is

ASSUME NoNodeAssumption == NoNode \notin Nodes

VARIABLES
    committed,    \* committed writes
    applied,      \* writes applied by the FSM of each node
    barrierIndex, \* committed writes when the node's barrier was committed
    reach,        \* committed writes when the node, then leader, was outdated
    acked,        \* the latest write acknowledged to a client
    seen,         \* the latest write returned by a consistent read
    pc,           \* control state of each client's request
    at,           \* the node that serves the request
    index,        \* place of the client's write, or what its read returned
    floor,        \* acked when the read was invoked
    seenFloor,    \* seen when the read was invoked
    vouched       \* the monitor was idle when the read found the flag raised

logVars == <<committed, applied, barrierIndex, reach>>
requestVars == <<pc, at, index, floor, seenFloor, vouched>>
readVars == <<logVars, acked, seen, requestVars>>
vars == <<leadershipVars, readVars>>

Larger(a, b) == IF a >= b THEN a ELSE b

RequestStates ==
    {"idle", "proposed", "lost", "applying",
     "verify", "check", "poll", "read", "returned"}

\* The one type invariant of this module.
TypeOK ==
    /\ LeadershipTypeOK
    /\ committed \in Nat
    /\ applied \in [Nodes -> Nat]
    /\ barrierIndex \in [Nodes -> Nat]
    /\ reach \in [Nodes -> Nat]
    /\ acked \in Nat
    /\ seen \in Nat
    /\ pc \in [Clients -> RequestStates]
    /\ at \in [Clients -> Nodes \cup {NoNode}]
    /\ index \in [Clients -> Nat]
    /\ floor \in [Clients -> Nat]
    /\ seenFloor \in [Clients -> Nat]
    /\ vouched \in [Clients -> BOOLEAN]

Init ==
    /\ LeadershipInit
    /\ committed = 0
    /\ applied = [n \in Nodes |-> 0]
    /\ barrierIndex = [n \in Nodes |-> 0]
    /\ reach = [n \in Nodes |-> 0]
    /\ acked = 0
    /\ seen = 0
    /\ pc = [c \in Clients |-> "idle"]
    /\ at = [c \in Clients |-> NoNode]
    /\ index = [c \in Clients |-> 0]
    /\ floor = [c \in Clients |-> 0]
    /\ seenFloor = [c \in Clients |-> 0]
    /\ vouched = [c \in Clients |-> FALSE]

Step(c, from, to) ==
    /\ pc[c] = from
    /\ pc' = [pc EXCEPT ![c] = to]

\* The handler returns and forgets the request.
Return(c, from) ==
    /\ Step(c, from, "idle")
    /\ at' = [at EXCEPT ![c] = NoNode]
    /\ index' = [index EXCEPT ![c] = 0]
    /\ floor' = [floor EXCEPT ![c] = 0]
    /\ seenFloor' = [seenFloor EXCEPT ![c] = 0]
    /\ vouched' = [vouched EXCEPT ![c] = FALSE]

-----------------------------------------------------------------------------
(* The replicated log, and the steps of Leadership that touch it *)

\* An election outdates the current leader, which learns of no later commit
\* before it steps down.
ElectOver(n) ==
    /\ Elect(n)
    /\ reach' = [m \in Nodes |-> IF IsCurrentLeader(m) THEN committed ELSE reach[m]]
    /\ UNCHANGED <<committed, applied, barrierIndex, acked, seen, requestVars>>

\* The FSM goroutine of a node applies the next write known to be committed.
FSMApply(n) ==
    /\ role[n] # "shutdown"
    /\ applied[n] < committed
    /\ role[n] = "leader" /\ term[n] # curTerm => applied[n] < reach[n]
    /\ applied' = [applied EXCEPT ![n] = @ + 1]
    /\ UNCHANGED <<leadershipVars, committed, barrierIndex, reach, acked, seen, requestVars>>

\* The barrier takes its place behind every write committed so far ...
BarrierLogged(n) ==
    /\ BarrierCommitted(n)
    /\ barrierIndex' = [barrierIndex EXCEPT ![n] = committed]
    /\ UNCHANGED <<committed, applied, reach, acked, seen, requestVars>>

\* ... and is answered when the FSM has applied all of them.
BarrierReached(n) ==
    /\ BarrierApplied(n)
    /\ applied[n] >= barrierIndex[n]
    /\ UNCHANGED readVars

\* A crash ends the requests the node was serving.  The FSM restarts from a
\* snapshot, that is, from some prefix of what it had applied.
Crash(n) ==
    /\ Restart(n)
    /\ \E i \in 0 .. applied[n] : applied' = [applied EXCEPT ![n] = i]
    /\ pc' = [c \in Clients |->
                IF at[c] # n \/ pc[c] = "lost" THEN pc[c]
                ELSE IF pc[c] = "proposed" THEN "lost" ELSE "idle"]
    /\ barrierIndex' = [barrierIndex EXCEPT ![n] = 0]
    /\ UNCHANGED <<committed, reach, acked, seen, at, index, floor, seenFloor, vouched>>

-----------------------------------------------------------------------------
(* Apply *)

Propose(c, n) ==
    /\ Step(c, "idle", "proposed")
    /\ at' = [at EXCEPT ![c] = n]
    /\ UNCHANGED <<leadershipVars, logVars, acked, seen, index, floor, seenFloor, vouched>>

\* Raft commits the entry: only the leader of the current term can.
WriteCommitted(c) ==
    /\ Step(c, "proposed", "applying")
    /\ IsCurrentLeader(at[c]) /\ RaftRuns(at[c])
    /\ committed < MaxWrites
    /\ committed' = committed + 1
    /\ index' = [index EXCEPT ![c] = committed + 1]
    /\ UNCHANGED <<leadershipVars, applied, barrierIndex, reach, acked, seen, at, floor,
                   seenFloor, vouched>>

\* Apply returns ErrNotLeader: the entry never reached a log.
WriteRejected(c) ==
    /\ Return(c, "proposed")
    /\ role[at[c]] # "leader"
    /\ UNCHANGED <<leadershipVars, logVars, acked, seen>>

\* Mutant of WriteFailed: the request ends in a state of its own.
WriteFailedForGood(c) ==
    /\ "error" \in Faults
    /\ Step(c, "proposed", "failed")
    /\ role[at[c]] = "leader"
    /\ UNCHANGED <<leadershipVars, logVars, acked, seen, at, index, floor, seenFloor, vouched>>

\* Apply returns an error after the leader logged the entry (leadership
\* lost), which leaves the fate of the entry open ...
WriteFailed(c) ==
    /\ "error" \in Faults
    /\ Step(c, "proposed", "lost")
    /\ role[at[c]] = "leader"
    /\ UNCHANGED <<leadershipVars, logVars, acked, seen, at, index, floor, seenFloor, vouched>>

\* ... a later leader may hold the entry and commit it, or not.
LostWriteResolved(c) ==
    /\ Return(c, "lost")
    /\ \/ UNCHANGED committed
       \/ /\ \E n \in Nodes : IsCurrentLeader(n) /\ RaftRuns(n)
          /\ committed < MaxWrites
          /\ committed' = committed + 1
    /\ UNCHANGED <<leadershipVars, applied, barrierIndex, reach, acked, seen>>

\* The future of Apply is answered by the FSM goroutine of the node.
WriteAcked(c) ==
    /\ Return(c, "applying")
    /\ applied[at[c]] >= index[c]
    /\ acked' = Larger(acked, index[c])
    /\ UNCHANGED <<leadershipVars, logVars, seen>>

-----------------------------------------------------------------------------
(* Query with consistent = true *)

Query(c, n) ==
    /\ Step(c, "idle", "verify")
    /\ at' = [at EXCEPT ![c] = n]
    /\ floor' = [floor EXCEPT ![c] = acked]
    /\ seenFloor' = [seenFloor EXCEPT ![c] = seen]
    /\ UNCHANGED <<leadershipVars, logVars, acked, seen, index, vouched>>

\* Mutant of LeaderVerified: the node trusts its own view of its role.
LeaderAssumed(c) ==
    /\ Step(c, "verify", "check")
    /\ role[at[c]] = "leader"
    /\ UNCHANGED <<leadershipVars, logVars, acked, seen, at, index, floor, seenFloor, vouched>>

\* VerifyLeader: a quorum confirms the node's leadership.
LeaderVerified(c) ==
    /\ Step(c, "verify", "check")
    /\ IsCurrentLeader(at[c]) /\ RaftRuns(at[c])
    /\ UNCHANGED <<leadershipVars, logVars, acked, seen, at, index, floor, seenFloor, vouched>>

VerifyFailed(c) ==
    /\ Return(c, "verify")
    /\ UNCHANGED <<leadershipVars, logVars, acked, seen>>

MonitorIdle(n) == monitor[n] = "select" /\ notifyCh[n] = <<>>

\* isReadyForConsistentReads, first at once and then at every tick.
FlagUp(c, from) ==
    /\ Step(c, from, "read")
    /\ ready[at[c]]
    /\ vouched' = [vouched EXCEPT ![c] = MonitorIdle(at[c])]
    /\ UNCHANGED <<leadershipVars, logVars, acked, seen, at, index, floor, seenFloor>>

FlagDown(c) ==
    /\ Step(c, "check", "poll")
    /\ ~ready[at[c]]
    /\ UNCHANGED <<leadershipVars, logVars, acked, seen, at, index, floor, seenFloor, vouched>>

\* The deadline passes or shutdownCh is closed.
PollGivenUp(c) ==
    /\ Return(c, "poll")
    /\ UNCHANGED <<leadershipVars, logVars, acked, seen>>

\* The local store is read and the result returned.
ReadLocal(c) ==
    /\ Step(c, "read", "returned")
    /\ index' = [index EXCEPT ![c] = applied[at[c]]]
    /\ seen' = Larger(seen, applied[at[c]])
    /\ UNCHANGED <<leadershipVars, logVars, acked, at, floor, seenFloor, vouched>>

Received(c) ==
    /\ Return(c, "returned")
    /\ UNCHANGED <<leadershipVars, logVars, acked, seen>>

-----------------------------------------------------------------------------
Next ==
    \/ \E n \in Nodes :
        \/ FSMApply(n)
        \/ BarrierLogged(n)
        \/ BarrierReached(n)
        \/ Crash(n)
        \/ ElectOver(n)
        \/ LocalStep(n) /\ UNCHANGED readVars
        \/ \E c \in Clients : Propose(c, n) \/ Query(c, n)
    \/ \E c \in Clients :
        \/ WriteCommitted(c)
        \/ WriteRejected(c)
        \/ WriteFailed(c)
        \/ LostWriteResolved(c)
        \/ WriteAcked(c)
        \/ LeaderVerified(c)
        \/ VerifyFailed(c)
        \/ FlagUp(c, "check") \/ FlagUp(c, "poll")
        \/ FlagDown(c)
        \/ PollGivenUp(c)
        \/ ReadLocal(c)
        \/ Received(c)

Spec == Init /\ [][Next]_vars

-----------------------------------------------------------------------------
(* Properties *)

\* Query's promise ("ensure we do not perform a stale read"): a consistent
\* read returns every write acknowledged before it was invoked.  It does not
\* hold in general: see the README.
LinearizableRead ==
    \A c \in Clients : pc[c] = "returned" => index[c] >= floor[c]

\* The promise does hold for every read that found the flag raised while the
\* monitor was idle (waiting on an empty raftNotifyCh), whatever leaderships,
\* crashes and failed writes came before, and whatever happens after.
VouchedReadsAreFresh ==
    \A c \in Clients : pc[c] = "returned" /\ vouched[c] => index[c] >= floor[c]

\* "we've verified leadership and applied all committed entries" (kv.go:87): a
\* consistent read never goes back behind what an earlier one returned.
ReadsNeverGoBack ==
    \A c \in Clients : pc[c] = "returned" /\ vouched[c] => index[c] >= seenFloor[c]

=============================================================================
