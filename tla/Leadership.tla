----------------------------- MODULE Leadership -----------------------------
(***************************************************************************)
(* The leadership machinery of one raftServer per node (engine/raft.go):   *)
(* the goroutine monitorLeadership, which drains raftNotifyCh; the         *)
(* goroutine leaderLoop it starts and joins; the goroutine that turns the  *)
(* closing of stopCh into the cancellation of the loop's context; and the  *)
(* flag readyForConsistentReads they maintain for linearizable reads.      *)
(*                                                                         *)
(* The hashicorp/raft library is external.  What is kept of it is what     *)
(* this code sees: elections (at most one leader per term, a newer term    *)
(* outdates the older leaders before they notice), the notifications it    *)
(* pushes, and the fate of a Barrier future.                               *)
(***************************************************************************)
EXTENDS Naturals, Sequences

CONSTANTS
    Nodes,      \* the servers of the cluster
    MaxTerm,    \* bound on the number of elections
    NotifyCap,  \* capacity of raftNotifyCh (100 in newRaft)
    Faults      \* what may go wrong: a subset of FaultKinds

FaultKinds == {"crash", "shutdown", "error"}

ASSUME NotifyCapAssumption == NotifyCap \in Nat \ {0}

ASSUME FaultsAssumption == Faults \subseteq FaultKinds

VARIABLES
    curTerm,          \* the latest term that elected a leader
    role,             \* raft.State() of each node
    term,             \* the term each node was last elected in
    notifyCh,         \* raftNotifyCh: TRUE when elected, FALSE when deposed
    shutdown,         \* shutdownCh is closed
    monitor,          \* control state of monitorLeadership
    leaderLoopCancel, \* leaderLoopCancel # nil
    stopCh,           \* the running loop's stopCh is closed
    ctxDone,          \* the running loop's stopCtx is cancelled
    loop,             \* control state of leaderLoop, "none" when not running
    barrierTerm,      \* the term in which the loop's barrier entered the log
    ready             \* readyForConsistentReads = 1

raftVars == <<curTerm, role, term>>
monitorVars == <<monitor, leaderLoopCancel, stopCh>>
loopVars == <<loop, barrierTerm, ready>>
leadershipVars == <<raftVars, notifyCh, shutdown, monitorVars, ctxDone, loopVars>>

Roles == {"follower", "leader", "shutdown"}

MonitorStates == {"select", "joining", "exiting", "exited"}

LoopStates ==
    {"none", "reconcile", "inflight", "committed", "establish", "setReady",
     "established", "transfer", "wait", "sleep"}

\* The one type invariant of this module.
LeadershipTypeOK ==
    /\ curTerm \in Nat
    /\ role \in [Nodes -> Roles]
    /\ term \in [Nodes -> Nat]
    /\ notifyCh \in [Nodes -> Seq(BOOLEAN)]
    /\ shutdown \in [Nodes -> BOOLEAN]
    /\ monitor \in [Nodes -> MonitorStates]
    /\ leaderLoopCancel \in [Nodes -> BOOLEAN]
    /\ stopCh \in [Nodes -> BOOLEAN]
    /\ ctxDone \in [Nodes -> BOOLEAN]
    /\ loop \in [Nodes -> LoopStates]
    /\ barrierTerm \in [Nodes -> Nat]
    /\ ready \in [Nodes -> BOOLEAN]

LeadershipInit ==
    /\ curTerm = 0
    /\ role = [n \in Nodes |-> "follower"]
    /\ term = [n \in Nodes |-> 0]
    /\ notifyCh = [n \in Nodes |-> <<>>]
    /\ shutdown = [n \in Nodes |-> FALSE]
    /\ monitor = [n \in Nodes |-> "select"]
    /\ leaderLoopCancel = [n \in Nodes |-> FALSE]
    /\ stopCh = [n \in Nodes |-> FALSE]
    /\ ctxDone = [n \in Nodes |-> FALSE]
    /\ loop = [n \in Nodes |-> "none"]
    /\ barrierTerm = [n \in Nodes |-> 0]
    /\ ready = [n \in Nodes |-> FALSE]

-----------------------------------------------------------------------------
(* hashicorp/raft, external *)

IsCurrentLeader(n) == role[n] = "leader" /\ term[n] = curTerm

\* raft's main goroutine blocks while it pushes to a full raftNotifyCh; the
\* push it is blocked on is the element of notifyCh beyond NotifyCap.
RaftRuns(n) == Len(notifyCh[n]) <= NotifyCap

Notify(n, isLeader) ==
    /\ RaftRuns(n)
    /\ notifyCh' = [notifyCh EXCEPT ![n] = Append(@, isLeader)]

\* A node wins an election.  The leaders of older terms, if any, do not know
\* it yet, but no quorum listens to them any more.
Elect(n) ==
    /\ role[n] = "follower"
    /\ curTerm < MaxTerm
    /\ curTerm' = curTerm + 1
    /\ term' = [term EXCEPT ![n] = curTerm + 1]
    /\ role' = [role EXCEPT ![n] = "leader"]
    /\ Notify(n, TRUE)
    /\ UNCHANGED <<shutdown, monitorVars, ctxDone, loopVars>>

\* A server outside Nodes wins an election, when Nodes is not the whole cluster.
ElectElsewhere ==
    /\ curTerm < MaxTerm
    /\ curTerm' = curTerm + 1
    /\ UNCHANGED <<role, term, notifyCh, shutdown, monitorVars, ctxDone, loopVars>>

\* A leader steps down: it saw a newer term or its lease ran out.
StepDown(n) ==
    /\ role[n] = "leader"
    /\ role' = [role EXCEPT ![n] = "follower"]
    /\ Notify(n, FALSE)
    /\ UNCHANGED <<curTerm, term, shutdown, monitorVars, ctxDone, loopVars>>

-----------------------------------------------------------------------------
(* monitorLeadership *)

\* The channel delivered true: start the leader loop unless one is running.
MonitorAcquired(n) ==
    /\ monitor[n] = "select"
    /\ notifyCh[n] # <<>> /\ Head(notifyCh[n])
    /\ notifyCh' = [notifyCh EXCEPT ![n] = Tail(@)]
    /\ IF leaderLoopCancel[n]
       THEN UNCHANGED <<leaderLoopCancel, stopCh, ctxDone, loop>>
       ELSE /\ leaderLoopCancel' = [leaderLoopCancel EXCEPT ![n] = TRUE]
            /\ stopCh' = [stopCh EXCEPT ![n] = FALSE]
            /\ ctxDone' = [ctxDone EXCEPT ![n] = FALSE]
            /\ loop' = [loop EXCEPT ![n] = "reconcile"]
    /\ UNCHANGED <<raftVars, shutdown, monitor, barrierTerm, ready>>

\* Mutant of MonitorLost: stopCh is not closed before the wait.
MonitorLostNoStop(n) ==
    /\ monitor[n] = "select"
    /\ notifyCh[n] # <<>> /\ ~Head(notifyCh[n])
    /\ notifyCh' = [notifyCh EXCEPT ![n] = Tail(@)]
    /\ monitor' = [monitor EXCEPT ![n] = IF leaderLoopCancel[n] THEN "joining" ELSE @]
    /\ UNCHANGED <<raftVars, shutdown, leaderLoopCancel, stopCh, ctxDone, loopVars>>

\* The channel delivered false: close stopCh and wait for the loop to end.
MonitorLost(n) ==
    /\ monitor[n] = "select"
    /\ notifyCh[n] # <<>> /\ ~Head(notifyCh[n])
    /\ notifyCh' = [notifyCh EXCEPT ![n] = Tail(@)]
    /\ IF leaderLoopCancel[n]
       THEN /\ stopCh' = [stopCh EXCEPT ![n] = TRUE]
            /\ monitor' = [monitor EXCEPT ![n] = "joining"]
       ELSE UNCHANGED <<stopCh, monitor>>
    /\ UNCHANGED <<raftVars, shutdown, leaderLoopCancel, ctxDone, loopVars>>

\* Mutant of MonitorJoined: leaderLoopCancel is not set back to nil.
MonitorJoinedNoReset(n) ==
    /\ monitor[n] = "joining"
    /\ loop[n] = "none"
    /\ monitor' = [monitor EXCEPT ![n] = "select"]
    /\ UNCHANGED <<raftVars, notifyCh, shutdown, leaderLoopCancel, stopCh, ctxDone, loopVars>>

\* Mutant of MonitorJoined: the loop is not waited for.
MonitorJoinedNoWait(n) ==
    /\ monitor[n] = "joining"
    /\ monitor' = [monitor EXCEPT ![n] = "select"]
    /\ leaderLoopCancel' = [leaderLoopCancel EXCEPT ![n] = FALSE]
    /\ UNCHANGED <<raftVars, notifyCh, shutdown, stopCh, ctxDone, loopVars>>

\* leaderLoopWg.Wait() returns.
MonitorJoined(n) ==
    /\ monitor[n] = "joining"
    /\ loop[n] = "none"
    /\ monitor' = [monitor EXCEPT ![n] = "select"]
    /\ leaderLoopCancel' = [leaderLoopCancel EXCEPT ![n] = FALSE]
    /\ UNCHANGED <<raftVars, notifyCh, shutdown, stopCh, ctxDone, loopVars>>

\* shutdownCh is closed: stop the loop if there is one and return.
MonitorShutdown(n) ==
    /\ monitor[n] = "select"
    /\ shutdown[n]
    /\ IF leaderLoopCancel[n]
       THEN /\ stopCh' = [stopCh EXCEPT ![n] = TRUE]
            /\ monitor' = [monitor EXCEPT ![n] = "exiting"]
       ELSE /\ monitor' = [monitor EXCEPT ![n] = "exited"]
            /\ UNCHANGED stopCh
    /\ UNCHANGED <<raftVars, notifyCh, shutdown, leaderLoopCancel, ctxDone, loopVars>>

MonitorExit(n) ==
    /\ monitor[n] = "exiting"
    /\ loop[n] = "none"
    /\ monitor' = [monitor EXCEPT ![n] = "exited"]
    /\ UNCHANGED <<raftVars, notifyCh, shutdown, leaderLoopCancel, stopCh, ctxDone, loopVars>>

MonitorStep(n) ==
    \/ MonitorAcquired(n)
    \/ MonitorLost(n)
    \/ MonitorJoined(n)
    \/ MonitorShutdown(n)
    \/ MonitorExit(n)

-----------------------------------------------------------------------------
(* leaderLoop *)

Goto(n, from, to) ==
    /\ loop[n] = from
    /\ loop' = [loop EXCEPT ![n] = to]

\* RECONCILE: Barrier() is called, and raft's main goroutine takes it from
\* applyCh in whatever term it is leading by then, or refuses it.
BarrierTaken(n) ==
    /\ Goto(n, "reconcile", "inflight")
    /\ role[n] = "leader" /\ RaftRuns(n)
    /\ barrierTerm' = [barrierTerm EXCEPT ![n] = term[n]]
    /\ UNCHANGED <<raftVars, notifyCh, shutdown, monitorVars, ctxDone, ready>>

\* Mutant of BarrierNotLeader: the loop does not end.
BarrierNotLeaderStuck(n) ==
    /\ Goto(n, "reconcile", "refused")
    /\ role[n] = "follower" /\ RaftRuns(n)
    /\ UNCHANGED <<raftVars, notifyCh, shutdown, monitorVars, ctxDone, barrierTerm, ready>>

\* ErrNotLeader: the loop returns.
BarrierNotLeader(n) ==
    /\ Goto(n, "reconcile", "none")
    /\ role[n] = "follower" /\ RaftRuns(n)
    /\ UNCHANGED <<raftVars, notifyCh, shutdown, monitorVars, ctxDone, barrierTerm, ready>>

\* Mutant of BarrierError: the loop returns instead of trying again.
BarrierErrorGivesUp(n) ==
    /\ "error" \in Faults \/ role[n] = "shutdown"
    /\ Goto(n, "reconcile", "none")
    /\ UNCHANGED <<raftVars, notifyCh, shutdown, monitorVars, ctxDone, barrierTerm, ready>>

\* Any other error: WAIT.  It is a transfer in progress, raft shut down, or an
\* enqueue timeout, which takes the 64 places of applyCh (BatchApplyCh) to be
\* full of writes: with a place left Barrier enqueues at once and
\* barrier.Error() waits for raft's main goroutine without a timeout.
BarrierError(n) ==
    /\ "error" \in Faults \/ role[n] = "shutdown"
    /\ Goto(n, "reconcile", "wait")
    /\ UNCHANGED <<raftVars, notifyCh, shutdown, monitorVars, ctxDone, barrierTerm, ready>>

\* Only the leader of the current term gets a quorum for the barrier's entry.
BarrierCommitted(n) ==
    /\ Goto(n, "inflight", "committed")
    /\ IsCurrentLeader(n) /\ RaftRuns(n)
    /\ barrierTerm[n] = term[n]
    /\ UNCHANGED <<raftVars, notifyCh, shutdown, monitorVars, ctxDone, barrierTerm, ready>>

\* ErrLeadershipLost: the loop returns.
BarrierLost(n) ==
    /\ Goto(n, "inflight", "none")
    /\ role[n] # "leader" \/ term[n] # barrierTerm[n]
    /\ UNCHANGED <<raftVars, notifyCh, shutdown, monitorVars, ctxDone, barrierTerm, ready>>

\* The FSM goroutine reaches the barrier and answers its future, whether or
\* not the node still leads.
BarrierApplied(n) ==
    /\ Goto(n, "committed", "establish")
    /\ UNCHANGED <<raftVars, notifyCh, shutdown, monitorVars, ctxDone, barrierTerm, ready>>

\* establishLeadership finds its context live ...
EstablishChecked(n) ==
    /\ Goto(n, "establish", "setReady")
    /\ ~ctxDone[n]
    /\ UNCHANGED <<raftVars, notifyCh, shutdown, monitorVars, ctxDone, barrierTerm, ready>>

\* ... and sets the flag, which the check above no longer protects.
SetConsistentReadReady(n) ==
    /\ Goto(n, "setReady", "established")
    /\ ready' = [ready EXCEPT ![n] = TRUE]
    /\ UNCHANGED <<raftVars, notifyCh, shutdown, monitorVars, ctxDone, barrierTerm>>

\* establishLeadership finds its context cancelled: revokeLeadership, then
\* leadershipTransfer.
EstablishFailed(n) ==
    /\ Goto(n, "establish", "transfer")
    /\ ctxDone[n]
    /\ ready' = [ready EXCEPT ![n] = FALSE]
    /\ UNCHANGED <<raftVars, notifyCh, shutdown, monitorVars, ctxDone, barrierTerm>>

\* One of the three attempts succeeds: the node has left the leadership it
\* holds at that moment, and the loop returns.
TransferSucceeded(n) ==
    /\ Goto(n, "transfer", "none")
    /\ role[n] = "leader"
    /\ role' = [role EXCEPT ![n] = "follower"]
    /\ Notify(n, FALSE)
    /\ UNCHANGED <<curTerm, term, shutdown, monitorVars, ctxDone, barrierTerm, ready>>

\* All three attempts fail: WAIT.  Like the barrier's, the transfer's future is
\* answered by raft's main goroutine, without a timeout.
TransferFailed(n) ==
    /\ Goto(n, "transfer", "wait")
    /\ RaftRuns(n)
    /\ UNCHANGED <<raftVars, notifyCh, shutdown, monitorVars, ctxDone, barrierTerm, ready>>

\* Mutant of RevokeLeadership: the loop waits for the monitor that joins it.
RevokeWaitsForMonitor(n) ==
    /\ Goto(n, "established", "none")
    /\ stopCh[n] /\ ~leaderLoopCancel[n]
    /\ ready' = [ready EXCEPT ![n] = FALSE]
    /\ UNCHANGED <<raftVars, notifyCh, shutdown, monitorVars, ctxDone, barrierTerm>>

\* <-stopCh, then the deferred revokeLeadership.
RevokeLeadership(n) ==
    /\ Goto(n, "established", "none")
    /\ stopCh[n]
    /\ ready' = [ready EXCEPT ![n] = FALSE]
    /\ UNCHANGED <<raftVars, notifyCh, shutdown, monitorVars, ctxDone, barrierTerm>>

\* WAIT polls stopCh first, so a stopped loop does not sleep.
WaitPoll(n) ==
    /\ Goto(n, "wait", IF stopCh[n] THEN "none" ELSE "sleep")
    /\ UNCHANGED <<raftVars, notifyCh, shutdown, monitorVars, ctxDone, barrierTerm, ready>>

\* The second select of WAIT: stopCh, or five seconds and RECONCILE.
SleepStopped(n) ==
    /\ Goto(n, "sleep", "none")
    /\ stopCh[n]
    /\ UNCHANGED <<raftVars, notifyCh, shutdown, monitorVars, ctxDone, barrierTerm, ready>>

\* Mutant of SleepElapsed: the retry starts behind the barrier.
SleepElapsedNoBarrier(n) ==
    /\ Goto(n, "sleep", "establish")
    /\ UNCHANGED <<raftVars, notifyCh, shutdown, monitorVars, ctxDone, barrierTerm, ready>>

SleepElapsed(n) ==
    /\ Goto(n, "sleep", "reconcile")
    /\ UNCHANGED <<raftVars, notifyCh, shutdown, monitorVars, ctxDone, barrierTerm, ready>>

\* The goroutine <-stopCh; cancel() of leaderLoop.
CancelCtx(n) ==
    /\ loop[n] # "none"
    /\ stopCh[n] /\ ~ctxDone[n]
    /\ ctxDone' = [ctxDone EXCEPT ![n] = TRUE]
    /\ UNCHANGED <<raftVars, notifyCh, shutdown, monitorVars, loopVars>>

-----------------------------------------------------------------------------
(* close, and the crash of the process *)

\* raftServer.close closes shutdownCh ...
CloseShutdownCh(n) ==
    /\ "shutdown" \in Faults
    /\ ~shutdown[n]
    /\ shutdown' = [shutdown EXCEPT ![n] = TRUE]
    /\ UNCHANGED <<raftVars, notifyCh, monitorVars, ctxDone, loopVars>>

\* ... and then shuts raft down; raft also shuts itself down when the node is
\* removed from the cluster (ShutdownOnRemove).  A blocked push is given up; a
\* leader still notifies its loss if the channel has room.
RaftShutdown(n) ==
    /\ "shutdown" \in Faults
    /\ role[n] # "shutdown"
    /\ role' = [role EXCEPT ![n] = "shutdown"]
    /\ notifyCh' = [notifyCh EXCEPT ![n] =
           IF role[n] = "leader" /\ Len(@) < NotifyCap
           THEN Append(@, FALSE)
           ELSE IF RaftRuns(n) THEN @ ELSE SubSeq(@, 1, NotifyCap)]
    /\ UNCHANGED <<curTerm, term, shutdown, monitorVars, ctxDone, loopVars>>

\* The process dies, or has been closed, and newRaft starts it again.
Restart(n) ==
    /\ "crash" \in Faults
    /\ role' = [role EXCEPT ![n] = "follower"]
    /\ notifyCh' = [notifyCh EXCEPT ![n] = <<>>]
    /\ shutdown' = [shutdown EXCEPT ![n] = FALSE]
    /\ monitor' = [monitor EXCEPT ![n] = "select"]
    /\ leaderLoopCancel' = [leaderLoopCancel EXCEPT ![n] = FALSE]
    /\ stopCh' = [stopCh EXCEPT ![n] = FALSE]
    /\ ctxDone' = [ctxDone EXCEPT ![n] = FALSE]
    /\ loop' = [loop EXCEPT ![n] = "none"]
    /\ barrierTerm' = [barrierTerm EXCEPT ![n] = 0]
    /\ ready' = [ready EXCEPT ![n] = FALSE]
    /\ UNCHANGED <<curTerm, term>>

-----------------------------------------------------------------------------
(* The steps of node n that a client's read or write never takes part in. *)
LocalStep(n) ==
    \/ StepDown(n)
    \/ MonitorStep(n)
    \/ BarrierTaken(n)
    \/ BarrierNotLeader(n)
    \/ BarrierError(n)
    \/ BarrierLost(n)
    \/ EstablishChecked(n)
    \/ SetConsistentReadReady(n)
    \/ EstablishFailed(n)
    \/ TransferSucceeded(n)
    \/ TransferFailed(n)
    \/ RevokeLeadership(n)
    \/ WaitPoll(n)
    \/ SleepStopped(n)
    \/ SleepElapsed(n)
    \/ CancelCtx(n)
    \/ CloseShutdownCh(n)
    \/ RaftShutdown(n)

LeadershipNext ==
    \/ \E n \in Nodes :
        \/ Elect(n)
        \/ BarrierCommitted(n)
        \/ BarrierApplied(n)
        \/ Restart(n)
        \/ LocalStep(n)
    \/ ElectElsewhere

\* The Go scheduler runs every goroutine that can run, timers fire, a raft
\* that is neither blocked on its notification nor shut down answers, and a
\* close that has begun goes on.  That raft eventually takes the barrier of a
\* leader that keeps retrying is strong fairness: each attempt may fail.
\* A leader that a newer term has outdated notices (its lease runs out).
\* Nothing is assumed of elections, other losses, shutdowns, crashes and
\* errors, nor of what a raft that is shut down does with the futures it still
\* holds: those in applyCh, leadershipTransferCh and the FSM's queue stay
\* unanswered.
LeadershipFairness ==
    \A n \in Nodes :
        /\ WF_leadershipVars(MonitorStep(n))
        /\ SF_leadershipVars(BarrierTaken(n))
        /\ WF_leadershipVars(BarrierNotLeader(n))
        /\ WF_leadershipVars(BarrierCommitted(n) \/ BarrierLost(n))
        /\ WF_leadershipVars(role[n] # "shutdown" /\ BarrierApplied(n))
        /\ WF_leadershipVars(EstablishChecked(n) \/ EstablishFailed(n))
        /\ WF_leadershipVars(SetConsistentReadReady(n))
        /\ WF_leadershipVars(role[n] # "shutdown" /\ (TransferSucceeded(n) \/ TransferFailed(n)))
        /\ WF_leadershipVars(RevokeLeadership(n))
        /\ WF_leadershipVars(WaitPoll(n))
        /\ WF_leadershipVars(SleepStopped(n) \/ SleepElapsed(n))
        /\ WF_leadershipVars(shutdown[n] /\ RaftShutdown(n))
        /\ WF_leadershipVars(term[n] # curTerm /\ StepDown(n))

LeadershipSpec ==
    LeadershipInit /\ [][LeadershipNext]_leadershipVars /\ LeadershipFairness

-----------------------------------------------------------------------------
(* Properties *)

\* monitorLeadership never reaches its two "[WARN] attempted to ..." branches:
\* a true arrives only when no loop is running, a false only when one is,
\* whatever the monitor's lag behind raft and whatever ended the last loop.
MonitorInStep ==
    \A n \in Nodes :
        monitor[n] = "select" /\ notifyCh[n] # <<>>
            => Head(notifyCh[n]) = ~leaderLoopCancel[n]

\* Once the monitor has joined the loop (leaderLoopCancel = nil), the flag is
\* down and no goroutine is left that could raise it, although establishing
\* races the cancellation: what the comment at raft.go:223 relies on.
NoReadyAfterJoin ==
    \A n \in Nodes :
        ~leaderLoopCancel[n] => ~ready[n] /\ loop[n] = "none"

\* A raised flag vouches for the leadership the node holds now, provided the
\* monitor has caught up with raftNotifyCh: the barrier behind it was taken
\* in the node's latest leadership and not in an earlier one.
DrainedReadyIsCurrent ==
    \A n \in Nodes :
        monitor[n] = "select" /\ notifyCh[n] = <<>> /\ ready[n]
            => role[n] # "follower" /\ barrierTerm[n] = term[n]

\* A node that leads for good ends up serving consistent reads for good.  A
\* leader blocked on its own notification does not lead: it sends no heartbeat.
StableLeaderBecomesReady ==
    \A n \in Nodes : <>[](IsCurrentLeader(n) /\ RaftRuns(n)) => <>[]ready[n]

\* A flag left over from a lost leadership is taken down, unless the node
\* leads again by then or raft is shut down.
LostLeaderRevokes ==
    \A n \in Nodes : role[n] = "follower" ~> (~ready[n] \/ role[n] # "follower")

\* leaderLoopWg.Wait() returns, unless raft is shut down or is blocked for good
\* on a full raftNotifyCh: short of that, the monitor does not wait for a loop
\* that waits for the monitor.
JoinReturns ==
    \A n \in Nodes :
        monitor[n] = "joining"
            ~> (monitor[n] # "joining" \/ role[n] = "shutdown" \/ []~RaftRuns(n))

\* The join without the exception.  It fails without any fault: the monitor
\* waits for the loop, the loop for a barrier or a transfer that raft's main
\* goroutine would answer, and that one for a place in raftNotifyCh, which only
\* the monitor makes.
JoinAlwaysReturns ==
    \A n \in Nodes : monitor[n] = "joining" ~> monitor[n] # "joining"

=============================================================================
