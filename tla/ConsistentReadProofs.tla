------------------------ MODULE ConsistentReadProofs ------------------------
(***************************************************************************)
(* Proofs of the safety properties of Leadership, for any set of nodes,    *)
(* any number of elections and any capacity of raftNotifyCh, and of those  *)
(* of ConsistentRead, which composes it with the clients and the log, for  *)
(* any set of clients as well.                                             *)
(***************************************************************************)
EXTENDS ConsistentRead, SequenceTheorems, TLAPS

(* Leadership: the invariant says that the pending notifications alternate *)
(* and that the last one tells the role of the node.                       *)

Alternating(q) == \A i \in 1 .. Len(q) - 1 : q[i + 1] = ~q[i]

\* The notification the monitor must receive next for the leader loop to
\* follow raft: true if it has (or will have, once it has joined) no loop.
NextIsAcquired(n) == monitor[n] = "joining" \/ ~leaderLoopCancel[n]

Consuming(n) == monitor[n] \in {"select", "joining"}

\* The pending notifications alternate; the first one is the one the monitor
\* needs, and the last one tells the role of the node.
Alternates(n) ==
    Consuming(n) =>
        /\ notifyCh[n] # <<>> => notifyCh[n][1] = NextIsAcquired(n)
        /\ Alternating(notifyCh[n])
        /\ role[n] = "leader" =>
               IF notifyCh[n] = <<>> THEN ~NextIsAcquired(n)
               ELSE notifyCh[n][Len(notifyCh[n])] = TRUE
        /\ role[n] = "follower" =>
               IF notifyCh[n] = <<>> THEN NextIsAcquired(n)
               ELSE notifyCh[n][Len(notifyCh[n])] = FALSE

\* A loop runs only between its start and its join, and the flag is up only
\* while an established loop will take it down.
Owned(n) ==
    /\ loop[n] # "none" => leaderLoopCancel[n]
    /\ monitor[n] \in {"joining", "exiting"} => leaderLoopCancel[n]
    /\ ready[n] => loop[n] = "established"

\* States of the loop from the moment raft has taken its barrier.
BarrierSent(n) ==
    loop[n] \in {"inflight", "committed", "establish", "setReady", "established"}

\* When the monitor is idle, the loop's barrier belongs to the latest
\* leadership.
Current(n) ==
    monitor[n] = "select" /\ notifyCh[n] = <<>> /\ BarrierSent(n)
        => barrierTerm[n] = term[n]

LeadershipInv ==
    \A n \in Nodes : Alternates(n) /\ Owned(n) /\ Current(n)

-----------------------------------------------------------------------------
(* raftNotifyCh as an alternating queue *)

\* raft pushes the opposite of its last pending notification.
LEMMA PushAlternating ==
    ASSUME NEW q \in Seq(BOOLEAN), NEW b \in BOOLEAN, Alternating(q),
           q # <<>> => q[Len(q)] = ~b
    PROVE  /\ Append(q, b) \in Seq(BOOLEAN)
           /\ Append(q, b) # <<>>
           /\ Alternating(Append(q, b))
           /\ Append(q, b)[1] = IF q = <<>> THEN b ELSE q[1]
           /\ Append(q, b)[Len(Append(q, b))] = b
<1> DEFINE p == Append(q, b)
<1>1. /\ p \in Seq(BOOLEAN) /\ Len(p) = Len(q) + 1 /\ p # <<>>
      /\ p[Len(p)] = b
      /\ \A i \in 1 .. Len(q) : p[i] = q[i]
  BY AppendProperties
<1>2. q # <<>> => Len(q) >= 1
  BY EmptySeq
<1>3. Alternating(p)
  BY <1>1, <1>2 DEF Alternating
<1> QED
  BY <1>1, <1>2, <1>3

\* The monitor takes the first pending notification.
LEMMA PopAlternating ==
    ASSUME NEW q \in Seq(BOOLEAN), q # <<>>, Alternating(q)
    PROVE  /\ Tail(q) \in Seq(BOOLEAN)
           /\ Alternating(Tail(q))
           /\ Head(q) = q[1]
           /\ Tail(q) = <<>> => q[Len(q)] = q[1]
           /\ Tail(q) # <<>> => /\ Tail(q)[1] = ~q[1]
                                /\ Tail(q)[Len(Tail(q))] = q[Len(q)]
<1>1. /\ Tail(q) \in Seq(BOOLEAN) /\ Len(Tail(q)) = Len(q) - 1
      /\ \A i \in 1 .. Len(Tail(q)) : Tail(q)[i] = q[i + 1]
  BY HeadTailProperties
<1>2. Len(q) \in Nat /\ Len(q) >= 1
  BY EmptySeq
<1>3. Tail(q) # <<>> => Len(Tail(q)) >= 1
  BY <1>1, EmptySeq
<1>4. Tail(q) = <<>> => Len(Tail(q)) = 0
  BY EmptySeq
<1>5. Alternating(Tail(q))
  BY <1>1, <1>2 DEF Alternating
<1>6. Tail(q) # <<>> => Tail(q)[1] = ~q[1]
  BY <1>1, <1>2, <1>3 DEF Alternating
<1> QED
  BY <1>1, <1>2, <1>3, <1>4, <1>5, <1>6

\* A raft that shuts down gives up the push it is blocked on.
LEMMA CutAlternating ==
    ASSUME NEW q \in Seq(BOOLEAN), NEW k \in Nat \ {0}, k < Len(q), Alternating(q)
    PROVE  /\ SubSeq(q, 1, k) \in Seq(BOOLEAN)
           /\ SubSeq(q, 1, k) # <<>>
           /\ Alternating(SubSeq(q, 1, k))
           /\ SubSeq(q, 1, k)[1] = q[1]
<1>1. \A i \in 1 .. k : q[i] \in BOOLEAN
  BY ElementOfSeq
<1>2. /\ SubSeq(q, 1, k) \in Seq(BOOLEAN)
      /\ Len(SubSeq(q, 1, k)) = k
      /\ \A i \in 1 .. k : SubSeq(q, 1, k)[i] = q[i]
  BY <1>1, SubSeqProperties
<1>3. Len(q) \in Nat
  OBVIOUS
<1> DEFINE s == SubSeq(q, 1, k)
<1> HIDE DEF s
<1>4. s \in Seq(BOOLEAN) /\ Len(s) = k /\ \A i \in 1 .. k : s[i] = q[i]
  BY <1>2 DEF s
<1>5. s # <<>> /\ s[1] = q[1]
  BY <1>4
<1>6. Alternating(s)
  BY <1>3, <1>4 DEF Alternating
<1> QED
  BY <1>4, <1>5, <1>6 DEF s

-----------------------------------------------------------------------------
\* The values of the state variables stay in their types: no step of raft,
\* of the monitor, of the loop or of a shutdown produces anything else.
LEMMA LeadershipTypeInductive ==
    LeadershipTypeOK /\ [LeadershipNext]_leadershipVars => LeadershipTypeOK'
<1> SUFFICES ASSUME LeadershipTypeOK, [LeadershipNext]_leadershipVars
             PROVE  LeadershipTypeOK'
  OBVIOUS
<1> USE NotifyCapAssumption DEF LeadershipTypeOK, Roles, MonitorStates, LoopStates,
        raftVars, monitorVars, loopVars, Goto, Notify
<1>1. ASSUME NEW n \in Nodes, StepDown(n) PROVE LeadershipTypeOK'
  BY <1>1 DEF StepDown
<1>2. ASSUME NEW n \in Nodes, MonitorAcquired(n) PROVE LeadershipTypeOK'
  <2>1. Tail(notifyCh[n]) \in Seq(BOOLEAN)
    BY <1>2, HeadTailProperties DEF MonitorAcquired
  <2>2. notifyCh' \in [Nodes -> Seq(BOOLEAN)]
    BY <1>2, <2>1 DEF MonitorAcquired
  <2>3. /\ leaderLoopCancel' \in [Nodes -> BOOLEAN] /\ stopCh' \in [Nodes -> BOOLEAN]
        /\ ctxDone' \in [Nodes -> BOOLEAN]
    BY <1>2 DEF MonitorAcquired
  <2>4. loop' \in [Nodes -> LoopStates]
    BY <1>2 DEF MonitorAcquired
  <2> QED
    BY <1>2, <2>2, <2>3, <2>4 DEF MonitorAcquired
<1>3. ASSUME NEW n \in Nodes, MonitorLost(n) PROVE LeadershipTypeOK'
  <2>1. Tail(notifyCh[n]) \in Seq(BOOLEAN)
    BY <1>3, HeadTailProperties DEF MonitorLost
  <2> QED
    BY <1>3, <2>1 DEF MonitorLost
<1>4. ASSUME NEW n \in Nodes, MonitorJoined(n) PROVE LeadershipTypeOK'
  BY <1>4 DEF MonitorJoined
<1>5. ASSUME NEW n \in Nodes, MonitorShutdown(n) PROVE LeadershipTypeOK'
  BY <1>5 DEF MonitorShutdown
<1>6. ASSUME NEW n \in Nodes, MonitorExit(n) PROVE LeadershipTypeOK'
  BY <1>6 DEF MonitorExit
<1>7. ASSUME NEW n \in Nodes, BarrierTaken(n) PROVE LeadershipTypeOK'
  BY <1>7 DEF BarrierTaken
<1>8. ASSUME NEW n \in Nodes, BarrierNotLeader(n) PROVE LeadershipTypeOK'
  BY <1>8 DEF BarrierNotLeader
<1>9. ASSUME NEW n \in Nodes, BarrierError(n) PROVE LeadershipTypeOK'
  BY <1>9 DEF BarrierError
<1>10. ASSUME NEW n \in Nodes, BarrierLost(n) PROVE LeadershipTypeOK'
  BY <1>10 DEF BarrierLost
<1>11. ASSUME NEW n \in Nodes, EstablishChecked(n) PROVE LeadershipTypeOK'
  BY <1>11 DEF EstablishChecked
<1>12. ASSUME NEW n \in Nodes, SetConsistentReadReady(n) PROVE LeadershipTypeOK'
  BY <1>12 DEF SetConsistentReadReady
<1>13. ASSUME NEW n \in Nodes, EstablishFailed(n) PROVE LeadershipTypeOK'
  BY <1>13 DEF EstablishFailed
<1>14. ASSUME NEW n \in Nodes, TransferSucceeded(n) PROVE LeadershipTypeOK'
  BY <1>14 DEF TransferSucceeded
<1>15. ASSUME NEW n \in Nodes, TransferFailed(n) PROVE LeadershipTypeOK'
  BY <1>15 DEF TransferFailed
<1>16. ASSUME NEW n \in Nodes, RevokeLeadership(n) PROVE LeadershipTypeOK'
  BY <1>16 DEF RevokeLeadership
<1>17. ASSUME NEW n \in Nodes, WaitPoll(n) PROVE LeadershipTypeOK'
  BY <1>17 DEF WaitPoll
<1>18. ASSUME NEW n \in Nodes, SleepStopped(n) PROVE LeadershipTypeOK'
  BY <1>18 DEF SleepStopped
<1>19. ASSUME NEW n \in Nodes, SleepElapsed(n) PROVE LeadershipTypeOK'
  BY <1>19 DEF SleepElapsed
<1>20. ASSUME NEW n \in Nodes, CancelCtx(n) PROVE LeadershipTypeOK'
  BY <1>20 DEF CancelCtx
<1>21. ASSUME NEW n \in Nodes, CloseShutdownCh(n) PROVE LeadershipTypeOK'
  BY <1>21 DEF CloseShutdownCh
<1>22. ASSUME NEW n \in Nodes, RaftShutdown(n) PROVE LeadershipTypeOK'
  <2>1. ~RaftRuns(n) => SubSeq(notifyCh[n], 1, NotifyCap) \in Seq(BOOLEAN)
    <3>1. ~RaftRuns(n) => \A i \in 1 .. NotifyCap : notifyCh[n][i] \in BOOLEAN
      BY ElementOfSeq DEF RaftRuns
    <3> QED
      BY <3>1, SubSeqProperties
  <2>2. Append(notifyCh[n], FALSE) \in Seq(BOOLEAN)
    OBVIOUS
  <2>3. PICK q \in Seq(BOOLEAN) : notifyCh' = [notifyCh EXCEPT ![n] = q]
    BY <1>22, <2>1, <2>2 DEF RaftShutdown
  <2>4. /\ role' = [role EXCEPT ![n] = "shutdown"]
        /\ UNCHANGED <<curTerm, term, shutdown, monitorVars, ctxDone, loopVars>>
    BY <1>22 DEF RaftShutdown
  <2> QED
    BY <2>3, <2>4
<1>23. ASSUME NEW n \in Nodes, Elect(n) PROVE LeadershipTypeOK'
  BY <1>23 DEF Elect
<1>24. ASSUME NEW n \in Nodes, BarrierCommitted(n) PROVE LeadershipTypeOK'
  BY <1>24 DEF BarrierCommitted
<1>25. ASSUME NEW n \in Nodes, BarrierApplied(n) PROVE LeadershipTypeOK'
  BY <1>25 DEF BarrierApplied
<1>26. ASSUME NEW n \in Nodes, Restart(n) PROVE LeadershipTypeOK'
  BY <1>26 DEF Restart
<1>27. CASE ElectElsewhere
  BY <1>27 DEF ElectElsewhere
<1>28. CASE UNCHANGED leadershipVars
  BY <1>28 DEF leadershipVars
<1> QED
  BY <1>1, <1>2, <1>3, <1>4, <1>5, <1>6, <1>7, <1>8, <1>9, <1>10, <1>11,
     <1>12, <1>13, <1>14, <1>15, <1>16, <1>17, <1>18, <1>19, <1>20, <1>21,
     <1>22, <1>23, <1>24, <1>25, <1>26, <1>27, <1>28 DEF LeadershipNext,
     LocalStep, MonitorStep

-----------------------------------------------------------------------------
\* The loop stays owned by the monitor, and the flag by the loop, under every
\* step: the loop ends before leaderLoopCancel is reset, and takes the flag
\* down before it ends.
LEMMA OwnedInductive ==
    ASSUME LeadershipTypeOK, \A n \in Nodes : Owned(n),
           [LeadershipNext]_leadershipVars
    PROVE  \A n \in Nodes : Owned(n)'
<1> USE DEF LeadershipTypeOK, Owned, raftVars, monitorVars, loopVars, Goto
<1>1. ASSUME NEW n \in Nodes, StepDown(n) PROVE \A m \in Nodes : Owned(m)'
  BY <1>1 DEF StepDown
<1>2. ASSUME NEW n \in Nodes, MonitorAcquired(n) PROVE \A m \in Nodes : Owned(m)'
  <2>1. /\ UNCHANGED <<monitor, ready>>
        /\ \/ UNCHANGED <<leaderLoopCancel, loop>>
           \/ /\ ~leaderLoopCancel[n]
              /\ leaderLoopCancel' = [leaderLoopCancel EXCEPT ![n] = TRUE]
              /\ loop' = [loop EXCEPT ![n] = "reconcile"]
    BY <1>2 DEF MonitorAcquired
  <2> QED
    BY <2>1
<1>3. ASSUME NEW n \in Nodes, MonitorLost(n) PROVE \A m \in Nodes : Owned(m)'
  BY <1>3 DEF MonitorLost
<1>4. ASSUME NEW n \in Nodes, MonitorJoined(n) PROVE \A m \in Nodes : Owned(m)'
  BY <1>4 DEF MonitorJoined
<1>5. ASSUME NEW n \in Nodes, MonitorShutdown(n) PROVE \A m \in Nodes : Owned(m)'
  BY <1>5 DEF MonitorShutdown
<1>6. ASSUME NEW n \in Nodes, MonitorExit(n) PROVE \A m \in Nodes : Owned(m)'
  BY <1>6 DEF MonitorExit
<1>7. ASSUME NEW n \in Nodes, BarrierTaken(n) PROVE \A m \in Nodes : Owned(m)'
  BY <1>7 DEF BarrierTaken
<1>8. ASSUME NEW n \in Nodes, BarrierNotLeader(n) PROVE \A m \in Nodes : Owned(m)'
  BY <1>8 DEF BarrierNotLeader
<1>9. ASSUME NEW n \in Nodes, BarrierError(n) PROVE \A m \in Nodes : Owned(m)'
  BY <1>9 DEF BarrierError
<1>10. ASSUME NEW n \in Nodes, BarrierLost(n) PROVE \A m \in Nodes : Owned(m)'
  BY <1>10 DEF BarrierLost
<1>11. ASSUME NEW n \in Nodes, EstablishChecked(n) PROVE \A m \in Nodes : Owned(m)'
  BY <1>11 DEF EstablishChecked
<1>12. ASSUME NEW n \in Nodes, SetConsistentReadReady(n) PROVE \A m \in Nodes : Owned(m)'
  BY <1>12 DEF SetConsistentReadReady
<1>13. ASSUME NEW n \in Nodes, EstablishFailed(n) PROVE \A m \in Nodes : Owned(m)'
  BY <1>13 DEF EstablishFailed
<1>14. ASSUME NEW n \in Nodes, TransferSucceeded(n) PROVE \A m \in Nodes : Owned(m)'
  BY <1>14 DEF TransferSucceeded
<1>15. ASSUME NEW n \in Nodes, TransferFailed(n) PROVE \A m \in Nodes : Owned(m)'
  BY <1>15 DEF TransferFailed
<1>16. ASSUME NEW n \in Nodes, RevokeLeadership(n) PROVE \A m \in Nodes : Owned(m)'
  BY <1>16 DEF RevokeLeadership
<1>17. ASSUME NEW n \in Nodes, WaitPoll(n) PROVE \A m \in Nodes : Owned(m)'
  BY <1>17 DEF WaitPoll
<1>18. ASSUME NEW n \in Nodes, SleepStopped(n) PROVE \A m \in Nodes : Owned(m)'
  BY <1>18 DEF SleepStopped
<1>19. ASSUME NEW n \in Nodes, SleepElapsed(n) PROVE \A m \in Nodes : Owned(m)'
  BY <1>19 DEF SleepElapsed
<1>20. ASSUME NEW n \in Nodes, CancelCtx(n) PROVE \A m \in Nodes : Owned(m)'
  BY <1>20 DEF CancelCtx
<1>21. ASSUME NEW n \in Nodes, CloseShutdownCh(n) PROVE \A m \in Nodes : Owned(m)'
  BY <1>21 DEF CloseShutdownCh
<1>22. ASSUME NEW n \in Nodes, RaftShutdown(n) PROVE \A m \in Nodes : Owned(m)'
  BY <1>22 DEF RaftShutdown
<1>23. ASSUME NEW n \in Nodes, Elect(n) PROVE \A m \in Nodes : Owned(m)'
  BY <1>23 DEF Elect
<1>24. ASSUME NEW n \in Nodes, BarrierCommitted(n) PROVE \A m \in Nodes : Owned(m)'
  BY <1>24 DEF BarrierCommitted
<1>25. ASSUME NEW n \in Nodes, BarrierApplied(n) PROVE \A m \in Nodes : Owned(m)'
  BY <1>25 DEF BarrierApplied
<1>26. ASSUME NEW n \in Nodes, Restart(n) PROVE \A m \in Nodes : Owned(m)'
  BY <1>26 DEF Restart
<1>27. CASE ElectElsewhere
  BY <1>27 DEF ElectElsewhere
<1>28. CASE UNCHANGED leadershipVars
  BY <1>28 DEF leadershipVars
<1> QED
  BY <1>1, <1>2, <1>3, <1>4, <1>5, <1>6, <1>7, <1>8, <1>9, <1>10, <1>11,
     <1>12, <1>13, <1>14, <1>15, <1>16, <1>17, <1>18, <1>19, <1>20, <1>21,
     <1>22, <1>23, <1>24, <1>25, <1>26, <1>27, <1>28 DEF LeadershipNext,
     LocalStep, MonitorStep

-----------------------------------------------------------------------------
\* A step that leaves the role of a node, its channel and its monitor alone
\* leaves its alternation alone.
LEMMA AlternatesFrame ==
    ASSUME NEW n \in Nodes, Alternates(n),
           role'[n] = role[n], notifyCh'[n] = notifyCh[n],
           monitor'[n] = monitor[n], leaderLoopCancel'[n] = leaderLoopCancel[n]
    PROVE  Alternates(n)'
  BY DEF Alternates, Consuming, NextIsAcquired

\* raft turns the role of a node and pushes the new role.
LEMMA AlternatesPush ==
    ASSUME LeadershipTypeOK, NEW n \in Nodes, NEW b \in BOOLEAN, Alternates(n),
           role[n] = IF b THEN "follower" ELSE "leader",
           role' = [role EXCEPT ![n] = IF b THEN "leader" ELSE "follower"],
           notifyCh' = [notifyCh EXCEPT ![n] = Append(@, b)],
           UNCHANGED <<monitor, leaderLoopCancel>>
    PROVE  \A m \in Nodes : Alternates(m) => Alternates(m)'
<1> SUFFICES ASSUME NEW m \in Nodes, Alternates(m) PROVE Alternates(m)'
  OBVIOUS
<1>1. CASE m # n
  BY <1>1, AlternatesFrame DEF LeadershipTypeOK
<1>2. CASE m = n
  <2> SUFFICES ASSUME Consuming(n)' PROVE Alternates(n)'
    BY <1>2 DEF Alternates
  <2> DEFINE q == notifyCh[n]
  <2>1. Consuming(n) /\ NextIsAcquired(n)' = NextIsAcquired(n)
    BY DEF Consuming, NextIsAcquired
  <2>2. q \in Seq(BOOLEAN) /\ notifyCh'[n] = Append(q, b)
    BY DEF LeadershipTypeOK
  <2>3. role'[n] = IF b THEN "leader" ELSE "follower"
    BY DEF LeadershipTypeOK
  <2>4. /\ Alternating(q)
        /\ q # <<>> => q[1] = NextIsAcquired(n) /\ q[Len(q)] = ~b
        /\ q = <<>> => b = NextIsAcquired(n)
    <3>1. CASE b = TRUE
      BY <2>1, <3>1 DEF Alternates
    <3>2. CASE b = FALSE
      BY <2>1, <3>2 DEF Alternates, NextIsAcquired
    <3> QED
      BY <3>1, <3>2
  <2> HIDE DEF q
  <2>5. /\ Append(q, b) # <<>>
        /\ Alternating(Append(q, b))
        /\ Append(q, b)[1] = NextIsAcquired(n)
        /\ Append(q, b)[Len(Append(q, b))] = b
    BY <2>2, <2>4, PushAlternating
  <2> QED
    BY <2>1, <2>2, <2>3, <2>5 DEF Alternates
<1> QED
  BY <1>1, <1>2

\* The monitor takes a notification off the channel: it starts the loop on
\* true and stops it on false, so that it then needs the opposite one.
LEMMA AlternatesPop ==
    ASSUME LeadershipTypeOK, NEW n \in Nodes, Alternates(n), Owned(n),
           MonitorAcquired(n) \/ MonitorLost(n)
    PROVE  \A m \in Nodes : Alternates(m) => Alternates(m)'
<1> USE DEF LeadershipTypeOK, raftVars, monitorVars, loopVars
<1> DEFINE q == notifyCh[n]
<1>1. /\ monitor[n] = "select" /\ q \in Seq(BOOLEAN) /\ q # <<>>
      /\ notifyCh' = [notifyCh EXCEPT ![n] = Tail(q)]
      /\ role' = role
  BY DEF MonitorAcquired, MonitorLost
<1>2. Consuming(n)
  BY <1>1 DEF Consuming
<1>3. /\ Alternating(q)
      /\ q[1] = ~leaderLoopCancel[n]
      /\ role[n] = "leader" => q[Len(q)] = TRUE
      /\ role[n] = "follower" => q[Len(q)] = FALSE
  BY <1>1, <1>2 DEF Alternates, NextIsAcquired
<1>4. /\ Alternating(Tail(q))
      /\ Head(q) = q[1]
      /\ Tail(q) = <<>> => q[Len(q)] = q[1]
      /\ Tail(q) # <<>> => /\ Tail(q)[1] = ~q[1]
                           /\ Tail(q)[Len(Tail(q))] = q[Len(q)]
  BY <1>1, <1>3, PopAlternating
<1>5. Tail(q) \in Seq(BOOLEAN)
  BY <1>1, HeadTailProperties
<1>6. NextIsAcquired(n)' = ~q[1]
  <2>1. CASE MonitorAcquired(n)
    BY <1>1, <1>3, <1>4, <2>1 DEF MonitorAcquired, NextIsAcquired
  <2>2. CASE MonitorLost(n)
    BY <1>1, <1>3, <1>4, <2>2 DEF MonitorLost, NextIsAcquired
  <2> QED
    BY <2>1, <2>2
<1>7. q[1] \in BOOLEAN
  BY <1>3
<1>8. Alternates(n)'
  <2>1. notifyCh'[n] = Tail(q) /\ role'[n] = role[n]
    BY <1>1
  <2> HIDE DEF q
  <2> QED
    BY <2>1, <1>3, <1>4, <1>6, <1>7 DEF Alternates
<1>9. \A m \in Nodes \ {n} : Alternates(m) => Alternates(m)'
  BY AlternatesFrame DEF MonitorAcquired, MonitorLost
<1> QED
  BY <1>8, <1>9

\* The pending notifications keep alternating and keep telling the role.
LEMMA AlternatesInductive ==
    ASSUME LeadershipTypeOK, \A n \in Nodes : Alternates(n) /\ Owned(n),
           [LeadershipNext]_leadershipVars
    PROVE  \A n \in Nodes : Alternates(n)'
<1> USE DEF LeadershipTypeOK, raftVars, monitorVars, loopVars
<1>1. ASSUME NEW n \in Nodes, Elect(n) PROVE \A m \in Nodes : Alternates(m)'
  <2>1. /\ role[n] = IF TRUE THEN "follower" ELSE "leader"
        /\ role' = [role EXCEPT ![n] = IF TRUE THEN "leader" ELSE "follower"]
        /\ notifyCh' = [notifyCh EXCEPT ![n] = Append(@, TRUE)]
        /\ UNCHANGED <<monitor, leaderLoopCancel>>
    BY <1>1 DEF Elect, Notify
  <2> QED
    BY <2>1, AlternatesPush
<1>2. ASSUME NEW n \in Nodes, StepDown(n) \/ TransferSucceeded(n)
      PROVE  \A m \in Nodes : Alternates(m)'
  <2>1. /\ role[n] = IF FALSE THEN "follower" ELSE "leader"
        /\ role' = [role EXCEPT ![n] = IF FALSE THEN "leader" ELSE "follower"]
        /\ notifyCh' = [notifyCh EXCEPT ![n] = Append(@, FALSE)]
        /\ UNCHANGED <<monitor, leaderLoopCancel>>
    BY <1>2 DEF StepDown, TransferSucceeded, Notify
  <2> QED
    BY <2>1, AlternatesPush
<1>3. ASSUME NEW n \in Nodes, MonitorAcquired(n) \/ MonitorLost(n)
      PROVE  \A m \in Nodes : Alternates(m)'
  BY <1>3, AlternatesPop
<1>4. ASSUME NEW n \in Nodes, MonitorJoined(n) PROVE \A m \in Nodes : Alternates(m)'
  <2>1. Alternates(n)'
    BY <1>4 DEF MonitorJoined, Alternates, Consuming, NextIsAcquired
  <2> QED
    BY <1>4, <2>1, AlternatesFrame DEF MonitorJoined
<1>5. ASSUME NEW n \in Nodes, MonitorShutdown(n) \/ MonitorExit(n)
      PROVE  \A m \in Nodes : Alternates(m)'
  <2>1. ~Consuming(n)'
    BY <1>5 DEF MonitorShutdown, MonitorExit, Consuming
  <2> QED
    BY <1>5, <2>1, AlternatesFrame DEF MonitorShutdown, MonitorExit, Alternates
<1>6. ASSUME NEW n \in Nodes, RaftShutdown(n) PROVE \A m \in Nodes : Alternates(m)'
  <2> DEFINE q == notifyCh[n]
  <2>1. /\ q \in Seq(BOOLEAN) /\ role'[n] = "shutdown"
        /\ UNCHANGED <<monitor, leaderLoopCancel>>
        /\ \/ role[n] = "leader" /\ notifyCh'[n] = Append(q, FALSE)
           \/ notifyCh'[n] = q
           \/ NotifyCap < Len(q) /\ notifyCh'[n] = SubSeq(q, 1, NotifyCap)
    <3>1. /\ q \in Seq(BOOLEAN) /\ Len(q) \in Nat /\ role'[n] = "shutdown"
          /\ UNCHANGED <<monitor, leaderLoopCancel>>
      BY <1>6 DEF RaftShutdown
    <3>2. notifyCh'[n] = IF role[n] = "leader" /\ Len(q) < NotifyCap
                         THEN Append(q, FALSE)
                         ELSE IF RaftRuns(n) THEN q ELSE SubSeq(q, 1, NotifyCap)
      BY <1>6 DEF RaftShutdown
    <3>3. ~RaftRuns(n) => NotifyCap < Len(q)
      BY <3>1, NotifyCapAssumption DEF RaftRuns
    <3> HIDE DEF q
    <3> QED
      BY <3>1, <3>2, <3>3
  <2>2. SUFFICES ASSUME Consuming(n)
                 PROVE  /\ Alternating(notifyCh'[n])
                        /\ notifyCh'[n] # <<>> => notifyCh'[n][1] = NextIsAcquired(n)
    <3>1. Alternates(n)'
      BY <2>1, <2>2 DEF Alternates, Consuming, NextIsAcquired
    <3> QED
      BY <1>6, <3>1, AlternatesFrame DEF RaftShutdown
  <2>3. Alternating(q) /\ (q # <<>> => q[1] = NextIsAcquired(n))
    BY <2>2 DEF Alternates
  <2>4. CASE role[n] = "leader" /\ notifyCh'[n] = Append(q, FALSE)
    <3>1. IF q = <<>> THEN ~NextIsAcquired(n) ELSE q[Len(q)] = TRUE
      BY <2>2, <2>4 DEF Alternates
    <3> HIDE DEF q
    <3>2. /\ Alternating(Append(q, FALSE))
          /\ Append(q, FALSE)[1] = IF q = <<>> THEN FALSE ELSE q[1]
      BY <2>1, <2>3, <3>1, PushAlternating
    <3>3. NextIsAcquired(n) \in BOOLEAN
      BY DEF NextIsAcquired
    <3>4. Append(q, FALSE)[1] = NextIsAcquired(n)
      <4>1. CASE q = <<>>
        BY <3>1, <3>2, <3>3, <4>1
      <4>2. CASE q # <<>>
        BY <2>3, <3>2, <4>2
      <4> QED
        BY <4>1, <4>2
    <3> QED
      BY <2>4, <3>2, <3>4
  <2>5. CASE notifyCh'[n] = q
    BY <2>3, <2>5
  <2>6. CASE NotifyCap < Len(q) /\ notifyCh'[n] = SubSeq(q, 1, NotifyCap)
    <3>1. q # <<>>
      BY <2>1, <2>6, NotifyCapAssumption, EmptySeq
    <3> HIDE DEF q
    <3> QED
      BY <2>1, <2>3, <2>6, <3>1, CutAlternating, NotifyCapAssumption
  <2> QED
    BY <2>1, <2>4, <2>5, <2>6
<1>7. ASSUME NEW n \in Nodes, Restart(n) PROVE \A m \in Nodes : Alternates(m)'
  <2>1. Alternates(n)'
    BY <1>7, EmptySeq DEF Restart, Alternates, Alternating, Consuming, NextIsAcquired
  <2> QED
    BY <1>7, <2>1, AlternatesFrame DEF Restart
<1>8. CASE UNCHANGED <<role, notifyCh, monitor, leaderLoopCancel>>
  BY <1>8, AlternatesFrame
<1> QED
  BY <1>1, <1>2, <1>3, <1>4, <1>5, <1>6, <1>7, <1>8 DEF LeadershipNext,
     LocalStep, MonitorStep, ElectElsewhere, leadershipVars, BarrierTaken,
     BarrierNotLeader, BarrierError, BarrierLost, EstablishChecked,
     SetConsistentReadReady, EstablishFailed, TransferFailed,
     RevokeLeadership, WaitPoll, SleepStopped, SleepElapsed, CancelCtx,
     CloseShutdownCh, BarrierCommitted, BarrierApplied

-----------------------------------------------------------------------------
\* A loop the monitor has no reason to stop keeps its barrier in the latest
\* leadership: an election always leaves a notification in the channel, and
\* the monitor starts a fresh loop for it.
LEMMA CurrentInductive ==
    ASSUME LeadershipTypeOK, LeadershipInv, [LeadershipNext]_leadershipVars
    PROVE  \A n \in Nodes : Current(n)'
<1> USE DEF LeadershipTypeOK, LeadershipInv, Current, BarrierSent,
            raftVars, monitorVars, loopVars, Goto
<1>1. ASSUME NEW n \in Nodes, Elect(n) PROVE \A m \in Nodes : Current(m)'
  <2>1. notifyCh'[n] # <<>>
    BY <1>1, AppendProperties DEF Elect, Notify
  <2> QED
    BY <1>1, <2>1 DEF Elect, Notify
<1>2. ASSUME NEW n \in Nodes, StepDown(n) \/ TransferSucceeded(n)
      PROVE  \A m \in Nodes : Current(m)'
  <2>1. notifyCh'[n] # <<>>
    <3>1. notifyCh'[n] = Append(notifyCh[n], FALSE)
      BY <1>2 DEF StepDown, TransferSucceeded, Notify
    <3>2. notifyCh[n] \in Seq(BOOLEAN)
      OBVIOUS
    <3>3. Append(notifyCh[n], FALSE) # <<>>
      BY <3>2, AppendProperties
    <3> QED
      BY <3>1, <3>3
  <2> QED
    BY <1>2, <2>1 DEF StepDown, TransferSucceeded, Notify
<1>3. ASSUME NEW n \in Nodes, RaftShutdown(n) PROVE \A m \in Nodes : Current(m)'
  <2>1. notifyCh'[n] = <<>> => notifyCh[n] = <<>>
    <3> DEFINE q == notifyCh[n]
    <3>1. q \in Seq(BOOLEAN) /\ Append(q, FALSE) # <<>>
      BY AppendProperties
    <3>2. ~RaftRuns(n) => SubSeq(q, 1, NotifyCap) # <<>>
      <4>1. ~RaftRuns(n) => \A i \in 1 .. NotifyCap : q[i] \in BOOLEAN
        BY ElementOfSeq, NotifyCapAssumption DEF RaftRuns
      <4>2. ~RaftRuns(n) => Len(SubSeq(q, 1, NotifyCap)) = NotifyCap
        BY <4>1, SubSeqProperties, NotifyCapAssumption
      <4> QED
        BY <4>2, EmptySeq, NotifyCapAssumption
    <3>3. notifyCh'[n] = IF role[n] = "leader" /\ Len(q) < NotifyCap
                         THEN Append(q, FALSE)
                         ELSE IF RaftRuns(n) THEN q ELSE SubSeq(q, 1, NotifyCap)
      BY <1>3 DEF RaftShutdown
    <3> HIDE DEF q
    <3>4. notifyCh'[n] = <<>> => q = <<>>
      BY <3>1, <3>2, <3>3
    <3> QED
      BY <3>4 DEF q
  <2>2. /\ UNCHANGED <<term, monitor, loop, barrierTerm>>
        /\ \A m \in Nodes \ {n} : notifyCh'[m] = notifyCh[m]
    BY <1>3 DEF RaftShutdown
  <2> QED
    BY <2>1, <2>2
<1>4. ASSUME NEW n \in Nodes, MonitorAcquired(n) PROVE \A m \in Nodes : Current(m)'
  <2>1. ~leaderLoopCancel[n]
    <3>1. Consuming(n) /\ notifyCh[n] # <<>> /\ Head(notifyCh[n])
      BY <1>4 DEF MonitorAcquired, Consuming
    <3>2. notifyCh[n][1] = NextIsAcquired(n) /\ Alternating(notifyCh[n])
      BY <3>1 DEF Alternates
    <3>3. Head(notifyCh[n]) = notifyCh[n][1]
      BY <3>1, <3>2, PopAlternating
    <3> QED
      BY <1>4, <3>1, <3>2, <3>3 DEF MonitorAcquired, NextIsAcquired
  <2>2. /\ loop' = [loop EXCEPT ![n] = "reconcile"]
        /\ UNCHANGED <<term, monitor, barrierTerm>>
        /\ \A m \in Nodes \ {n} : notifyCh'[m] = notifyCh[m]
    BY <1>4, <2>1 DEF MonitorAcquired
  <2> QED
    BY <2>2
<1>5. ASSUME NEW n \in Nodes, MonitorLost(n) PROVE \A m \in Nodes : Current(m)'
  <2>1. leaderLoopCancel[n] => monitor'[n] = "joining"
    BY <1>5 DEF MonitorLost
  <2>2. ~leaderLoopCancel[n] => loop[n] = "none"
    BY DEF Owned
  <2>3. /\ UNCHANGED <<term, loop, barrierTerm>>
        /\ \A m \in Nodes \ {n} : notifyCh'[m] = notifyCh[m] /\ monitor'[m] = monitor[m]
    BY <1>5 DEF MonitorLost
  <2> QED
    BY <2>1, <2>2, <2>3
<1>6. ASSUME NEW n \in Nodes, MonitorJoined(n) PROVE \A m \in Nodes : Current(m)'
  BY <1>6 DEF MonitorJoined
<1>7. ASSUME NEW n \in Nodes, MonitorShutdown(n) PROVE \A m \in Nodes : Current(m)'
  BY <1>7 DEF MonitorShutdown
<1>8. ASSUME NEW n \in Nodes, MonitorExit(n) PROVE \A m \in Nodes : Current(m)'
  BY <1>8 DEF MonitorExit
<1>9. ASSUME NEW n \in Nodes, BarrierTaken(n) PROVE \A m \in Nodes : Current(m)'
  BY <1>9 DEF BarrierTaken
<1>10. ASSUME NEW n \in Nodes, BarrierNotLeader(n) PROVE \A m \in Nodes : Current(m)'
  BY <1>10 DEF BarrierNotLeader
<1>11. ASSUME NEW n \in Nodes, BarrierError(n) PROVE \A m \in Nodes : Current(m)'
  BY <1>11 DEF BarrierError
<1>12. ASSUME NEW n \in Nodes, BarrierLost(n) PROVE \A m \in Nodes : Current(m)'
  BY <1>12 DEF BarrierLost
<1>13. ASSUME NEW n \in Nodes, EstablishChecked(n) PROVE \A m \in Nodes : Current(m)'
  BY <1>13 DEF EstablishChecked
<1>14. ASSUME NEW n \in Nodes, SetConsistentReadReady(n) PROVE \A m \in Nodes : Current(m)'
  BY <1>14 DEF SetConsistentReadReady
<1>15. ASSUME NEW n \in Nodes, EstablishFailed(n) PROVE \A m \in Nodes : Current(m)'
  BY <1>15 DEF EstablishFailed
<1>16. ASSUME NEW n \in Nodes, TransferFailed(n) PROVE \A m \in Nodes : Current(m)'
  BY <1>16 DEF TransferFailed
<1>17. ASSUME NEW n \in Nodes, RevokeLeadership(n) PROVE \A m \in Nodes : Current(m)'
  BY <1>17 DEF RevokeLeadership
<1>18. ASSUME NEW n \in Nodes, WaitPoll(n) PROVE \A m \in Nodes : Current(m)'
  BY <1>18 DEF WaitPoll
<1>19. ASSUME NEW n \in Nodes, SleepStopped(n) PROVE \A m \in Nodes : Current(m)'
  BY <1>19 DEF SleepStopped
<1>20. ASSUME NEW n \in Nodes, SleepElapsed(n) PROVE \A m \in Nodes : Current(m)'
  BY <1>20 DEF SleepElapsed
<1>21. ASSUME NEW n \in Nodes, CancelCtx(n) PROVE \A m \in Nodes : Current(m)'
  BY <1>21 DEF CancelCtx
<1>22. ASSUME NEW n \in Nodes, CloseShutdownCh(n) PROVE \A m \in Nodes : Current(m)'
  BY <1>22 DEF CloseShutdownCh
<1>23. ASSUME NEW n \in Nodes, BarrierCommitted(n) PROVE \A m \in Nodes : Current(m)'
  BY <1>23 DEF BarrierCommitted
<1>24. ASSUME NEW n \in Nodes, BarrierApplied(n) PROVE \A m \in Nodes : Current(m)'
  BY <1>24 DEF BarrierApplied
<1>25. ASSUME NEW n \in Nodes, Restart(n) PROVE \A m \in Nodes : Current(m)'
  BY <1>25 DEF Restart
<1>26. CASE ElectElsewhere
  BY <1>26 DEF ElectElsewhere
<1>27. CASE UNCHANGED leadershipVars
  BY <1>27 DEF leadershipVars
<1> QED
  BY <1>1, <1>2, <1>3, <1>4, <1>5, <1>6, <1>7, <1>8, <1>9, <1>10, <1>11,
     <1>12, <1>13, <1>14, <1>15, <1>16, <1>17, <1>18, <1>19, <1>20, <1>21,
     <1>22, <1>23, <1>24, <1>25, <1>26, <1>27 DEF LeadershipNext, LocalStep,
     MonitorStep

-----------------------------------------------------------------------------
\* The invariant holds initially.
LEMMA LeadershipInvInitial ==
    LeadershipInit => LeadershipTypeOK /\ LeadershipInv
<1> SUFFICES ASSUME LeadershipInit PROVE LeadershipTypeOK /\ LeadershipInv
  OBVIOUS
<1>1. LeadershipTypeOK
  BY EmptySeq DEF LeadershipInit, LeadershipTypeOK, Roles, MonitorStates, LoopStates
<1>2. ASSUME NEW n \in Nodes PROVE Alternates(n) /\ Owned(n) /\ Current(n)
  BY EmptySeq DEF LeadershipInit, Alternates, Alternating, Owned, Current,
                  Consuming, NextIsAcquired, BarrierSent
<1> QED
  BY <1>1, <1>2 DEF LeadershipInv

\* The invariant is inductive.
LEMMA LeadershipInvInductive ==
    LeadershipTypeOK /\ LeadershipInv /\ [LeadershipNext]_leadershipVars
        => LeadershipTypeOK' /\ LeadershipInv'
  BY LeadershipTypeInductive, AlternatesInductive, OwnedInductive, CurrentInductive
     DEF LeadershipInv

\* What the invariant says of the monitor and of the flag.
LEMMA LeadershipInvImplies ==
    LeadershipTypeOK /\ LeadershipInv
        => MonitorInStep /\ NoReadyAfterJoin /\ DrainedReadyIsCurrent
<1> SUFFICES ASSUME LeadershipTypeOK, LeadershipInv
             PROVE  MonitorInStep /\ NoReadyAfterJoin /\ DrainedReadyIsCurrent
  OBVIOUS
<1> USE DEF LeadershipTypeOK, LeadershipInv
<1>1. MonitorInStep
  <2> SUFFICES ASSUME NEW n \in Nodes, monitor[n] = "select", notifyCh[n] # <<>>
               PROVE  Head(notifyCh[n]) = ~leaderLoopCancel[n]
    BY DEF MonitorInStep
  <2>1. Alternates(n) /\ Consuming(n)
    BY DEF Consuming
  <2>2. Head(notifyCh[n]) = notifyCh[n][1]
    BY PopAlternating, <2>1 DEF Alternates
  <2> QED
    BY <2>1, <2>2 DEF Alternates, NextIsAcquired
<1>2. NoReadyAfterJoin
  BY DEF NoReadyAfterJoin, Owned
<1>3. DrainedReadyIsCurrent
  BY DEF DrainedReadyIsCurrent, Owned, Current, BarrierSent, Alternates,
         Consuming, NextIsAcquired
<1> QED
  BY <1>1, <1>2, <1>3

\* In every behaviour of the leadership machinery, with any number of nodes,
\* elections, crashes and shutdowns and any channel capacity, the monitor
\* stays in step with raft, the flag never outlives its loop, and a flag seen
\* with an idle monitor vouches for the latest leadership.
THEOREM LeadershipSafety ==
    LeadershipSpec =>
        [](LeadershipTypeOK /\ MonitorInStep /\ NoReadyAfterJoin /\ DrainedReadyIsCurrent)
<1>1. LeadershipInit => LeadershipTypeOK /\ LeadershipInv
  BY LeadershipInvInitial
<1>2. LeadershipTypeOK /\ LeadershipInv /\ [LeadershipNext]_leadershipVars
          => LeadershipTypeOK' /\ LeadershipInv'
  BY LeadershipInvInductive
<1>3. LeadershipTypeOK /\ LeadershipInv
          => MonitorInStep /\ NoReadyAfterJoin /\ DrainedReadyIsCurrent
  BY LeadershipInvImplies
<1> QED
  BY <1>1, <1>2, <1>3, PTL DEF LeadershipSpec

\* The type invariant of the leadership machinery (newRaft, leaderLoop).
COROLLARY LeadershipTypes == LeadershipSpec => []LeadershipTypeOK
BY LeadershipSafety, PTL

\* monitorLeadership never meets a loss without a loop to stop, nor a gain
\* with one still running (raft.go, 198 to 227).
COROLLARY MonitorStaysInStep == LeadershipSpec => []MonitorInStep
BY LeadershipSafety, PTL

\* Once monitorLeadership has joined the loop of a lost leadership, the flag
\* that linearizable reads check is down (revokeLeadership).
COROLLARY FlagEndsWithLoop == LeadershipSpec => []NoReadyAfterJoin
BY LeadershipSafety, PTL

-----------------------------------------------------------------------------
(* ConsistentRead: every acknowledged write is either older than the       *)
(* current term, and then behind the barrier of its leader, or             *)
(* acknowledged by that leader, and then applied to the store it reads     *)
(* from.                                                                   *)

\* Terms only grow, and each one has at most one leader.
Terms ==
    /\ \A n \in Nodes :
        /\ term[n] <= curTerm
        /\ barrierTerm[n] <= term[n]
        /\ role[n] = "leader" => term[n] > 0
    /\ \A m, n \in Nodes : m # n /\ term[m] = term[n] => term[m] = 0

\* Nobody is ahead of the log, and a request in progress has a node.
Bounds ==
    /\ acked <= committed
    /\ \A c \in Clients :
        /\ pc[c] # "idle" => at[c] \in Nodes
        /\ pc[c] = "applying" => index[c] <= committed
        /\ floor[c] <= acked

\* The barrier of the node's loop is committed.
Past(n) == loop[n] \in {"committed", "establish", "setReady", "established"}

\* The store of the node holds write i, or will when it reaches the barrier.
Covers(n, i) == i <= barrierIndex[n] \/ i <= applied[n]

\* The loop gets past the barrier only when the FSM has reached it.
BarrierCaughtUp ==
    \A n \in Nodes :
        Past(n) /\ loop[n] # "committed" => barrierIndex[n] <= applied[n]

\* The barrier of the current term covers the acknowledged writes, and the
\* writes that older leaders have yet to acknowledge.
CurrentBarrierCovers ==
    \A n \in Nodes : Past(n) /\ barrierTerm[n] = curTerm =>
        /\ Covers(n, acked)
        /\ \A c \in Clients :
            pc[c] = "applying" /\ at[c] # n => index[c] <= barrierIndex[n]

\* A verified read is covered by the barrier of the leadership it verified.
VerifiedCovered ==
    \A c \in Clients :
        /\ pc[c] \in {"check", "poll"}
        /\ Past(at[c]) /\ barrierTerm[at[c]] = term[at[c]]
        => Covers(at[c], floor[c])

\* What a vouched read is about to return, or has returned, is fresh.
VouchedCovered ==
    \A c \in Clients :
        /\ pc[c] = "read" /\ vouched[c] => floor[c] <= applied[at[c]]
        /\ pc[c] = "returned" /\ vouched[c] => floor[c] <= index[c]

ReadInv ==
    /\ Terms
    /\ Bounds
    /\ BarrierCaughtUp
    /\ CurrentBarrierCovers
    /\ VerifiedCovered
    /\ VouchedCovered

-----------------------------------------------------------------------------
\* What the steps a request takes no part in do to the terms, the roles and
\* the barriers: they elect nobody, and bring no loop past its barrier.
LEMMA LocalStepFrame ==
    ASSUME LeadershipTypeOK, NEW n \in Nodes, LocalStep(n)
    PROVE  /\ UNCHANGED <<curTerm, term>>
           /\ \A m \in Nodes :
                /\ role'[m] = "leader" => role[m] = "leader"
                /\ barrierTerm'[m] \in {barrierTerm[m], term[m]}
                /\ Past(m)' => Past(m) /\ barrierTerm'[m] = barrierTerm[m]
                /\ Past(m)' /\ loop'[m] # "committed" => loop[m] # "committed"
<1> DEFINE Frame == /\ UNCHANGED <<curTerm, term>>
                    /\ \A m \in Nodes :
                        /\ role'[m] = "leader" => role[m] = "leader"
                        /\ barrierTerm'[m] \in {barrierTerm[m], term[m]}
                        /\ Past(m)' => Past(m) /\ barrierTerm'[m] = barrierTerm[m]
                        /\ Past(m)' /\ loop'[m] # "committed" => loop[m] # "committed"
<1> USE DEF LeadershipTypeOK, raftVars, monitorVars, loopVars, Goto, Past
<1>1. CASE StepDown(n)
  BY <1>1 DEF StepDown
<1>2. CASE MonitorAcquired(n)
  BY <1>2 DEF MonitorAcquired
<1>3. CASE MonitorLost(n)
  BY <1>3 DEF MonitorLost
<1>4. CASE MonitorJoined(n)
  BY <1>4 DEF MonitorJoined
<1>5. CASE MonitorShutdown(n)
  BY <1>5 DEF MonitorShutdown
<1>6. CASE MonitorExit(n)
  BY <1>6 DEF MonitorExit
<1>7. CASE BarrierTaken(n)
  BY <1>7 DEF BarrierTaken
<1>8. CASE BarrierNotLeader(n)
  BY <1>8 DEF BarrierNotLeader
<1>9. CASE BarrierError(n)
  BY <1>9 DEF BarrierError
<1>10. CASE BarrierLost(n)
  BY <1>10 DEF BarrierLost
<1>11. CASE EstablishChecked(n)
  BY <1>11 DEF EstablishChecked
<1>12. CASE SetConsistentReadReady(n)
  BY <1>12 DEF SetConsistentReadReady
<1>13. CASE EstablishFailed(n)
  BY <1>13 DEF EstablishFailed
<1>14. CASE TransferSucceeded(n)
  BY <1>14 DEF TransferSucceeded
<1>15. CASE TransferFailed(n)
  BY <1>15 DEF TransferFailed
<1>16. CASE RevokeLeadership(n)
  BY <1>16 DEF RevokeLeadership
<1>17. CASE WaitPoll(n)
  BY <1>17 DEF WaitPoll
<1>18. CASE SleepStopped(n)
  BY <1>18 DEF SleepStopped
<1>19. CASE SleepElapsed(n)
  BY <1>19 DEF SleepElapsed
<1>20. CASE CancelCtx(n)
  BY <1>20 DEF CancelCtx
<1>21. CASE CloseShutdownCh(n)
  BY <1>21 DEF CloseShutdownCh
<1>22. CASE RaftShutdown(n)
  BY <1>22 DEF RaftShutdown
<1> QED
  BY <1>1, <1>2, <1>3, <1>4, <1>5, <1>6, <1>7, <1>8, <1>9, <1>10, <1>11,
     <1>12, <1>13, <1>14, <1>15, <1>16, <1>17, <1>18, <1>19, <1>20, <1>21,
     <1>22 DEF LocalStep, MonitorStep

\* The composition takes only steps of Leadership on Leadership's variables.
LEMMA ComposesLeadership ==
    /\ Init => LeadershipInit
    /\ [Next]_vars => [LeadershipNext]_leadershipVars
<1>1. Init => LeadershipInit
  BY DEF Init
<1>2. [Next]_vars => [LeadershipNext]_leadershipVars
  BY DEF Next, vars, LeadershipNext, ElectOver, FSMApply, BarrierLogged, BarrierReached, Crash,
         Propose, Query, WriteCommitted, WriteRejected, WriteFailed,
         LostWriteResolved, WriteAcked, LeaderVerified, VerifyFailed, FlagUp,
         FlagDown, PollGivenUp, ReadLocal, Received
<1> QED
  BY <1>1, <1>2

-----------------------------------------------------------------------------
\* The type invariant of the composition is inductive.
LEMMA TypeInductive ==
    TypeOK /\ Bounds /\ [Next]_vars => TypeOK'
<1> SUFFICES ASSUME TypeOK, Bounds, [Next]_vars PROVE TypeOK'
  OBVIOUS
<1>0. LeadershipTypeOK'
  BY ComposesLeadership, LeadershipTypeInductive DEF TypeOK
<1> USE <1>0 DEF TypeOK, RequestStates, Step, Return, Larger, logVars, requestVars, readVars
<1>1. ASSUME NEW n \in Nodes, FSMApply(n) PROVE TypeOK'
  <2>1. applied[n] + 1 \in Nat
    OBVIOUS
  <2>2. applied' \in [Nodes -> Nat]
    BY <1>1, <2>1 DEF FSMApply
  <2> QED
    BY <1>1, <2>2 DEF FSMApply
<1>2. ASSUME NEW n \in Nodes, BarrierLogged(n) PROVE TypeOK'
  BY <1>2 DEF BarrierLogged
<1>3. ASSUME NEW n \in Nodes, BarrierReached(n) PROVE TypeOK'
  BY <1>3 DEF BarrierReached
<1>4. ASSUME NEW n \in Nodes, Crash(n) PROVE TypeOK'
  <2>1. PICK i \in 0 .. applied[n] : applied' = [applied EXCEPT ![n] = i]
    BY <1>4 DEF Crash
  <2> QED
    BY <1>4, <2>1 DEF Crash
<1>5. CASE UNCHANGED readVars
  BY <1>5
<1>6. ASSUME NEW n \in Nodes, NEW c \in Clients, Propose(c, n) \/ Query(c, n)
      PROVE  TypeOK'
  BY <1>6 DEF Propose, Query
<1>7. ASSUME NEW c \in Clients, WriteCommitted(c) PROVE TypeOK'
  BY <1>7 DEF WriteCommitted
<1>8. ASSUME NEW c \in Clients, WriteRejected(c) PROVE TypeOK'
  BY <1>8 DEF WriteRejected
<1>9. ASSUME NEW c \in Clients, WriteFailed(c) PROVE TypeOK'
  BY <1>9 DEF WriteFailed
<1>10. ASSUME NEW c \in Clients, LostWriteResolved(c) PROVE TypeOK'
  BY <1>10 DEF LostWriteResolved
<1>11. ASSUME NEW c \in Clients, WriteAcked(c) PROVE TypeOK'
  BY <1>11 DEF WriteAcked
<1>12. ASSUME NEW c \in Clients, LeaderVerified(c) PROVE TypeOK'
  BY <1>12 DEF LeaderVerified
<1>13. ASSUME NEW c \in Clients, VerifyFailed(c) PROVE TypeOK'
  BY <1>13 DEF VerifyFailed
<1>14. ASSUME NEW c \in Clients, FlagDown(c) PROVE TypeOK'
  BY <1>14 DEF FlagDown
<1>15. ASSUME NEW c \in Clients, PollGivenUp(c) PROVE TypeOK'
  BY <1>15 DEF PollGivenUp
<1>16. ASSUME NEW c \in Clients, ReadLocal(c) PROVE TypeOK'
  BY <1>16 DEF ReadLocal, Bounds
<1>17. ASSUME NEW c \in Clients, Received(c) PROVE TypeOK'
  BY <1>17 DEF Received
<1>18. ASSUME NEW c \in Clients, FlagUp(c, "check") \/ FlagUp(c, "poll")
      PROVE  TypeOK'
  BY <1>18 DEF FlagUp, MonitorIdle
<1>19. ASSUME NEW n \in Nodes, ElectOver(n) PROVE TypeOK'
  BY <1>19 DEF ElectOver
<1> QED
  BY <1>1, <1>2, <1>3, <1>4, <1>5, <1>6, <1>7, <1>8, <1>9, <1>10, <1>11,
     <1>12, <1>13, <1>14, <1>15, <1>16, <1>17, <1>18, <1>19 DEF Next, vars

-----------------------------------------------------------------------------
\* An election starts a term that nobody has had.
LEMMA ElectTerms ==
    ASSUME LeadershipTypeOK, Terms, NEW n \in Nodes,
           curTerm' = curTerm + 1,
           term' = [term EXCEPT ![n] = curTerm + 1],
           role' = [role EXCEPT ![n] = "leader"],
           barrierTerm' = barrierTerm
    PROVE  Terms'
<1>1. /\ curTerm \in Nat
      /\ \A m \in Nodes : term[m] \in Nat /\ barrierTerm[m] \in Nat
  BY DEF LeadershipTypeOK
<1>2. \A m \in Nodes : /\ term'[m] = IF m = n THEN curTerm + 1 ELSE term[m]
                       /\ m # n => role'[m] = role[m]
  BY DEF LeadershipTypeOK
<1>3. ASSUME NEW m \in Nodes
      PROVE  /\ term'[m] <= curTerm'
             /\ barrierTerm'[m] <= term'[m]
             /\ role'[m] = "leader" => term'[m] > 0
  <2>1. /\ term[m] <= curTerm /\ barrierTerm[m] <= term[m]
        /\ role[m] = "leader" => term[m] > 0
    BY DEF Terms
  <2> QED
    BY <1>1, <1>2, <2>1
<1>4. ASSUME NEW l \in Nodes, NEW m \in Nodes, l # m, term'[l] = term'[m]
      PROVE  term'[l] = 0
  <2>1. term[l] <= curTerm /\ term[m] <= curTerm
    BY DEF Terms
  <2>2. term'[l] = term[l] /\ term'[m] = term[m]
    BY <1>1, <1>2, <1>4, <2>1
  <2> QED
    BY <1>4, <2>2 DEF Terms
<1> QED
  BY <1>3, <1>4 DEF Terms

\* A term is kept when nobody is elected, and a barrier is sent in it.
LEMMA LocalTerms ==
    ASSUME LeadershipTypeOK, Terms, UNCHANGED <<curTerm, term>>,
           \A m \in Nodes : /\ role'[m] = "leader" => role[m] = "leader"
                            /\ barrierTerm'[m] \in {barrierTerm[m], term[m], 0}
    PROVE  Terms'
<1>1. ASSUME NEW m \in Nodes PROVE barrierTerm'[m] <= term[m]
  <2>1. term[m] \in Nat /\ barrierTerm[m] <= term[m]
    BY DEF LeadershipTypeOK, Terms
  <2>2. \/ barrierTerm'[m] = barrierTerm[m] \/ barrierTerm'[m] = term[m]
        \/ barrierTerm'[m] = 0
    OBVIOUS
  <2> QED
    BY <2>1, <2>2
<1> QED
  BY <1>1 DEF Terms

\* Only the leader of the current term can have sent a barrier in it.
LEMMA CurrentBarrierIsLeaders ==
    ASSUME LeadershipTypeOK, Terms, NEW m \in Nodes, NEW n \in Nodes,
           role[m] = "leader", term[m] = curTerm, barrierTerm[n] = curTerm
    PROVE  n = m
<1>1. term[n] \in Nat /\ curTerm \in Nat
  BY DEF LeadershipTypeOK
<1>2. term[n] <= curTerm /\ curTerm <= term[n] /\ curTerm > 0
  BY DEF Terms
<1>3. term[n] = term[m] /\ term[m] # 0
  BY <1>1, <1>2
<1> QED
  BY <1>3 DEF Terms

-----------------------------------------------------------------------------
\* The steps of a node outside any request preserve the invariant.
LEMMA ReadInvLeadershipStep ==
    ASSUME TypeOK, ReadInv, NEW n \in Nodes,
           \/ FSMApply(n) \/ BarrierLogged(n) \/ BarrierReached(n) \/ Crash(n)
           \/ ElectOver(n)
           \/ LocalStep(n) /\ UNCHANGED readVars
    PROVE  ReadInv'
<1> USE DEF ReadInv
<1>1. CASE LocalStep(n) /\ UNCHANGED readVars
  <2>1. /\ UNCHANGED <<curTerm, term>>
        /\ \A m \in Nodes :
            /\ role'[m] = "leader" => role[m] = "leader"
            /\ barrierTerm'[m] \in {barrierTerm[m], term[m]}
            /\ Past(m)' => Past(m) /\ barrierTerm'[m] = barrierTerm[m]
            /\ Past(m)' /\ loop'[m] # "committed" => loop[m] # "committed"
    BY <1>1, LocalStepFrame DEF TypeOK
  <2>2. UNCHANGED <<committed, applied, barrierIndex, acked, pc, at, index, floor, vouched>>
    BY <1>1 DEF readVars, logVars, requestVars
  <2>3. Terms'
    BY <2>1, LocalTerms DEF TypeOK
  <2>4. Bounds'
    BY <2>2 DEF Bounds
  <2>5. BarrierCaughtUp'
    BY <2>1, <2>2 DEF TypeOK, LeadershipTypeOK, BarrierCaughtUp
  <2>6. CurrentBarrierCovers'
    BY <2>1, <2>2 DEF TypeOK, LeadershipTypeOK, CurrentBarrierCovers, Covers
  <2>7. VerifiedCovered'
    BY <2>1, <2>2 DEF TypeOK, LeadershipTypeOK, VerifiedCovered, Covers, Bounds
  <2>8. VouchedCovered'
    BY <2>1, <2>2 DEF TypeOK, VouchedCovered, Bounds
  <2> QED
    BY <2>3, <2>4, <2>5, <2>6, <2>7, <2>8
<1>2. CASE ElectOver(n)
  <2>1. /\ curTerm' = curTerm + 1
        /\ term' = [term EXCEPT ![n] = curTerm + 1]
        /\ role' = [role EXCEPT ![n] = "leader"]
        /\ UNCHANGED <<loop, barrierTerm>>
        /\ UNCHANGED <<committed, applied, barrierIndex, acked, pc, at, index, floor, vouched>>
    BY <1>2 DEF ElectOver, Elect, loopVars, requestVars
  <2>2. Terms'
    BY <2>1, ElectTerms DEF TypeOK
  <2>3. \A m \in Nodes : barrierTerm'[m] # curTerm'
    <3>1. \A m \in Nodes : barrierTerm[m] <= term[m] /\ term[m] <= curTerm
      BY DEF Terms
    <3> QED
      BY <2>1, <3>1 DEF TypeOK, LeadershipTypeOK
  <2>4. ASSUME NEW m \in Nodes, barrierTerm'[m] = term'[m]
        PROVE  barrierTerm[m] = term[m]
    <3>1. m # n
      BY <2>1, <2>3, <2>4 DEF TypeOK, LeadershipTypeOK
    <3> QED
      BY <2>1, <2>4, <3>1 DEF TypeOK, LeadershipTypeOK
  <2>5. Bounds'
    BY <2>1 DEF Bounds
  <2>6. BarrierCaughtUp'
    BY <2>1 DEF BarrierCaughtUp, Past
  <2>7. CurrentBarrierCovers'
    BY <2>3 DEF CurrentBarrierCovers
  <2>8. VerifiedCovered'
    BY <2>1, <2>4 DEF VerifiedCovered, Covers, Past, Bounds
  <2>9. VouchedCovered'
    BY <2>1 DEF VouchedCovered
  <2> QED
    BY <2>2, <2>5, <2>6, <2>7, <2>8, <2>9
<1>3. CASE BarrierLogged(n)
  <2>1. /\ UNCHANGED <<curTerm, role, term, barrierTerm>>
        /\ UNCHANGED <<committed, applied, acked, pc, at, index, floor, vouched>>
        /\ loop[n] = "inflight"
        /\ loop' = [loop EXCEPT ![n] = "committed"]
        /\ barrierIndex' = [barrierIndex EXCEPT ![n] = committed]
    BY <1>3 DEF BarrierLogged, BarrierCommitted, Goto, raftVars, requestVars
  <2>2. Terms'
    BY <2>1 DEF Terms
  <2>3. \A c \in Clients : floor[c] <= committed
    BY DEF TypeOK, Bounds
  <2>4. Bounds'
    BY <2>1 DEF TypeOK, Bounds
  <2>5. BarrierCaughtUp'
    BY <2>1 DEF TypeOK, LeadershipTypeOK, BarrierCaughtUp, Past
  <2>6. CurrentBarrierCovers'
    BY <2>1 DEF Bounds, TypeOK, LeadershipTypeOK, CurrentBarrierCovers, Covers, Past
  <2>7. VerifiedCovered'
    BY <2>1, <2>3 DEF TypeOK, LeadershipTypeOK, VerifiedCovered, Covers, Past, Bounds
  <2>8. VouchedCovered'
    BY <2>1 DEF TypeOK, VouchedCovered, Bounds
  <2> QED
    BY <2>2, <2>4, <2>5, <2>6, <2>7, <2>8
<1>4. CASE BarrierReached(n)
  <2>1. /\ UNCHANGED <<curTerm, role, term, barrierTerm>>
        /\ UNCHANGED <<committed, applied, barrierIndex, acked, pc, at, index, floor, vouched>>
        /\ loop[n] = "committed"
        /\ loop' = [loop EXCEPT ![n] = "establish"]
        /\ applied[n] >= barrierIndex[n]
    BY <1>4 DEF BarrierReached, BarrierApplied, Goto, raftVars, readVars, logVars,
                requestVars
  <2>2. Terms'
    BY <2>1 DEF Terms
  <2>3. Bounds'
    BY <2>1 DEF TypeOK, Bounds
  <2>4. BarrierCaughtUp'
    BY <2>1 DEF TypeOK, LeadershipTypeOK, BarrierCaughtUp, Past
  <2>5. CurrentBarrierCovers'
    BY <2>1 DEF TypeOK, LeadershipTypeOK, CurrentBarrierCovers, Covers, Past
  <2>6. VerifiedCovered'
    BY <2>1 DEF TypeOK, LeadershipTypeOK, VerifiedCovered, Covers, Past, Bounds
  <2>7. VouchedCovered'
    BY <2>1 DEF TypeOK, VouchedCovered, Bounds
  <2> QED
    BY <2>2, <2>3, <2>4, <2>5, <2>6, <2>7
<1>5. CASE Crash(n)
  <2>1. PICK i \in 0 .. applied[n] : applied' = [applied EXCEPT ![n] = i]
    BY <1>5 DEF Crash
  <2>2. /\ UNCHANGED <<curTerm, term, committed, acked, at, index, floor, vouched>>
        /\ role' = [role EXCEPT ![n] = "follower"]
        /\ loop' = [loop EXCEPT ![n] = "none"]
        /\ barrierTerm' = [barrierTerm EXCEPT ![n] = 0]
        /\ barrierIndex' = [barrierIndex EXCEPT ![n] = 0]
        /\ \A c \in Clients : /\ pc'[c] \in {pc[c], "lost", "idle"}
                              /\ pc'[c] = "lost" => pc[c] \in {"lost", "proposed"}
                              /\ at[c] = n => pc'[c] \in {"lost", "idle"}
    BY <1>5 DEF Crash, Restart
  <2>3. \A c \in Clients :
            pc'[c] \in {"applying", "check", "poll", "read", "returned"}
                => at[c] # n /\ pc'[c] = pc[c]
    BY <2>2
  <2>4. /\ ~Past(n)'
        /\ \A m \in Nodes : m # n =>
            /\ loop'[m] = loop[m] /\ barrierTerm'[m] = barrierTerm[m]
            /\ barrierIndex'[m] = barrierIndex[m] /\ applied'[m] = applied[m]
    BY <2>1, <2>2 DEF TypeOK, LeadershipTypeOK, Past
  <2>5. Terms'
    <3>1. \A m \in Nodes : /\ role'[m] = "leader" => role[m] = "leader"
                           /\ barrierTerm'[m] \in {barrierTerm[m], term[m], 0}
      BY <2>2 DEF TypeOK, LeadershipTypeOK
    <3> QED
      BY <2>2, <3>1, LocalTerms DEF TypeOK
  <2>6. Bounds'
    BY <2>2, <2>3 DEF TypeOK, Bounds
  <2>7. BarrierCaughtUp'
    BY <2>2, <2>4 DEF BarrierCaughtUp, Past
  <2>8. CurrentBarrierCovers'
    BY <2>2, <2>3, <2>4 DEF CurrentBarrierCovers, Covers, Past
  <2>9. VerifiedCovered'
    <3> SUFFICES ASSUME NEW c \in Clients, pc'[c] \in {"check", "poll"},
                        Past(at[c])', barrierTerm'[at'[c]] = term'[at'[c]]
                 PROVE  Covers(at[c], floor[c])'
      BY DEF VerifiedCovered
    <3>1. at[c] # n /\ pc'[c] = pc[c]
      BY <2>3
    <3>2. at[c] \in Nodes
      BY <3>1 DEF Bounds
    <3>3. at'[c] = at[c] /\ floor'[c] = floor[c] /\ term' = term
      BY <2>2
    <3>4. /\ loop'[at[c]] = loop[at[c]] /\ barrierTerm'[at[c]] = barrierTerm[at[c]]
          /\ barrierIndex'[at[c]] = barrierIndex[at[c]] /\ applied'[at[c]] = applied[at[c]]
      BY <2>4, <3>1, <3>2
    <3>5. Past(at[c]) /\ barrierTerm[at[c]] = term[at[c]]
      BY <3>3, <3>4 DEF Past
    <3>6. Covers(at[c], floor[c])
      BY <3>1, <3>5 DEF VerifiedCovered
    <3> QED
      BY <3>3, <3>4, <3>6 DEF Covers
  <2>10. VouchedCovered'
    BY <2>2, <2>3, <2>4 DEF VouchedCovered, Bounds
  <2> QED
    BY <2>5, <2>6, <2>7, <2>8, <2>9, <2>10
<1>6. CASE FSMApply(n)
  <2>1. /\ UNCHANGED <<curTerm, role, term, loop, barrierTerm, committed, barrierIndex>>
        /\ UNCHANGED <<acked, pc, at, index, floor, vouched>>
    BY <1>6 DEF FSMApply, leadershipVars, raftVars, loopVars, requestVars
  <2>2. \A m \in Nodes : /\ applied[m] \in Nat /\ applied'[m] \in Nat
                         /\ applied[m] <= applied'[m]
    <3>1. applied \in [Nodes -> Nat] /\ applied' = [applied EXCEPT ![n] = @ + 1]
      BY <1>6 DEF FSMApply, TypeOK
    <3> QED
      BY <3>1
  <2>3. Terms'
    BY <2>1 DEF Terms
  <2>4. Bounds'
    BY <2>1 DEF Bounds
  <2>5. BarrierCaughtUp'
    BY <2>1, <2>2 DEF TypeOK, LeadershipTypeOK, BarrierCaughtUp, Past
  <2>6. CurrentBarrierCovers'
    BY <2>1, <2>2 DEF TypeOK, LeadershipTypeOK, CurrentBarrierCovers, Covers, Past
  <2>7. VerifiedCovered'
    BY <2>1, <2>2, SMTT(30) DEF TypeOK, LeadershipTypeOK, VerifiedCovered, Covers, Past, Bounds
  <2>8. VouchedCovered'
    BY <2>1, <2>2 DEF TypeOK, VouchedCovered, Bounds
  <2> QED
    BY <2>3, <2>4, <2>5, <2>6, <2>7, <2>8
<1> QED
  BY <1>1, <1>2, <1>3, <1>4, <1>5, <1>6

-----------------------------------------------------------------------------
\* Requests change neither the terms nor where the barriers are.
LEMMA RequestFrame ==
    ASSUME Terms, BarrierCaughtUp,
           UNCHANGED <<leadershipVars, applied, barrierIndex>>
    PROVE  Terms' /\ BarrierCaughtUp'
BY DEF Terms, BarrierCaughtUp, Past, leadershipVars, raftVars, loopVars

\* A request that is over is covered by nothing and bounds nothing, also when
\* its write is committed afterwards.
LEMMA ReturnPreserves ==
    ASSUME TypeOK, ReadInv, NEW c \in Clients, NEW from, Return(c, from),
           committed' \in {committed, committed + 1},
           UNCHANGED <<leadershipVars, applied, barrierIndex, acked>>
    PROVE  ReadInv'
<1>1. Terms' /\ BarrierCaughtUp'
  BY RequestFrame DEF ReadInv
<1>2. \A d \in Clients :
        /\ d = c => pc'[d] = "idle" /\ floor'[d] = 0
        /\ d # c => /\ pc'[d] = pc[d] /\ at'[d] = at[d] /\ index'[d] = index[d]
                   /\ floor'[d] = floor[d] /\ vouched'[d] = vouched[d]
  BY DEF Return, Step, TypeOK
<1>3. Bounds'
  <2>1. committed \in Nat /\ acked \in Nat /\ index \in [Clients -> Nat]
    BY DEF TypeOK
  <2>2. committed <= committed'
    BY <2>1
  <2>3. acked' <= committed'
    <3>1. acked' = acked /\ acked <= committed
      BY DEF ReadInv, Bounds
    <3>2. committed' \in Nat
      BY <2>1
    <3> QED
      BY <2>1, <2>2, <3>1, <3>2
  <2>4. ASSUME NEW d \in Clients
        PROVE  /\ pc'[d] # "idle" => at'[d] \in Nodes
               /\ pc'[d] = "applying" => index'[d] <= committed'
               /\ floor'[d] <= acked'
    BY <1>2, <2>1, <2>2 DEF ReadInv, Bounds
  <2> QED
    BY <2>3, <2>4 DEF Bounds
<1>4. CurrentBarrierCovers'
  BY <1>2 DEF ReadInv, CurrentBarrierCovers, Covers, Past, leadershipVars,
              raftVars, loopVars
<1>5. VerifiedCovered' /\ VouchedCovered'
  <2>1. VerifiedCovered'
    BY <1>2 DEF ReadInv, VerifiedCovered, Covers, Past, leadershipVars, raftVars, loopVars
  <2>2. VouchedCovered'
    BY <1>2 DEF ReadInv, VouchedCovered
  <2> QED
    BY <2>1, <2>2
<1> QED
  BY <1>1, <1>3, <1>4, <1>5 DEF ReadInv

\* An acknowledged write is in the store of the leader that acknowledges it,
\* and behind the barrier of any other leader of the current term.
LEMMA AckPreserves ==
    ASSUME TypeOK, ReadInv, NEW c \in Clients, WriteAcked(c)
    PROVE  ReadInv'
<1>1. /\ pc[c] = "applying" /\ applied[at[c]] >= index[c]
      /\ acked' = Larger(acked, index[c])
      /\ UNCHANGED <<leadershipVars, committed, applied, barrierIndex>>
  BY DEF WriteAcked, Return, Step, logVars
<1>2. \A d \in Clients :
        /\ d = c => pc'[d] = "idle" /\ floor'[d] = 0
        /\ d # c => /\ pc'[d] = pc[d] /\ at'[d] = at[d] /\ index'[d] = index[d]
                   /\ floor'[d] = floor[d] /\ vouched'[d] = vouched[d]
  BY DEF WriteAcked, Return, Step, TypeOK
<1>3. /\ acked \in Nat /\ committed \in Nat /\ index[c] \in Nat
      /\ floor \in [Clients -> Nat]
  BY DEF TypeOK
<1>4. acked <= acked' /\ acked' \in {acked, index[c]}
  BY <1>1, <1>3 DEF Larger
<1>5. at[c] \in Nodes /\ index[c] <= committed
  BY <1>1 DEF ReadInv, Bounds
<1>6. Terms' /\ BarrierCaughtUp'
  BY <1>1, RequestFrame DEF ReadInv
<1>7. Bounds'
  <2>1. acked' <= committed'
    BY <1>1, <1>4, <1>5 DEF ReadInv, Bounds
  <2>2. ASSUME NEW d \in Clients PROVE floor'[d] <= acked'
    <3>1. floor[d] <= acked /\ floor[d] \in Nat
      BY <1>3 DEF ReadInv, Bounds
    <3>2. floor'[d] \in {0, floor[d]}
      BY <1>2
    <3> QED
      BY <1>3, <1>4, <3>1, <3>2
  <2>3. ASSUME NEW d \in Clients
        PROVE  /\ pc'[d] # "idle" => at'[d] \in Nodes
               /\ pc'[d] = "applying" => index'[d] <= committed'
    BY <1>1, <1>2 DEF ReadInv, Bounds
  <2> QED
    BY <2>1, <2>2, <2>3 DEF Bounds
<1>8. CurrentBarrierCovers'
  <2>1. ASSUME NEW n \in Nodes, Past(n), barrierTerm[n] = curTerm
        PROVE  Covers(n, acked)' /\ Covers(n, index[c])
    <3>1. Covers(n, index[c])
      BY <1>1, <2>1 DEF ReadInv, CurrentBarrierCovers, Covers
    <3>2. Covers(n, acked)
      BY <2>1 DEF ReadInv, CurrentBarrierCovers
    <3> QED
      BY <1>1, <1>4, <3>1, <3>2 DEF Covers
  <2> QED
    BY <1>1, <1>2, <2>1 DEF ReadInv, CurrentBarrierCovers, Past, leadershipVars,
                            raftVars, loopVars
<1>9. VerifiedCovered' /\ VouchedCovered'
  BY <1>1, <1>2 DEF ReadInv, VerifiedCovered, VouchedCovered, Covers, Past,
                    leadershipVars, raftVars, loopVars
<1> QED
  BY <1>6, <1>7, <1>8, <1>9 DEF ReadInv

\* A write is committed at the one node whose barrier need not cover it.
LEMMA CommitPreserves ==
    ASSUME TypeOK, ReadInv, NEW c \in Clients,
           WriteCommitted(c)
    PROVE  ReadInv'
<1> USE DEF ReadInv
<1>1. /\ pc[c] = "proposed" /\ pc' = [pc EXCEPT ![c] = "applying"]
      /\ role[at[c]] = "leader" /\ term[at[c]] = curTerm
      /\ committed' = committed + 1
      /\ index' = [index EXCEPT ![c] = committed + 1]
      /\ UNCHANGED <<leadershipVars, applied, barrierIndex, acked>>
      /\ UNCHANGED <<at, floor, vouched>>
  BY DEF WriteCommitted, Step, IsCurrentLeader
<1>2. at[c] \in Nodes
  BY <1>1 DEF Bounds
<1>3. \A n \in Nodes : barrierTerm[n] = curTerm => n = at[c]
  BY <1>1, <1>2, CurrentBarrierIsLeaders DEF TypeOK
<1>4. Terms' /\ BarrierCaughtUp'
  BY <1>1, RequestFrame
<1>5. Bounds'
  <2>1. committed \in Nat /\ acked \in Nat /\ index \in [Clients -> Nat]
    BY DEF TypeOK
  <2>2. acked' <= committed'
    BY <1>1, <2>1 DEF Bounds
  <2>3. ASSUME NEW d \in Clients, pc'[d] = "applying"
        PROVE  index'[d] <= committed'
    <3>1. CASE d = c
      BY <1>1, <2>1, <3>1
    <3>2. CASE d # c
      <4>1. index[d] <= committed /\ index[d] \in Nat /\ index'[d] = index[d]
        BY <1>1, <2>1, <2>3, <3>2 DEF TypeOK, Bounds
      <4> QED
        BY <1>1, <2>1, <4>1
    <3> QED
      BY <3>1, <3>2
  <2>4. \A d \in Clients : /\ pc'[d] # "idle" => at'[d] \in Nodes
                           /\ floor'[d] <= acked'
    BY <1>1, <1>2 DEF TypeOK, Bounds
  <2> QED
    BY <2>2, <2>3, <2>4 DEF Bounds
<1>6. CurrentBarrierCovers'
  BY <1>1, <1>3 DEF TypeOK, CurrentBarrierCovers, Covers, Past, leadershipVars,
         raftVars, loopVars
<1>7. VerifiedCovered'
  BY <1>1 DEF TypeOK, Bounds, VerifiedCovered, Covers, Past, leadershipVars,
         raftVars, loopVars
<1>8. VouchedCovered'
  BY <1>1 DEF TypeOK, Bounds, VouchedCovered
<1> QED
  BY <1>4, <1>5, <1>6, <1>7, <1>8

\* The leadership that VerifyLeader confirms is the current one, so its
\* barrier covers what was acknowledged when the read was invoked.
LEMMA VerifiedPreserves ==
    ASSUME TypeOK, ReadInv, NEW c \in Clients,
           LeaderVerified(c)
    PROVE  ReadInv'
<1> USE DEF ReadInv
<1>1. /\ pc[c] = "verify" /\ pc' = [pc EXCEPT ![c] = "check"]
      /\ term[at[c]] = curTerm
      /\ UNCHANGED <<leadershipVars, committed, applied, barrierIndex, acked>>
      /\ UNCHANGED <<at, index, floor, vouched>>
  BY DEF LeaderVerified, Step, IsCurrentLeader, logVars
<1>2. at[c] \in Nodes
  BY <1>1 DEF Bounds
<1>3. Past(at[c]) /\ barrierTerm[at[c]] = term[at[c]] => Covers(at[c], floor[c])
  <2>1. Past(at[c]) /\ barrierTerm[at[c]] = curTerm => Covers(at[c], acked)
    BY <1>2 DEF CurrentBarrierCovers
  <2>2. /\ floor[c] <= acked /\ floor[c] \in Nat /\ acked \in Nat
        /\ barrierIndex[at[c]] \in Nat /\ applied[at[c]] \in Nat
    BY <1>2 DEF TypeOK, Bounds
  <2>3. Covers(at[c], acked) => Covers(at[c], floor[c])
    BY <2>2 DEF Covers
  <2> QED
    BY <1>1, <2>1, <2>3
<1>4. Terms' /\ BarrierCaughtUp'
  BY <1>1, RequestFrame
<1>5. Bounds'
  BY <1>1 DEF TypeOK, Bounds
<1>6. CurrentBarrierCovers'
  BY <1>1 DEF TypeOK, CurrentBarrierCovers, Covers, Past, leadershipVars,
         raftVars, loopVars
<1>7. VerifiedCovered'
  BY <1>1, <1>3 DEF TypeOK, Bounds, VerifiedCovered, Covers, Past, leadershipVars,
         raftVars, loopVars
<1>8. VouchedCovered'
  BY <1>1 DEF TypeOK, Bounds, VouchedCovered
<1> QED
  BY <1>4, <1>5, <1>6, <1>7, <1>8

\* A flag seen with an idle monitor was raised behind the barrier of the
\* node's latest leadership, which its store has reached.
LEMMA FlagUpPreserves ==
    ASSUME TypeOK, ReadInv, LeadershipInv, NEW c \in Clients,
           FlagUp(c, "check") \/ FlagUp(c, "poll")
    PROVE  ReadInv'
<1> USE DEF ReadInv
<1>1. /\ pc[c] \in {"check", "poll"} /\ pc' = [pc EXCEPT ![c] = "read"]
      /\ ready[at[c]]
      /\ vouched' = [vouched EXCEPT ![c] = MonitorIdle(at[c])]
      /\ UNCHANGED <<leadershipVars, committed, applied, barrierIndex, acked>>
      /\ UNCHANGED <<at, index, floor>>
  BY DEF FlagUp, Step, logVars
<1>2. at[c] \in Nodes
  BY <1>1 DEF Bounds
<1>3. loop[at[c]] = "established"
  BY <1>1, <1>2 DEF LeadershipInv, Owned, TypeOK, LeadershipTypeOK
<1>4. ASSUME MonitorIdle(at[c]) PROVE floor[c] <= applied[at[c]]
  <2>1. barrierTerm[at[c]] = term[at[c]]
    BY <1>2, <1>3, <1>4 DEF MonitorIdle, LeadershipInv, Current, BarrierSent
  <2>2. Past(at[c])
    BY <1>3 DEF Past
  <2>3. Covers(at[c], floor[c])
    BY <1>1, <2>1, <2>2 DEF VerifiedCovered
  <2>4. barrierIndex[at[c]] <= applied[at[c]]
    BY <1>2, <1>3, <2>2 DEF BarrierCaughtUp
  <2>5. /\ floor[c] \in Nat /\ barrierIndex[at[c]] \in Nat
        /\ applied[at[c]] \in Nat
    BY <1>2 DEF TypeOK
  <2> QED
    BY <2>3, <2>4, <2>5 DEF Covers
<1>5. Terms' /\ BarrierCaughtUp'
  BY <1>1, RequestFrame
<1>6. Bounds'
  BY <1>1 DEF TypeOK, Bounds
<1>7. CurrentBarrierCovers'
  BY <1>1 DEF TypeOK, CurrentBarrierCovers, Covers, Past, leadershipVars,
         raftVars, loopVars
<1>8. VerifiedCovered'
  BY <1>1 DEF TypeOK, Bounds, VerifiedCovered, Covers, Past, leadershipVars,
         raftVars, loopVars
<1>9. VouchedCovered'
  BY <1>1, <1>4 DEF TypeOK, Bounds, VouchedCovered, MonitorIdle
<1> QED
  BY <1>5, <1>6, <1>7, <1>8, <1>9

\* The steps of requests preserve the invariant.
LEMMA ReadInvRequestStep ==
    ASSUME TypeOK, ReadInv, LeadershipInv, NEW c \in Clients,
           \/ \E n \in Nodes : Propose(c, n) \/ Query(c, n)
           \/ WriteCommitted(c) \/ WriteRejected(c) \/ WriteFailed(c)
           \/ LostWriteResolved(c) \/ WriteAcked(c) \/ LeaderVerified(c)
           \/ VerifyFailed(c) \/ FlagUp(c, "check") \/ FlagUp(c, "poll")
           \/ FlagDown(c) \/ PollGivenUp(c) \/ ReadLocal(c) \/ Received(c)
    PROVE  ReadInv'
<1>1. CASE \/ WriteRejected(c) \/ LostWriteResolved(c) \/ VerifyFailed(c)
           \/ PollGivenUp(c) \/ Received(c)
  BY <1>1, ReturnPreserves DEF WriteRejected, LostWriteResolved, VerifyFailed,
                               PollGivenUp, Received, logVars
<1>2. CASE WriteCommitted(c)
  BY <1>2, CommitPreserves
<1>3. CASE WriteAcked(c)
  BY <1>3, AckPreserves
<1>4. CASE LeaderVerified(c)
  BY <1>4, VerifiedPreserves
<1>5. CASE FlagUp(c, "check") \/ FlagUp(c, "poll")
  BY <1>5, FlagUpPreserves
<1> USE DEF ReadInv
<1>6. ASSUME NEW n \in Nodes, Propose(c, n) PROVE ReadInv'
  <2>1. /\ pc' = [pc EXCEPT ![c] = "proposed"] /\ pc[c] = "idle"
        /\ at' = [at EXCEPT ![c] = n]
        /\ UNCHANGED <<leadershipVars, committed, applied, barrierIndex, acked>>
        /\ UNCHANGED <<index, floor, vouched>>
    BY <1>6 DEF Propose, Step, logVars
  <2>2. Terms' /\ BarrierCaughtUp'
    BY <2>1, RequestFrame
  <2>3. Bounds'
    BY <2>1 DEF TypeOK, Bounds
  <2>4. CurrentBarrierCovers'
    BY <2>1 DEF TypeOK, CurrentBarrierCovers, Covers, Past, leadershipVars,
           raftVars, loopVars
  <2>5. VerifiedCovered'
    BY <2>1 DEF TypeOK, Bounds, VerifiedCovered, Covers, Past, leadershipVars,
           raftVars, loopVars
  <2>6. VouchedCovered'
    BY <2>1 DEF TypeOK, Bounds, VouchedCovered
  <2> QED
    BY <2>2, <2>3, <2>4, <2>5, <2>6
<1>7. ASSUME NEW n \in Nodes, Query(c, n) PROVE ReadInv'
  <2>1. /\ pc' = [pc EXCEPT ![c] = "verify"] /\ pc[c] = "idle"
        /\ at' = [at EXCEPT ![c] = n]
        /\ floor' = [floor EXCEPT ![c] = acked]
        /\ UNCHANGED <<leadershipVars, committed, applied, barrierIndex, acked>>
        /\ UNCHANGED <<index, vouched>>
    BY <1>7 DEF Query, Step, logVars
  <2>2. Terms' /\ BarrierCaughtUp'
    BY <2>1, RequestFrame
  <2>3. Bounds'
    BY <2>1 DEF TypeOK, Bounds
  <2>4. CurrentBarrierCovers'
    BY <2>1 DEF TypeOK, CurrentBarrierCovers, Covers, Past, leadershipVars,
           raftVars, loopVars
  <2>5. VerifiedCovered'
    BY <2>1 DEF TypeOK, Bounds, VerifiedCovered, Covers, Past, leadershipVars,
           raftVars, loopVars
  <2>6. VouchedCovered'
    BY <2>1 DEF TypeOK, Bounds, VouchedCovered
  <2> QED
    BY <2>2, <2>3, <2>4, <2>5, <2>6
<1>8. CASE WriteFailed(c)
  <2>1. /\ pc[c] = "proposed" /\ pc' = [pc EXCEPT ![c] = "lost"]
        /\ UNCHANGED <<leadershipVars, committed, applied, barrierIndex, acked>>
        /\ UNCHANGED <<at, index, floor, vouched>>
    BY <1>8 DEF WriteFailed, Step, logVars
  <2>2. Terms' /\ BarrierCaughtUp'
    BY <2>1, RequestFrame
  <2>3. Bounds'
    BY <2>1 DEF TypeOK, Bounds
  <2>4. CurrentBarrierCovers'
    BY <2>1 DEF TypeOK, CurrentBarrierCovers, Covers, Past, leadershipVars,
           raftVars, loopVars
  <2>5. VerifiedCovered'
    BY <2>1 DEF TypeOK, Bounds, VerifiedCovered, Covers, Past, leadershipVars,
           raftVars, loopVars
  <2>6. VouchedCovered'
    BY <2>1 DEF TypeOK, Bounds, VouchedCovered
  <2> QED
    BY <2>2, <2>3, <2>4, <2>5, <2>6
<1>9. CASE FlagDown(c)
  <2>1. /\ pc[c] = "check" /\ pc' = [pc EXCEPT ![c] = "poll"]
        /\ UNCHANGED <<leadershipVars, committed, applied, barrierIndex, acked>>
        /\ UNCHANGED <<at, index, floor, vouched>>
    BY <1>9 DEF FlagDown, Step, logVars
  <2>2. Terms' /\ BarrierCaughtUp'
    BY <2>1, RequestFrame
  <2>3. Bounds'
    BY <2>1 DEF TypeOK, Bounds
  <2>4. CurrentBarrierCovers'
    BY <2>1 DEF TypeOK, CurrentBarrierCovers, Covers, Past, leadershipVars,
           raftVars, loopVars
  <2>5. VerifiedCovered'
    BY <2>1 DEF TypeOK, Bounds, VerifiedCovered, Covers, Past, leadershipVars,
           raftVars, loopVars
  <2>6. VouchedCovered'
    BY <2>1 DEF TypeOK, Bounds, VouchedCovered
  <2> QED
    BY <2>2, <2>3, <2>4, <2>5, <2>6
<1>10. CASE ReadLocal(c)
  <2>1. /\ pc[c] = "read" /\ pc' = [pc EXCEPT ![c] = "returned"]
        /\ index' = [index EXCEPT ![c] = applied[at[c]]]
        /\ UNCHANGED <<leadershipVars, committed, applied, barrierIndex, acked>>
        /\ UNCHANGED <<at, floor, vouched>>
    BY <1>10 DEF ReadLocal, Step, logVars
  <2>2. Terms' /\ BarrierCaughtUp'
    BY <2>1, RequestFrame
  <2>3. Bounds'
    BY <2>1 DEF TypeOK, Bounds
  <2>4. CurrentBarrierCovers'
    BY <2>1 DEF TypeOK, CurrentBarrierCovers, Covers, Past, leadershipVars,
           raftVars, loopVars
  <2>5. VerifiedCovered'
    BY <2>1 DEF TypeOK, Bounds, VerifiedCovered, Covers, Past, leadershipVars,
           raftVars, loopVars
  <2>6. VouchedCovered'
    BY <2>1 DEF TypeOK, Bounds, VouchedCovered
  <2> QED
    BY <2>2, <2>3, <2>4, <2>5, <2>6
<1> QED
  BY <1>1, <1>2, <1>3, <1>4, <1>5, <1>6, <1>7, <1>8, <1>9, <1>10

-----------------------------------------------------------------------------
\* The invariant holds initially ...
LEMMA ReadInvInitial ==
    Init => TypeOK /\ ReadInv /\ LeadershipInv
<1> SUFFICES ASSUME Init PROVE TypeOK /\ ReadInv /\ LeadershipInv
  OBVIOUS
<1>1. LeadershipTypeOK /\ LeadershipInv
  BY LeadershipInvInitial DEF Init
<1>2. TypeOK
  BY <1>1 DEF Init, TypeOK, RequestStates
<1>3. ReadInv
  BY DEF Init, LeadershipInit, ReadInv, Terms, Bounds, BarrierCaughtUp,
         CurrentBarrierCovers, VerifiedCovered, VouchedCovered, Covers, Past
<1> QED
  BY <1>1, <1>2, <1>3

\* ... and every step preserves it.
LEMMA ReadInvInductive ==
    TypeOK /\ ReadInv /\ LeadershipInv /\ [Next]_vars
        => TypeOK' /\ ReadInv' /\ LeadershipInv'
<1> SUFFICES ASSUME TypeOK, ReadInv, LeadershipInv, [Next]_vars
             PROVE  TypeOK' /\ ReadInv' /\ LeadershipInv'
  OBVIOUS
<1>1. TypeOK'
  BY TypeInductive DEF ReadInv
<1>2. LeadershipInv'
  BY ComposesLeadership, LeadershipInvInductive DEF TypeOK
<1>3. ReadInv'
  <2>1. CASE UNCHANGED vars
    BY <2>1 DEF vars, leadershipVars, raftVars, loopVars, readVars, logVars,
                requestVars, ReadInv, Terms, Bounds, BarrierCaughtUp,
                CurrentBarrierCovers, VerifiedCovered, VouchedCovered, Covers, Past
  <2>2. CASE Next
    BY <2>2, ReadInvLeadershipStep, ReadInvRequestStep DEF Next
  <2> QED
    BY <2>1, <2>2
<1> QED
  BY <1>1, <1>2, <1>3

\* A consistent read that found the flag raised by an idle monitor returns
\* every write acknowledged before it was invoked (raftServer.Query), for any
\* number of nodes, clients, elections and writes.
THEOREM ReadSafety ==
    Spec => [](TypeOK /\ VouchedReadsAreFresh)
<1>1. Init => TypeOK /\ ReadInv /\ LeadershipInv
  BY ReadInvInitial
<1>2. TypeOK /\ ReadInv /\ LeadershipInv /\ [Next]_vars
          => TypeOK' /\ ReadInv' /\ LeadershipInv'
  BY ReadInvInductive
<1>3. TypeOK /\ ReadInv => VouchedReadsAreFresh
  BY DEF TypeOK, ReadInv, VouchedCovered, VouchedReadsAreFresh
<1> QED
  BY <1>1, <1>2, <1>3, PTL DEF Spec

\* The type invariant of the composition of Leadership with reads and writes.
COROLLARY ReadTypes == Spec => []TypeOK
BY ReadSafety, PTL

=============================================================================
