---------------------------- MODULE WatchProofs ----------------------------
(***************************************************************************)
(* Proof about Watch, for any number of entries, watches and reads: the    *)
(* index of a linearizable read covers what the FSM of the node had        *)
(* finished when the read was called.                                      *)
(***************************************************************************)
EXTENDS Watch, TLAPS

\* raft's main goroutine leaves nothing uncounted behind when it is idle, and
\* a read that got past VerifyLeader has seen it idle.
IndexInv ==
    /\ finished <= dispatched
    /\ fsmPc # "idle" => main = "installing" /\ finished = dispatched /\ dispatched < target
    /\ lastApplied <= dispatched
    /\ main = "idle" => lastApplied = dispatched
    /\ \A r \in Readers :
        /\ floor[r] <= dispatched
        /\ rpc[r] = "read" => floor[r] <= lastApplied
        /\ rpc[r] = "returned" => floor[r] <= rindex[r]

\* The type invariant is inductive.
LEMMA TypeInductive ==
    TypeOK /\ [Next]_vars => TypeOK'
<1> SUFFICES ASSUME TypeOK, [Next]_vars PROVE TypeOK'
  OBVIOUS
<1> USE MaxIndexAssumption DEF TypeOK, Indexes, raftVars, fsmVars, watchVars, readVars, Goto
<1>1. CASE HandOver
  BY <1>1 DEF HandOver
<1>2. CASE InstallSnapshot
  BY <1>2 DEF InstallSnapshot
<1>3. CASE SetLastApplied
  BY <1>3 DEF SetLastApplied
<1>4. CASE FSMApply
  BY <1>4 DEF FSMApply
<1>5. CASE RestoreSwap
  BY <1>5 DEF RestoreSwap
<1>6. CASE AbandonReplace
  BY <1>6 DEF AbandonReplace
<1>17. CASE RestoreFailed
  BY <1>17 DEF RestoreFailed
<1>7. CASE AbandonClose
  BY <1>7 DEF AbandonClose
<1>8. ASSUME NEW w \in Watchers, QueryValue(w, "query", "index") \/ QueryValue(w, "tick", "tickIndex")
      PROVE  TypeOK'
  BY <1>8 DEF QueryValue
<1>9. ASSUME NEW w \in Watchers, QueryIndex(w, "index", minIndex[w] = 0) \/ QueryIndex(w, "tickIndex", FALSE)
      PROVE  TypeOK'
  <2>1. /\ windex' = [windex EXCEPT ![w] = lastApplied]
        /\ wpc' = [wpc EXCEPT ![w] = "send"] \/ wpc' = [wpc EXCEPT ![w] = "select"]
        /\ wch' = wch \/ wch' = [wch EXCEPT ![w] = abandonCh]
        /\ abandoned' = [abandoned EXCEPT ![w] = FALSE]
        /\ UNCHANGED <<raftVars, fsmVars, minIndex, wval, reported, owed, readVars>>
    BY <1>9 DEF QueryIndex
  <2>2. wpc' \in [Watchers -> {"query", "index", "select", "tick", "tickIndex", "send", "end"}]
    BY <2>1
  <2>3. wch' \in [Watchers -> Nat]
    BY <2>1
  <2> QED
    BY <2>1, <2>2, <2>3
<1>10. ASSUME NEW w \in Watchers, Tick(w) \/ Timeout(w) \/ WatchEnds(w)
      PROVE  TypeOK'
  BY <1>10 DEF Tick, Timeout, WatchEnds
<1>11. ASSUME NEW w \in Watchers, Abandoned(w)
      PROVE  TypeOK'
  BY <1>11 DEF Abandoned
<1>12. ASSUME NEW w \in Watchers, Send(w)
      PROVE  TypeOK'
  BY <1>12 DEF Send
<1>13. ASSUME NEW r \in Readers, ReadCalled(r) PROVE TypeOK'
  BY <1>13 DEF ReadCalled
<1>14. ASSUME NEW r \in Readers, ReadVerified(r) PROVE TypeOK'
  BY <1>14 DEF ReadVerified
<1>15. ASSUME NEW r \in Readers, ReadReturned(r) PROVE TypeOK'
  BY <1>15 DEF ReadReturned
<1>16. CASE UNCHANGED vars
  BY <1>16 DEF vars
<1> QED
  BY <1>1, <1>2, <1>3, <1>4, <1>5, <1>6, <1>7, <1>8, <1>9, <1>10, <1>11,
     <1>12, <1>13, <1>14, <1>15, <1>16, <1>17 DEF Next, WatchStep, FSMStep

\* So is the invariant on the indexes.
LEMMA IndexInvInductive ==
    TypeOK /\ IndexInv /\ [Next]_vars => IndexInv'
<1> SUFFICES ASSUME TypeOK, IndexInv, [Next]_vars PROVE IndexInv'
  OBVIOUS
<1> USE MaxIndexAssumption DEF TypeOK, IndexInv, Indexes, raftVars, fsmVars, readVars
<1>1. CASE HandOver
  BY <1>1 DEF HandOver
<1>2. CASE InstallSnapshot
  BY <1>2 DEF InstallSnapshot
<1>3. CASE SetLastApplied
  BY <1>3 DEF SetLastApplied
<1>4. CASE FSMApply
  BY <1>4 DEF FSMApply
<1>5. CASE RestoreSwap
  BY <1>5 DEF RestoreSwap
<1>6. CASE AbandonReplace
  BY <1>6 DEF AbandonReplace
<1>17. CASE RestoreFailed
  BY <1>17 DEF RestoreFailed
<1>7. CASE AbandonClose
  BY <1>7 DEF AbandonClose
<1>8. ASSUME NEW w \in Watchers, QueryValue(w, "query", "index") \/ QueryValue(w, "tick", "tickIndex")
      PROVE  IndexInv'
  BY <1>8 DEF QueryValue
<1>9. ASSUME NEW w \in Watchers, QueryIndex(w, "index", minIndex[w] = 0) \/ QueryIndex(w, "tickIndex", FALSE)
      PROVE  IndexInv'
  BY <1>9 DEF QueryIndex
<1>10. ASSUME NEW w \in Watchers, Tick(w) \/ Timeout(w) \/ WatchEnds(w)
      PROVE  IndexInv'
  BY <1>10 DEF Tick, Timeout, WatchEnds
<1>11. ASSUME NEW w \in Watchers, Abandoned(w)
      PROVE  IndexInv'
  BY <1>11 DEF Abandoned
<1>12. ASSUME NEW w \in Watchers, Send(w)
      PROVE  IndexInv'
  BY <1>12 DEF Send
<1>13. ASSUME NEW r \in Readers, ReadCalled(r) PROVE IndexInv'
  BY <1>13 DEF ReadCalled
<1>14. ASSUME NEW r \in Readers, ReadVerified(r) PROVE IndexInv'
  BY <1>14 DEF ReadVerified
<1>15. ASSUME NEW r \in Readers, ReadReturned(r) PROVE IndexInv'
  BY <1>15 DEF ReadReturned
<1>16. CASE UNCHANGED vars
  BY <1>16 DEF vars
<1> QED
  BY <1>1, <1>2, <1>3, <1>4, <1>5, <1>6, <1>7, <1>8, <1>9, <1>10, <1>11,
     <1>12, <1>13, <1>14, <1>15, <1>16, <1>17 DEF Next, WatchStep, FSMStep

\* ReadAtIndex of a linearizable Get (raftServer.Query) is at least the index
\* of every write that the FSM of the node had finished, and so answered if
\* this node had proposed it, before the Get was called.
THEOREM ReadIndexSafety ==
    Spec => [](TypeOK /\ ReadIndexCoversWrites)
<1>1. Init => TypeOK /\ IndexInv
  BY MaxIndexAssumption DEF Init, TypeOK, IndexInv, Indexes
<1>2. TypeOK /\ IndexInv /\ [Next]_vars => TypeOK' /\ IndexInv'
  BY TypeInductive, IndexInvInductive
<1>3. TypeOK /\ IndexInv => ReadIndexCoversWrites
  BY DEF TypeOK, IndexInv, Indexes, ReadIndexCoversWrites
<1> QED
  BY <1>1, <1>2, <1>3, PTL DEF Spec

\* The type invariant of the indexes of a node.
COROLLARY WatchTypes == Spec => []TypeOK
BY ReadIndexSafety, PTL

=============================================================================
