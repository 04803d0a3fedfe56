-------------------------- MODULE ForwardingProofs --------------------------
(***************************************************************************)
(* Proofs about Forwarding for any number of nodes, requests and terms.    *)
(***************************************************************************)
EXTENDS Forwarding, SequenceTheorems, TLAPS

\* What raft guarantees: a node follows or leads in its current term, it is a
\* leader exactly when the leader it knows is itself, and its current term
\* never falls behind a term that it has led.
RaftInv ==
    /\ \A n \in Nodes :
           /\ cur[n] <= term
           /\ view[n] # 0 => view[n] = cur[n]
           /\ role[n] <=> view[n] # 0 /\ leaderOf[view[n]] = n
    /\ \A t \in 1 .. term : t <= cur[leaderOf[t]]

\* A handler that has invoked another has chosen the leader of its hop, and
\* one that has not is the last of its request.
ChainInv ==
    \A r \in Requests : \A i \in DOMAIN calls[r] :
        /\ calls[r][i].hop <= term
        /\ calls[r][i].hop = 0 <=> i = Len(calls[r])
        /\ calls[r][i].pc \in {"check", "lookup"} => i = Len(calls[r])
        /\ i + 1 \in DOMAIN calls[r] => calls[r][i + 1].node = leaderOf[calls[r][i].hop]

\* A handler that was invoked as a leader and has found that it is none only
\* knows newer leaders from then on.
LookupInv ==
    \A r \in Requests : \A i \in DOMAIN calls[r] :
        i + 1 \in DOMAIN calls[r] /\ calls[r][i + 1].pc = "lookup"
            => \/ view[calls[r][i + 1].node] = 0
               \/ calls[r][i].hop < view[calls[r][i + 1].node]

\* Until the last handler of an Add is done nothing is in the log.
AddOK(r) ==
    /\ applied[r] <= 1
    /\ Len(calls[r]) = 0 => applied[r] = 0
    /\ \A i \in 1 .. Len(calls[r]) :
           /\ calls[r][i].pc \in {"check", "lookup", "local"} => i = Len(calls[r]) /\ applied[r] = 0
           /\ calls[r][i].pc = "ok" => applied[r] = 1

AddInv == \A r \in Requests : kind[r] = "add" => AddOK(r)

WayInv == ChainInv /\ LookupInv /\ HopsClimb

IInv == TypeOK /\ RaftInv /\ WayInv /\ AddInv

-----------------------------------------------------------------------------
(* What the steps do to the handlers of a request *)

\* Handler i of request r goes on to another point of its code.
Moved(r, i, to) ==
    /\ i \in 1 .. Len(calls[r])
    /\ calls' \in [Requests -> Seq(Call)]
    /\ \A q \in Requests \ {r} : calls'[q] = calls[q]
    /\ Len(calls'[r]) = Len(calls[r])
    /\ \A j \in 1 .. Len(calls[r]) :
           /\ calls'[r][j].node = calls[r][j].node
           /\ calls'[r][j].hop = calls[r][j].hop
           /\ calls'[r][j].pc = IF j = i THEN to ELSE calls[r][j].pc

LEMMA GotoMoves ==
    ASSUME calls \in [Requests -> Seq(Call)], NEW r \in Requests, NEW i, NEW from, NEW to \in PCs,
           Goto(r, i, from, to)
    PROVE  Moved(r, i, to)
<1> DEFINE s == calls[r]
           e == [s[i] EXCEPT !.pc = to]
<1>1. s \in Seq(Call) /\ i \in 1 .. Len(s) /\ s[i] \in Call
  BY DEF Goto
<1>2. e \in Call /\ e.node = s[i].node /\ e.hop = s[i].hop /\ e.pc = to
  BY <1>1 DEF Call
<1>3. calls' = [calls EXCEPT ![r] = [s EXCEPT ![i] = e]]
  BY DEF Goto
<1> HIDE DEF e
<1>4. /\ [s EXCEPT ![i] = e] \in Seq(Call)
      /\ Len([s EXCEPT ![i] = e]) = Len(s)
      /\ \A j \in 1 .. Len(s) : [s EXCEPT ![i] = e][j] = IF j = i THEN e ELSE s[j]
  BY <1>1, <1>2, ExceptSeq
<1>5. calls'[r] = [s EXCEPT ![i] = e] /\ \A q \in Requests \ {r} : calls'[q] = calls[q]
  BY <1>3
<1>6. calls' \in [Requests -> Seq(Call)]
  BY <1>3, <1>4
<1> QED
  BY <1>1, <1>2, <1>4, <1>5, <1>6 DEF Moved

\* The resolver names no node but the leader.
LEMMA AddrIsLeader ==
    ASSUME TypeOK, NEW n \in Nodes, NEW m \in LeaderAddrs(n), view[n] <= term
    PROVE  view[n] \in 1 .. term /\ m \in Nodes /\ m = leaderOf[view[n]]
<1>1. view[n] # 0 /\ m \in GetGRPCAddr(n, RaftAddr[leaderOf[view[n]]])
  BY DEF LeaderAddrs
<1>2. view[n] \in 1 .. term /\ leaderOf[view[n]] \in Nodes
  BY <1>1, ForwardingAssumption DEF TypeOK, Terms
<1>3. m \in Nodes /\ (NodeID[m] = RaftAddr[leaderOf[view[n]]] \/ RaftAddr[m] = RaftAddr[leaderOf[view[n]]])
  BY <1>1, ForwardingAssumption DEF GetGRPCAddr, TypeOK, GossipTypeOK
<1> QED
  BY <1>2, <1>3, ForwardingAssumption

\* Handler i of request r invokes the leader that its node knows.
Invoked(r, i) ==
    /\ i \in 1 .. Len(calls[r]) /\ calls[r][i].pc = "lookup"
    /\ view[calls[r][i].node] \in 1 .. term
    /\ calls' \in [Requests -> Seq(Call)]
    /\ \A q \in Requests \ {r} : calls'[q] = calls[q]
    /\ Len(calls'[r]) = Len(calls[r]) + 1
    /\ \A j \in 1 .. Len(calls[r]) : j # i => calls'[r][j] = calls[r][j]
    /\ calls'[r][i] = [node |-> calls[r][i].node, pc |-> "invoke", hop |-> view[calls[r][i].node]]
    /\ calls'[r][Len(calls[r]) + 1] = NewCall(r, leaderOf[view[calls[r][i].node]])

LEMMA InvokeInvokes ==
    ASSUME TypeOK, RaftInv, NEW r \in Requests, NEW i, Invoke(r, i)
    PROVE  Invoked(r, i)
<1> DEFINE s == calls[r]
           n == s[i].node
           e == [node |-> n, pc |-> "invoke", hop |-> view[n]]
           t == [s EXCEPT ![i] = e]
<1>1. s \in Seq(Call) /\ i \in 1 .. Len(s) /\ s[i] \in Call /\ s[i].pc = "lookup"
  BY DEF Invoke, TypeOK
<1>2. n \in Nodes
  BY <1>1 DEF Call
<1>3. PICK m \in LeaderAddrs(n) : calls' = [calls EXCEPT ![r] = Append(t, NewCall(r, m))]
  BY DEF Invoke
<1>4. view[n] \in 1 .. term /\ m \in Nodes /\ m = leaderOf[view[n]]
  <2>1. cur[n] <= term /\ (view[n] # 0 => view[n] = cur[n])
    BY <1>2 DEF RaftInv
  <2>2. term \in Nat /\ view[n] \in Nat
    BY <1>2, ForwardingAssumption DEF TypeOK, Terms
  <2>3. view[n] <= term
    BY <2>1, <2>2
  <2> QED
    BY <1>2, <2>3, AddrIsLeader
<1>5. e \in Call /\ NewCall(r, m) \in Call
  <2>1. view[n] \in Terms /\ 0 \in Terms
    BY <1>2, ForwardingAssumption DEF TypeOK, Terms
  <2>2. e \in Call
    BY <1>2, <2>1 DEF Call, PCs
  <2>3. NewCall(r, m) \in Call
    BY <1>4, <2>1 DEF Call, PCs, NewCall
  <2> QED
    BY <2>2, <2>3
<1> HIDE DEF e
<1>6. t \in Seq(Call) /\ Len(t) = Len(s) /\ \A j \in 1 .. Len(s) : t[j] = IF j = i THEN e ELSE s[j]
  BY <1>1, <1>5, ExceptSeq
<1> HIDE DEF t
<1>7. /\ Append(t, NewCall(r, m)) \in Seq(Call)
      /\ Len(Append(t, NewCall(r, m))) = Len(t) + 1
      /\ \A j \in 1 .. Len(t) : Append(t, NewCall(r, m))[j] = t[j]
      /\ Append(t, NewCall(r, m))[Len(t) + 1] = NewCall(r, m)
  BY <1>5, <1>6, AppendProperties
<1>8. /\ calls'[r] = Append(t, NewCall(r, m))
      /\ \A q \in Requests \ {r} : calls'[q] = calls[q]
      /\ calls' \in [Requests -> Seq(Call)]
  BY <1>3, <1>7 DEF TypeOK
<1>9. \A j \in 1 .. Len(s) : calls'[r][j] = IF j = i THEN e ELSE s[j]
  BY <1>6, <1>7, <1>8
<1> QED
  BY <1>1, <1>4, <1>6, <1>7, <1>8, <1>9 DEF Invoked, e

-----------------------------------------------------------------------------
(* The steps, by what they change *)

RaftStep == \E n \in Nodes : Elect(n) \/ LoseLeader(n) \/ \E t \in Terms : HearLeader(n, t)

\* A step of one handler: where it leads, and what it leaves alone.
LocalStep(r, i, to) ==
    \/ IsLeader(r, i) /\ to = (IF role[calls[r][i].node] THEN "local" ELSE "lookup")
    \/ NoAddress(r, i) /\ to = AfterError(r)
    \/ Answered(r, i) /\ to = (IF calls[r][i + 1].pc = "ok" THEN "ok" ELSE AfterError(r))
    \/ InvokeFailed(r, i) /\ to = AfterError(r)
    \/ Applied(r, i) /\ to = "ok"
    \/ ApplyFailed(r, i) /\ to = "err"
    \/ QuerySucceeded(r, i) /\ to = "ok"
    \/ QueryFailed(r, i) /\ to = "err"

LEMMA StepCases ==
    ASSUME [Next]_vars
    PROVE  \/ RaftStep
           \/ GossipNext /\ UNCHANGED <<raftVars, requestVars>>
           \/ \E r \in Requests, n \in Nodes : ClientCall(r, n)
           \/ \E r \in Requests : \E i \in DOMAIN calls[r] : Invoke(r, i)
           \/ \E r \in Requests : \E i \in DOMAIN calls[r] : \E to \in PCs : LocalStep(r, i, to)
           \/ UNCHANGED vars
<1>1. ASSUME NEW r \in Requests, HandlerStep(r) \/ \E i \in DOMAIN calls[r] : InvokeFailed(r, i)
      PROVE  \E i \in DOMAIN calls[r] : Invoke(r, i) \/ \E to \in PCs : LocalStep(r, i, to)
  <2>1. AfterError(r) \in PCs
    BY DEF AfterError, PCs
  <2>2. "ok" \in PCs /\ "err" \in PCs /\ "local" \in PCs /\ "lookup" \in PCs
    BY DEF PCs
  <2>3. PICK i \in DOMAIN calls[r] :
            \/ IsLeader(r, i) \/ NoAddress(r, i) \/ Invoke(r, i) \/ Answered(r, i) \/ Applied(r, i)
            \/ ApplyFailed(r, i) \/ QuerySucceeded(r, i) \/ QueryFailed(r, i) \/ InvokeFailed(r, i)
    BY <1>1 DEF HandlerStep
  <2>4. Invoke(r, i) \/ \E to \in PCs : LocalStep(r, i, to)
    BY <2>1, <2>2, <2>3 DEF LocalStep
  <2> QED
    BY <2>4
<1> QED
  BY <1>1 DEF Next, RaftStep

LEMMA LocalStepMoves ==
    ASSUME calls \in [Requests -> Seq(Call)], NEW r \in Requests, NEW i, NEW to \in PCs,
           LocalStep(r, i, to)
    PROVE  Moved(r, i, to) /\ UNCHANGED <<gossipVars, raftVars, kind>>
<1>1. \E from : Goto(r, i, from, to)
  BY DEF LocalStep, IsLeader, NoAddress, Answered, InvokeFailed, Applied, ApplyFailed,
         QuerySucceeded, QueryFailed
<1>2. UNCHANGED <<gossipVars, raftVars, kind>>
  BY DEF LocalStep, IsLeader, NoAddress, Answered, InvokeFailed, Applied, ApplyFailed,
         QuerySucceeded, QueryFailed
<1> QED
  BY <1>1, <1>2, GotoMoves

-----------------------------------------------------------------------------
(* Types *)

LEMMA GossipTypeInductive ==
    GossipTypeOK /\ GossipNext => GossipTypeOK'
<1> SUFFICES ASSUME GossipTypeOK, NEW n \in Nodes, NEW m \in Nodes,
                    \/ New(n) \/ JoinStep(n) \/ Stop(n)
                    \/ NotifyJoin(n, m) \/ NotifyLeave(n, m)
             PROVE  GossipTypeOK'
  BY GossipAssumption DEF GossipNext
<1>1. CASE New(n)
  BY <1>1, GossipAssumption DEF New, GossipTypeOK
<1>2. CASE JoinFailed(n)
  BY <1>2, GossipAssumption DEF JoinFailed, Joining, GossipTypeOK
<1>3. CASE JoinSucceeded(n)
  <2> DEFINE answering == {s \in Seeds[n] : up[s]}
             After(k) == CASE k = n -> nodes[n] \cup UNION {nodes[s] : s \in answering}
                           [] k \in answering \ {n} -> nodes[k] \cup nodes[n]
                           [] OTHER -> nodes[k]
  <2>1. answering \subseteq Nodes
    BY GossipAssumption
  <2>2. UNION {nodes[s] : s \in answering} \subseteq Nodes
    BY <2>1 DEF GossipTypeOK
  <2>3. \A k \in Nodes : nodes[k] \subseteq Nodes
    BY DEF GossipTypeOK
  <2>4. ASSUME NEW k \in Nodes PROVE After(k) \in SUBSET Nodes
    BY <2>2, <2>3
  <2>5. nodes' = [k \in Nodes |-> After(k)]
    BY <1>3 DEF JoinSucceeded
  <2> HIDE DEF After
  <2>6. nodes' \in [Nodes -> SUBSET Nodes]
    BY <2>4, <2>5
  <2> QED
    BY <1>3, <2>6 DEF JoinSucceeded, GossipTypeOK
<1>4. CASE Stop(n)
  BY <1>4 DEF Stop, GossipTypeOK
<1>5. CASE NotifyJoin(n, m)
  BY <1>5 DEF NotifyJoin, GossipTypeOK
<1>6. CASE NotifyLeave(n, m)
  BY <1>6 DEF NotifyLeave, GossipTypeOK
<1> QED
  BY <1>1, <1>2, <1>3, <1>4, <1>5, <1>6 DEF JoinStep

LEMMA RaftTypeInductive ==
    ASSUME TypeOK, RaftStep
    PROVE  TypeOK'
<1>1. UNCHANGED <<gossipVars, requestVars>>
  BY DEF RaftStep, Elect, LoseLeader, HearLeader
<1>2. PICK n \in Nodes : Elect(n) \/ LoseLeader(n) \/ \E t \in Terms : HearLeader(n, t)
  BY DEF RaftStep
<1>3. CASE Elect(n)
  <2>1. leaderOf' \in [1 .. term' -> Nodes]
    <3>0. term \in Nat /\ leaderOf \in [1 .. term -> Nodes]
      BY ForwardingAssumption DEF TypeOK, Terms
    <3>1. leaderOf \in Seq(Nodes) /\ Len(leaderOf) = term
      BY <3>0, LenProperties
    <3>2. leaderOf' \in Seq(Nodes) /\ Len(leaderOf') = term + 1
      BY <1>3, <3>1, AppendProperties DEF Elect
    <3> QED
      BY <1>3, <3>2, LenProperties DEF Elect
  <2>2. term' \in Terms /\ cur' \in [Nodes -> Terms] /\ view' \in [Nodes -> Terms]
        /\ role' \in [Nodes -> BOOLEAN]
    BY <1>3, ForwardingAssumption DEF Elect, TypeOK, Terms
  <2> QED
    BY <1>1, <2>1, <2>2 DEF TypeOK, GossipTypeOK, gossipVars, requestVars
<1>4. CASE LoseLeader(n)
  <2>1. PICK t \in cur[n] .. term : cur' = [cur EXCEPT ![n] = t]
    BY <1>4 DEF LoseLeader
  <2>2. t \in Terms /\ 0 \in Terms
    BY <2>1, ForwardingAssumption DEF TypeOK, Terms
  <2> QED
    BY <1>1, <1>4, <2>1, <2>2 DEF LoseLeader, TypeOK, GossipTypeOK, gossipVars, requestVars
<1>5. ASSUME NEW t \in Terms, HearLeader(n, t) PROVE TypeOK'
  BY <1>1, <1>5 DEF HearLeader, TypeOK, GossipTypeOK, gossipVars, requestVars
<1> QED
  BY <1>2, <1>3, <1>4, <1>5

LEMMA LocalTypeInductive ==
    ASSUME TypeOK, NEW r \in Requests, NEW i \in DOMAIN calls[r], NEW to \in PCs, LocalStep(r, i, to)
    PROVE  TypeOK'
<1>1. Moved(r, i, to) /\ UNCHANGED <<gossipVars, raftVars, kind>>
  BY LocalStepMoves DEF TypeOK
<1>2. applied' \in [Requests -> Nat]
  BY DEF LocalStep, IsLeader, NoAddress, Answered, InvokeFailed, Applied, ApplyFailed,
         QuerySucceeded, QueryFailed, TypeOK
<1> QED
  BY <1>1, <1>2 DEF Moved, TypeOK, GossipTypeOK, gossipVars, raftVars

\* The type invariant is inductive together with RaftInv.
LEMMA TypeInductive ==
    ASSUME TypeOK, RaftInv, [Next]_vars
    PROVE  TypeOK'
<1>1. CASE RaftStep
  BY <1>1, RaftTypeInductive
<1>2. CASE GossipNext /\ UNCHANGED <<raftVars, requestVars>>
  BY <1>2, GossipTypeInductive DEF TypeOK, raftVars, requestVars
<1>3. ASSUME NEW r \in Requests, NEW n \in Nodes, ClientCall(r, n) PROVE TypeOK'
  <2>1. NewCall(r, n) \in Call
    BY ForwardingAssumption DEF NewCall, Call, PCs, Terms
  <2>2. <<NewCall(r, n)>> \in Seq(Call)
    BY <2>1
  <2>3. calls' \in [Requests -> Seq(Call)]
    BY <1>3, <2>2 DEF ClientCall, TypeOK
  <2> QED
    BY <1>3, <2>3 DEF ClientCall, TypeOK, GossipTypeOK, gossipVars, raftVars
<1>4. ASSUME NEW r \in Requests, NEW i \in DOMAIN calls[r], Invoke(r, i) PROVE TypeOK'
  <2>1. Invoked(r, i)
    BY <1>4, InvokeInvokes
  <2> QED
    BY <1>4, <2>1 DEF Invoked, Invoke, TypeOK, GossipTypeOK, gossipVars, raftVars
<1>5. ASSUME NEW r \in Requests, NEW i \in DOMAIN calls[r], NEW to \in PCs, LocalStep(r, i, to)
      PROVE  TypeOK'
  BY <1>5, LocalTypeInductive
<1>6. CASE UNCHANGED vars
  BY <1>6 DEF vars, gossipVars, raftVars, requestVars, TypeOK, GossipTypeOK
<1> QED
  BY <1>1, <1>2, <1>3, <1>4, <1>5, <1>6, StepCases

-----------------------------------------------------------------------------
(* raft *)

\* What a step of raft does to node n, and to the nodes of earlier terms.
NodeStep(n) ==
    /\ cur'[n] \in Nat /\ cur[n] <= cur'[n] /\ cur'[n] <= term'
    /\ view'[n] # 0 => view'[n] = cur'[n]
    /\ role'[n] <=> view'[n] # 0 /\ leaderOf'[view'[n]] = n
    /\ \/ view'[n] = view[n] \/ view'[n] = 0 \/ view'[n] = term + 1
       \/ view'[n] \in 1 .. term /\ view'[n] >= cur[n] /\ leaderOf[view'[n]] # n

LeadersKept ==
    /\ term' \in {term, term + 1}
    /\ \A t \in 1 .. term : leaderOf'[t] = leaderOf[t]
    /\ term' = term + 1 => leaderOf'[term + 1] \in Nodes /\ cur'[leaderOf'[term + 1]] = term + 1

LEMMA RaftStepEffect ==
    ASSUME TypeOK, RaftInv, RaftStep
    PROVE  LeadersKept /\ \A n \in Nodes : NodeStep(n)
<1>0. term \in Nat /\ cur \in [Nodes -> Nat] /\ view \in [Nodes -> Nat] /\ role \in [Nodes -> BOOLEAN]
      /\ leaderOf \in [1 .. term -> Nodes]
  BY ForwardingAssumption DEF TypeOK, Terms
<1>1. PICK n \in Nodes : Elect(n) \/ LoseLeader(n) \/ \E t \in Terms : HearLeader(n, t)
  BY DEF RaftStep
<1>2. ASSUME NEW m \in Nodes
      PROVE  cur[m] \in Nat /\ view[m] \in Nat /\ cur[m] <= term /\ (view[m] # 0 => view[m] = cur[m])
             /\ (role[m] <=> view[m] # 0 /\ leaderOf[view[m]] = m)
  BY <1>0 DEF RaftInv
<1>3. CASE Elect(n)
  <2>1. leaderOf \in Seq(Nodes) /\ Len(leaderOf) = term
    BY <1>0, LenProperties
  <2>2. leaderOf'[term + 1] = n /\ \A t \in 1 .. term : leaderOf'[t] = leaderOf[t]
    BY <1>3, <2>1, AppendProperties DEF Elect
  <2>3. term' = term + 1 /\ cur'[n] = term + 1 /\ view'[n] = term + 1 /\ role'[n] = TRUE
    BY <1>0, <1>3 DEF Elect
  <2>4. \A m \in Nodes \ {n} : cur'[m] = cur[m] /\ view'[m] = view[m] /\ role'[m] = role[m]
    BY <1>0, <1>3 DEF Elect
  <2>5. NodeStep(n)
    BY <1>0, <1>2, <2>2, <2>3 DEF NodeStep
  <2>6. ASSUME NEW m \in Nodes \ {n} PROVE NodeStep(m)
    <3>1. cur'[m] = cur[m] /\ view'[m] = view[m] /\ role'[m] = role[m]
      BY <2>4
    <3>2. cur[m] \in Nat /\ view[m] \in Nat /\ cur[m] <= term /\ (view[m] # 0 => view[m] = cur[m])
          /\ (role[m] <=> view[m] # 0 /\ leaderOf[view[m]] = m)
      BY <1>2
    <3>3. view[m] # 0 => leaderOf'[view[m]] = leaderOf[view[m]]
      BY <1>0, <2>2, <3>2
    <3> QED
      BY <1>0, <2>3, <3>1, <3>2, <3>3 DEF NodeStep
  <2> QED
    BY <1>0, <2>2, <2>3, <2>5, <2>6 DEF LeadersKept
<1>4. CASE LoseLeader(n)
  <2>1. PICK t \in cur[n] .. term : cur' = [cur EXCEPT ![n] = t]
    BY <1>4 DEF LoseLeader
  <2>2. term' = term /\ leaderOf' = leaderOf /\ cur'[n] = t /\ view'[n] = 0 /\ role'[n] = FALSE
    BY <1>0, <1>4, <2>1 DEF LoseLeader
  <2>3. \A m \in Nodes \ {n} : cur'[m] = cur[m] /\ view'[m] = view[m] /\ role'[m] = role[m]
    BY <1>0, <1>4, <2>1 DEF LoseLeader
  <2>4. cur[n] \in Nat /\ t \in Nat /\ cur[n] <= t /\ t <= term
    BY <1>0, <2>1
  <2>5. NodeStep(n)
    BY <1>0, <2>2, <2>4 DEF NodeStep
  <2>6. ASSUME NEW m \in Nodes \ {n} PROVE NodeStep(m)
    BY <1>0, <1>2, <2>2, <2>3 DEF NodeStep
  <2> QED
    BY <1>0, <2>2, <2>5, <2>6 DEF LeadersKept
<1>5. ASSUME NEW t \in Terms, HearLeader(n, t)
      PROVE  LeadersKept /\ \A m \in Nodes : NodeStep(m)
  <2>1. t \in 1 .. term /\ t >= cur[n] /\ leaderOf[t] # n
    BY <1>5 DEF HearLeader
  <2>2. term' = term /\ leaderOf' = leaderOf /\ cur'[n] = t /\ view'[n] = t /\ role'[n] = FALSE
    BY <1>0, <1>5 DEF HearLeader
  <2>3. \A m \in Nodes \ {n} : cur'[m] = cur[m] /\ view'[m] = view[m] /\ role'[m] = role[m]
    BY <1>0, <1>5 DEF HearLeader
  <2>4. NodeStep(n)
    BY <1>0, <1>2, <2>1, <2>2 DEF NodeStep
  <2>5. ASSUME NEW m \in Nodes \ {n} PROVE NodeStep(m)
    BY <1>0, <1>2, <2>2, <2>3 DEF NodeStep
  <2> QED
    BY <1>0, <2>2, <2>4, <2>5 DEF LeadersKept
<1> QED
  BY <1>1, <1>3, <1>4, <1>5

LEMMA RaftInvInductive ==
    ASSUME TypeOK, RaftInv, LeadersKept, \A n \in Nodes : NodeStep(n)
    PROVE  RaftInv'
<1>0. term \in Nat /\ cur \in [Nodes -> Nat] /\ leaderOf \in [1 .. term -> Nodes]
  BY ForwardingAssumption DEF TypeOK, Terms
<1>1. ASSUME NEW t \in 1 .. term' PROVE t <= cur'[leaderOf'[t]]
  <2>1. CASE t = term + 1
    BY <1>0, <2>1 DEF LeadersKept
  <2>2. CASE t \in 1 .. term
    <3>1. t <= cur[leaderOf[t]] /\ leaderOf[t] \in Nodes /\ leaderOf'[t] = leaderOf[t]
      BY <1>0, <2>2 DEF RaftInv, LeadersKept
    <3>2. cur[leaderOf[t]] \in Nat /\ cur'[leaderOf[t]] \in Nat /\ cur[leaderOf[t]] <= cur'[leaderOf[t]]
      BY <1>0, <3>1 DEF NodeStep
    <3> QED
      BY <2>2, <3>1, <3>2
  <2> QED
    BY <1>0, <2>1, <2>2 DEF LeadersKept
<1>2. ASSUME NEW n \in Nodes
      PROVE  /\ cur'[n] <= term'
             /\ view'[n] # 0 => view'[n] = cur'[n]
             /\ role'[n] <=> view'[n] # 0 /\ leaderOf'[view'[n]] = n
  BY DEF NodeStep
<1> QED
  BY <1>1, <1>2 DEF RaftInv

-----------------------------------------------------------------------------
(* The way of a request *)

\* What the invariants say of handler i of request r.
Link(r, i) ==
    /\ calls[r][i].hop <= term
    /\ calls[r][i].hop = 0 <=> i = Len(calls[r])
    /\ calls[r][i].pc \in {"check", "lookup"} => i = Len(calls[r])
    /\ i < Len(calls[r]) =>
           /\ calls[r][i + 1].node = leaderOf[calls[r][i].hop]
           /\ calls[r][i + 1].hop # 0 => calls[r][i].hop < calls[r][i + 1].hop
           /\ calls[r][i + 1].pc = "lookup" =>
                  \/ view[calls[r][i + 1].node] = 0
                  \/ calls[r][i].hop < view[calls[r][i + 1].node]

LinksInv == \A r \in Requests : \A i \in 1 .. Len(calls[r]) : Link(r, i)

LEMMA WayIsLinks ==
    calls \in [Requests -> Seq(Call)] => (WayInv <=> LinksInv)
<1> SUFFICES ASSUME calls \in [Requests -> Seq(Call)] PROVE WayInv <=> LinksInv
  OBVIOUS
<1>1. ASSUME NEW r \in Requests
      PROVE  /\ DOMAIN calls[r] = 1 .. Len(calls[r]) /\ Len(calls[r]) \in Nat
             /\ \A i \in 1 .. Len(calls[r]) : i + 1 \in DOMAIN calls[r] <=> i < Len(calls[r])
  BY LenProperties
<1>2. ASSUME WayInv, NEW r \in Requests, NEW i \in 1 .. Len(calls[r]) PROVE Link(r, i)
  BY <1>1, <1>2 DEF WayInv, ChainInv, LookupInv, HopsClimb, Link
<1>3. ASSUME LinksInv PROVE WayInv
  <2>1. ChainInv
    BY <1>1, <1>3 DEF ChainInv, LinksInv, Link
  <2>2. LookupInv
    BY <1>1, <1>3 DEF LookupInv, LinksInv, Link
  <2>3. HopsClimb
    BY <1>1, <1>3 DEF HopsClimb, LinksInv, Link
  <2> QED
    BY <2>1, <2>2, <2>3 DEF WayInv
<1> QED
  BY <1>2, <1>3 DEF LinksInv

\* The types that the proofs below need of one handler.
LEMMA CallType ==
    ASSUME TypeOK, NEW r \in Requests, NEW i \in 1 .. Len(calls[r])
    PROVE  /\ calls[r][i].node \in Nodes /\ calls[r][i].hop \in Nat
           /\ Len(calls[r]) \in Nat /\ i \in Nat
<1>1. calls[r] \in Seq(Call)
  BY DEF TypeOK
<1>2. calls[r][i] \in Call /\ Len(calls[r]) \in Nat
  BY <1>1, ElementOfSeq, LenProperties
<1> QED
  BY <1>2 DEF Call, Terms

\* Elections and heartbeats: a handler that looks for the leader on a node
\* that has led term h hears of newer leaders only.
LEMMA RaftKeepsLinks ==
    ASSUME TypeOK, RaftInv, LeadersKept, \A n \in Nodes : NodeStep(n), calls' = calls,
           NEW r \in Requests, NEW i \in 1 .. Len(calls[r]), Link(r, i)
    PROVE  Link(r, i)'
<1>0. term \in Nat /\ cur \in [Nodes -> Nat] /\ leaderOf \in [1 .. term -> Nodes]
  BY ForwardingAssumption DEF TypeOK, Terms
<1>1. calls[r][i].node \in Nodes /\ calls[r][i].hop \in Nat /\ Len(calls[r]) \in Nat /\ i \in Nat
  BY CallType
<1>2. calls[r][i].hop <= term'
  BY <1>0, <1>1 DEF Link, LeadersKept
<1>3. CASE i = Len(calls[r])
  BY <1>1, <1>2, <1>3 DEF Link
<1>4. CASE i < Len(calls[r])
  <2> DEFINE h == calls[r][i].hop
             m == calls[r][i + 1].node
  <2>1. h \in 1 .. term /\ m = leaderOf[h] /\ m \in Nodes
    BY <1>0, <1>1, <1>4 DEF Link
  <2>2. leaderOf'[h] = leaderOf[h]
    BY <2>1 DEF LeadersKept
  <2>3. h <= cur[m] /\ cur[m] \in Nat
    BY <1>0, <2>1 DEF RaftInv
  <2> HIDE DEF h, m
  <2>4. view[m] = 0 \/ h < view[m] => view'[m] = 0 \/ h < view'[m]
    <3>1. CASE view'[m] \in 1 .. term /\ view'[m] >= cur[m] /\ leaderOf[view'[m]] # m
      <4>1. view'[m] # h
        BY <2>1, <3>1
      <4>2. view'[m] \in Nat /\ h \in Nat
        BY <1>0, <2>1, <3>1
      <4>3. cur[m] <= view'[m]
        BY <2>3, <3>1, <4>2
      <4> QED
        BY <2>3, <4>1, <4>2, <4>3
    <3>2. CASE view'[m] = view[m] \/ view'[m] = 0 \/ view'[m] = term + 1
      BY <1>0, <2>1, <3>2
    <3> QED
      BY <2>1, <3>1, <3>2 DEF NodeStep
  <2> QED
    BY <1>1, <1>2, <1>4, <2>1, <2>2, <2>4 DEF Link, h, m
<1> QED
  BY <1>1, <1>3, <1>4

\* A step of one handler: GetLeader comes to look for the leader only on a
\* node that no longer leads.
LEMMA MoveKeepsLinks ==
    ASSUME TypeOK, RaftInv, NEW r \in Requests, NEW i \in 1 .. Len(calls[r]), NEW to \in PCs,
           Moved(r, i, to), UNCHANGED raftVars,
           \/ to \notin {"check", "lookup"}
           \/ to = "lookup" /\ ~role[calls[r][i].node] /\ calls[r][i].pc = "check",
           \A q \in Requests : \A j \in 1 .. Len(calls[q]) : Link(q, j),
           NEW q \in Requests, NEW j \in 1 .. Len(calls'[q])
    PROVE  Link(q, j)'
<1>0. term \in Nat /\ cur \in [Nodes -> Nat] /\ view \in [Nodes -> Nat] /\ leaderOf \in [1 .. term -> Nodes]
      /\ term' = term /\ leaderOf' = leaderOf /\ view' = view
  BY ForwardingAssumption DEF TypeOK, Terms, raftVars
<1>1. CASE q # r
  <2>1. calls'[q] = calls[q]
    BY <1>1 DEF Moved
  <2>2. Link(q, j)
    BY <2>1
  <2> QED
    BY <1>0, <2>1, <2>2 DEF Link
<1>2. CASE q = r
  <2>1. j \in 1 .. Len(calls[r]) /\ Len(calls'[r]) = Len(calls[r])
    BY <1>2 DEF Moved
  <2>2. j \in Nat /\ Len(calls[r]) \in Nat /\ calls[r][j].hop \in Nat /\ calls[r][j].node \in Nodes
    BY <2>1, CallType
  <2>3. Link(r, j)
    BY <2>1
  <2>4. \A k \in 1 .. Len(calls[r]) : /\ calls'[r][k].node = calls[r][k].node
                                    /\ calls'[r][k].hop = calls[r][k].hop
                                    /\ calls'[r][k].pc = IF k = i THEN to ELSE calls[r][k].pc
    BY DEF Moved
  <2>5. calls'[r][j].pc \in {"check", "lookup"} => j = Len(calls[r])
    BY <2>1, <2>3, <2>4 DEF Link
  <2>6. CASE j = Len(calls[r])
    <3>1. calls'[r][j].hop = 0 /\ 0 <= term'
      BY <1>0, <2>1, <2>3, <2>4, <2>6 DEF Link
    <3>2. j = Len(calls'[r]) /\ ~(j < Len(calls'[r]))
      BY <2>1, <2>2, <2>6
    <3> QED
      BY <1>2, <3>1, <3>2 DEF Link
  <2>7. CASE j < Len(calls[r])
    <3> DEFINE h == calls[r][j].hop
               m == calls[r][j + 1].node
    <3>0. h # 0 /\ h <= term /\ m = leaderOf[h] /\ h \in Nat
      <4>1. j # Len(calls[r])
        BY <2>2, <2>7
      <4> QED
        BY <2>2, <2>3, <2>7, <4>1 DEF Link
    <3> HIDE DEF h, m
    <3>1. j + 1 \in 1 .. Len(calls[r]) /\ h \in 1 .. term /\ m = leaderOf[h] /\ m \in Nodes
      <4>1. h \in 1 .. term
        BY <1>0, <3>0
      <4>2. m \in Nodes
        BY <1>0, <3>0, <4>1
      <4>3. j + 1 \in 1 .. Len(calls[r])
        BY <2>1, <2>2, <2>7
      <4> QED
        BY <3>0, <4>1, <4>2, <4>3
    <3>2. h <= cur[m] /\ cur[m] \in Nat /\ view[m] \in Nat /\ (view[m] # 0 => view[m] = cur[m])
          /\ (role[m] <=> view[m] # 0 /\ leaderOf[view[m]] = m)
      BY <1>0, <3>1 DEF RaftInv
    <3>3. ASSUME ~role[m], view[m] # 0 PROVE h < view[m]
      <4>1. leaderOf[view[m]] # m /\ view[m] = cur[m]
        BY <3>2, <3>3
      <4>2. view[m] # h
        BY <3>1, <4>1
      <4> QED
        BY <3>0, <3>2, <4>1, <4>2
    <3>4. calls'[r][j + 1].pc = "lookup" => view[m] = 0 \/ h < view[m]
      <4>1. CASE j + 1 = i
        BY <2>4, <3>1, <3>3, <4>1 DEF m
      <4>2. CASE j + 1 # i
        BY <2>3, <2>4, <2>7, <3>1, <4>2 DEF Link, h, m
      <4> QED
        BY <4>1, <4>2
    <3>5. /\ calls'[r][j + 1].node = calls[r][j + 1].node
          /\ calls'[r][j + 1].hop = calls[r][j + 1].hop
      BY <2>4, <3>1
    <3> QED
      BY <1>0, <1>2, <2>1, <2>2, <2>3, <2>4, <2>5, <2>7, <3>4, <3>5 DEF Link, h, m
  <2> QED
    BY <2>1, <2>2, <2>6, <2>7
<1> QED
  BY <1>1, <1>2

\* conn.Invoke: the new handler runs on the leader of the new hop, which is
\* newer than the hop before.
LEMMA InvokeKeepsLinks ==
    ASSUME TypeOK, RaftInv, NEW r \in Requests, NEW i \in DOMAIN calls[r], Invoke(r, i),
           \A q \in Requests : \A j \in 1 .. Len(calls[q]) : Link(q, j),
           NEW q \in Requests, NEW j \in 1 .. Len(calls'[q])
    PROVE  Link(q, j)'
<1>0. term \in Nat /\ view \in [Nodes -> Nat] /\ leaderOf \in [1 .. term -> Nodes]
      /\ term' = term /\ leaderOf' = leaderOf /\ view' = view
  BY ForwardingAssumption DEF TypeOK, Terms, raftVars, Invoke
<1>1. Invoked(r, i)
  BY InvokeInvokes
<1>2. CASE q # r
  <2>1. calls'[q] = calls[q]
    BY <1>1, <1>2 DEF Invoked
  <2>2. j \in 1 .. Len(calls[q]) /\ Link(q, j)
    BY <2>1
  <2> QED
    BY <1>0, <2>1, <2>2 DEF Link
<1>3. CASE q = r
  <2> DEFINE L == Len(calls[r])
             h == view[calls[r][i].node]
  <2>1. i = L /\ L \in Nat /\ i \in 1 .. L /\ h \in 1 .. term /\ calls[r][i].pc = "lookup"
    <3>1. i \in 1 .. L /\ h \in 1 .. term /\ calls[r][i].pc = "lookup"
      BY <1>1 DEF Invoked
    <3>2. Link(r, i) /\ L \in Nat
      BY <3>1, CallType
    <3> QED
      BY <3>1, <3>2 DEF Link
  <2>2. /\ Len(calls'[r]) = L + 1
        /\ \A k \in 1 .. L : k # L => calls'[r][k] = calls[r][k]
        /\ calls'[r][L].node = calls[r][L].node /\ calls'[r][L].pc = "invoke" /\ calls'[r][L].hop = h
        /\ calls'[r][L + 1].node = leaderOf[h] /\ calls'[r][L + 1].hop = 0
        /\ calls'[r][L + 1].pc \in {"check", "local"}
    <3>1. /\ Len(calls'[r]) = L + 1
          /\ \A k \in 1 .. L : k # i => calls'[r][k] = calls[r][k]
          /\ calls'[r][i] = [node |-> calls[r][i].node, pc |-> "invoke", hop |-> h]
          /\ calls'[r][L + 1] = NewCall(r, leaderOf[h])
      BY <1>1 DEF Invoked
    <3>2. /\ NewCall(r, leaderOf[h]).node = leaderOf[h] /\ NewCall(r, leaderOf[h]).hop = 0
          /\ NewCall(r, leaderOf[h]).pc \in {"check", "local"}
      BY DEF NewCall
    <3>3. i = L
      BY <2>1
    <3> HIDE DEF L, h
    <3> QED BY <3>1, <3>2, <3>3
  <2>3. j \in 1 .. L + 1 /\ j \in Nat
    BY <1>3, <2>1, <2>2
  <2>4. CASE j = L + 1
    <3>1. j = Len(calls'[q]) /\ calls'[q][j].hop = 0 /\ 0 <= term'
      BY <1>0, <1>3, <2>2, <2>4
    <3> QED
      BY <2>3, <3>1 DEF Link
  <2>5. CASE j = L
    <3>0. h # 0 /\ h <= term
      BY <1>0, <2>1
    <3>1. calls'[r][j].hop = h /\ h # 0 /\ h <= term
      BY <2>2, <2>5, <3>0
    <3> QED
      BY <1>0, <1>3, <2>1, <2>2, <2>5, <3>1 DEF Link
  <2>6. CASE j < L
    <3>1. j \in 1 .. L /\ Link(r, j) /\ calls[r][j].hop \in Nat
      BY <2>1, <2>3, <2>6, CallType
    <3>2. calls'[r][j] = calls[r][j] /\ j # L
      BY <2>1, <2>2, <2>6, <3>1
    <3>3. CASE j + 1 = L
      <4>0. calls[r][j + 1].pc = "lookup" /\ view[calls[r][j + 1].node] = h /\ h # 0
        BY <1>0, <2>1, <3>3
      <4>1. calls[r][j].hop < h
        BY <2>6, <3>1, <4>0 DEF Link
      <4> QED
        BY <1>0, <1>3, <2>1, <2>2, <2>6, <3>1, <3>2, <3>3, <4>1 DEF Link
    <3>4. CASE j + 1 # L
      <4>1. j + 1 \in 1 .. L /\ calls'[r][j + 1] = calls[r][j + 1]
        BY <2>1, <2>2, <2>3, <2>6, <3>4
      <4> QED
        BY <1>0, <1>3, <2>1, <2>2, <2>6, <3>1, <3>2, <4>1 DEF Link
    <3> QED
      BY <3>3, <3>4
  <2> QED
    BY <2>1, <2>3, <2>4, <2>5, <2>6
<1> QED
  BY <1>2, <1>3

LEMMA WayInductive ==
    ASSUME TypeOK, TypeOK', RaftInv, WayInv, [Next]_vars
    PROVE  WayInv'
<1>0. \A q \in Requests : \A j \in 1 .. Len(calls[q]) : Link(q, j)
  BY WayIsLinks DEF TypeOK, LinksInv
<1> SUFFICES ASSUME NEW q \in Requests, NEW j \in 1 .. Len(calls'[q]) PROVE Link(q, j)'
  <2>1. (calls \in [Requests -> Seq(Call)])'
    BY DEF TypeOK
  <2>2. LinksInv'
    BY DEF LinksInv
  <2> QED
    BY <2>1, <2>2, WayIsLinks, PTL
<1>1. CASE RaftStep
  BY <1>0, <1>1, RaftStepEffect, RaftKeepsLinks DEF RaftStep, Elect, LoseLeader, HearLeader, requestVars
<1>2. CASE UNCHANGED <<raftVars, calls>>
  BY <1>0, <1>2 DEF Link, raftVars
<1>3. ASSUME NEW r \in Requests, NEW n \in Nodes, ClientCall(r, n) PROVE Link(q, j)'
  <2>1. CASE q # r
    BY <1>0, <1>3, <2>1 DEF ClientCall, Link, raftVars, TypeOK
  <2>2. CASE q = r
    <3>1. calls'[q] = <<NewCall(r, n)>> /\ term' = term /\ term \in Nat
      BY <1>3, <2>2, ForwardingAssumption DEF ClientCall, raftVars, TypeOK, Terms
    <3>2. Len(calls'[q]) = 1 /\ j = 1 /\ calls'[q][1] = NewCall(r, n)
      BY <3>1
    <3> QED
      BY <3>1, <3>2 DEF Link, NewCall
  <2> QED
    BY <2>1, <2>2
<1>4. ASSUME NEW r \in Requests, NEW i \in DOMAIN calls[r], Invoke(r, i) PROVE Link(q, j)'
  BY <1>0, <1>4, InvokeKeepsLinks
<1>5. ASSUME NEW r \in Requests, NEW i \in DOMAIN calls[r], NEW to \in PCs, LocalStep(r, i, to)
      PROVE  Link(q, j)'
  <2>1. Moved(r, i, to) /\ UNCHANGED raftVars
    BY <1>5, LocalStepMoves DEF TypeOK
  <2>2. i \in 1 .. Len(calls[r])
    BY <2>1 DEF Moved
  <2>3. \/ to \notin {"check", "lookup"}
        \/ to = "lookup" /\ ~role[calls[r][i].node] /\ calls[r][i].pc = "check"
    BY <1>5 DEF LocalStep, IsLeader, Goto, AfterError
  <2> QED
    BY <1>0, <2>1, <2>2, <2>3, MoveKeepsLinks
<1> QED
  <2>1. UNCHANGED vars \/ (GossipNext /\ UNCHANGED <<raftVars, requestVars>>) => UNCHANGED <<raftVars, calls>>
    BY DEF vars, requestVars
  <2> QED
    BY <1>1, <1>2, <1>3, <1>4, <1>5, <2>1, StepCases

-----------------------------------------------------------------------------
(* Adds *)

LEMMA LocalStepKeepsAdd ==
    ASSUME TypeOK, NEW r \in Requests, NEW i \in DOMAIN calls[r], NEW to \in PCs, LocalStep(r, i, to),
           kind[r] = "add", AddOK(r)
    PROVE  AddOK(r)'
<1>1. Moved(r, i, to)
  BY LocalStepMoves DEF TypeOK
<1>2. i \in 1 .. Len(calls[r]) /\ Len(calls[r]) \in Nat /\ Len(calls'[r]) = Len(calls[r])
  BY <1>1, CallType DEF Moved
<1>3. \A j \in 1 .. Len(calls[r]) : calls'[r][j].pc = IF j = i THEN to ELSE calls[r][j].pc
  BY <1>1 DEF Moved
<1>4. CASE IsLeader(r, i)
  <2>1. calls[r][i].pc = "check" /\ to \in {"local", "lookup"} /\ applied' = applied
    BY <1>1, <1>2, <1>3, <1>4 DEF IsLeader, Goto, Moved, PCs
  <2> QED
    BY <1>2, <1>3, <2>1 DEF AddOK
<1>5. CASE UNCHANGED applied /\ to = "err"
  BY <1>2, <1>3, <1>5 DEF AddOK
<1>6. CASE UNCHANGED applied /\ to = "ok" /\ i + 1 \in 1 .. Len(calls[r]) /\ calls[r][i + 1].pc = "ok"
  BY <1>2, <1>3, <1>6 DEF AddOK
<1>7. CASE calls[r][i].pc = "local" /\ applied' = [applied EXCEPT ![r] = @ + 1] /\ to \in {"ok", "err"}
  <2>1. i = Len(calls[r]) /\ applied[r] = 0
    BY <1>2, <1>7 DEF AddOK
  <2>2. applied'[r] = 1
    BY <1>7, <2>1 DEF TypeOK
  <2>3. \A j \in 1 .. Len(calls[r]) : calls'[r][j].pc \notin {"check", "lookup", "local"}
    BY <1>2, <1>3, <1>7, <2>1 DEF AddOK
  <2> QED
    BY <1>2, <2>2, <2>3 DEF AddOK
<1>8. \/ IsLeader(r, i)
      \/ UNCHANGED applied /\ to = "err"
      \/ UNCHANGED applied /\ to = "ok" /\ i + 1 \in DOMAIN calls[r] /\ calls[r][i + 1].pc = "ok"
      \/ calls[r][i].pc = "local" /\ applied' = [applied EXCEPT ![r] = @ + 1] /\ to \in {"ok", "err"}
  BY DEF LocalStep, NoAddress, Answered, InvokeFailed, Applied, ApplyFailed, QuerySucceeded,
         QueryFailed, Goto, AfterError
<1>9. DOMAIN calls[r] = 1 .. Len(calls[r])
  BY LenProperties DEF TypeOK
<1> QED
  BY <1>4, <1>5, <1>6, <1>7, <1>8, <1>9

LEMMA AddInductive ==
    ASSUME TypeOK, RaftInv, AddInv, [Next]_vars
    PROVE  AddInv'
<1> SUFFICES ASSUME NEW q \in Requests, kind'[q] = "add" PROVE AddOK(q)'
  BY DEF AddInv
<1>1. kind' = kind /\ AddOK(q)
  <2>1. kind' = kind
    BY StepCases, LocalStepMoves
       DEF TypeOK, RaftStep, Elect, LoseLeader, HearLeader, ClientCall, Invoke, requestVars, vars
  <2> QED
    BY <2>1 DEF AddInv
<1>2. CASE UNCHANGED <<calls, applied>>
  BY <1>1, <1>2 DEF AddOK
<1>3. ASSUME NEW r \in Requests, NEW n \in Nodes, ClientCall(r, n) PROVE AddOK(q)'
  <2>1. CASE q # r
    BY <1>1, <1>3, <2>1 DEF ClientCall, AddOK, TypeOK
  <2>2. CASE q = r
    <3>1. calls'[q] = <<NewCall(r, n)>> /\ Len(calls[q]) = 0 /\ applied' = applied
      BY <1>3, <2>2 DEF ClientCall, TypeOK
    <3>2. Len(calls'[q]) = 1 /\ applied'[q] = 0
      BY <1>1, <3>1 DEF AddOK
    <3>3. NewCall(r, n).pc = "check"
      BY <1>1, <2>2 DEF NewCall
    <3>4. calls'[q][1] = NewCall(r, n)
      BY <3>1
    <3>5. \A i \in 1 .. Len(calls'[q]) : i = Len(calls'[q]) /\ calls'[q][i].pc = "check"
      BY <3>2, <3>3, <3>4
    <3>6. applied'[q] <= 1
      BY <3>2
    <3> QED
      BY <3>2, <3>5, <3>6 DEF AddOK
  <2> QED
    BY <2>1, <2>2
<1>4. ASSUME NEW r \in Requests, NEW i \in DOMAIN calls[r], Invoke(r, i) PROVE AddOK(q)'
  <2>1. applied' = applied
    BY <1>4 DEF Invoke
  <2>2. Invoked(r, i)
    BY <1>4, InvokeInvokes
  <2>3. CASE q # r
    BY <1>1, <2>1, <2>2, <2>3 DEF Invoked, AddOK
  <2>4. CASE q = r
    <3> DEFINE L == Len(calls[q])
    <3>1. i \in 1 .. L /\ L \in Nat /\ calls[q][i].pc = "lookup"
      BY <2>2, <2>4, CallType DEF Invoked
    <3>2. i = L /\ applied[q] = 0
      BY <1>1, <3>1 DEF AddOK
    <3>3. /\ Len(calls'[q]) = L + 1
          /\ \A j \in 1 .. L : j # L => calls'[q][j] = calls[q][j]
          /\ calls'[q][L].pc = "invoke"
          /\ calls'[q][L + 1].pc = "check"
      BY <1>1, <2>2, <2>4, <3>2 DEF Invoked, NewCall
    <3>4. ASSUME NEW j \in 1 .. L + 1
          PROVE  /\ calls'[q][j].pc \in {"check", "lookup", "local"} => j = L + 1
                 /\ calls'[q][j].pc # "ok"
      <4>1. CASE j \in 1 .. L /\ j # L
        <5>1. calls'[q][j] = calls[q][j] /\ calls[q][j].pc \notin {"check", "lookup", "local", "ok"}
          BY <1>1, <3>2, <3>3, <4>1 DEF AddOK
        <5> QED
          BY <5>1
      <4>2. CASE j = L \/ j = L + 1
        BY <3>1, <3>3, <4>2
      <4> QED
        BY <3>1, <4>1, <4>2
    <3> QED
      <4>1. applied'[q] = 0 /\ Len(calls'[q]) = L + 1 /\ L + 1 # 0
        BY <2>1, <3>1, <3>2, <3>3
      <4> QED
        BY <3>4, <4>1 DEF AddOK
  <2> QED
    BY <2>3, <2>4
<1>5. ASSUME NEW r \in Requests, NEW i \in DOMAIN calls[r], NEW to \in PCs, LocalStep(r, i, to)
      PROVE  AddOK(q)'
  <2>1. CASE q = r
    BY <1>1, <1>5, <2>1, LocalStepKeepsAdd
  <2>2. CASE q # r
    <3>1. calls'[q] = calls[q]
      BY <1>5, <2>2, LocalStepMoves DEF TypeOK, Moved
    <3>2. applied'[q] = applied[q]
      BY <1>5, <2>2 DEF LocalStep, IsLeader, NoAddress, Answered, InvokeFailed, Applied, ApplyFailed,
                        QuerySucceeded, QueryFailed, TypeOK
    <3> QED
      BY <1>1, <3>1, <3>2 DEF AddOK
  <2> QED
    BY <2>1, <2>2
<1>6. RaftStep \/ UNCHANGED vars \/ (GossipNext /\ UNCHANGED <<raftVars, requestVars>>)
          => UNCHANGED <<calls, applied>>
  BY DEF RaftStep, Elect, LoseLeader, HearLeader, requestVars, vars
<1> QED
  BY <1>2, <1>3, <1>4, <1>5, <1>6, StepCases

-----------------------------------------------------------------------------
(* The theorems *)

LEMMA InitInv == Init => IInv
<1> SUFFICES ASSUME Init PROVE IInv
  OBVIOUS
<1>1. TypeOK
  BY GossipAssumption, ForwardingAssumption DEF Init, TypeOK, GossipTypeOK, Terms
<1>2. RaftInv
  BY DEF Init, RaftInv
<1>3. \A r \in Requests : Len(calls[r]) = 0 /\ DOMAIN calls[r] = {}
  BY DEF Init
<1>4. WayInv
  BY <1>3 DEF WayInv, ChainInv, LookupInv, HopsClimb
<1>5. AddInv
  BY <1>3 DEF Init, AddInv, AddOK
<1> QED
  BY <1>1, <1>2, <1>4, <1>5 DEF IInv

LEMMA NextInv == IInv /\ [Next]_vars => IInv'
<1> SUFFICES ASSUME IInv, [Next]_vars PROVE IInv'
  OBVIOUS
<1>1. TypeOK'
  BY TypeInductive DEF IInv
<1>2. RaftInv'
  <2>1. CASE RaftStep
    BY <2>1, RaftStepEffect, RaftInvInductive DEF IInv
  <2>2. CASE UNCHANGED raftVars
    BY <2>2 DEF IInv, RaftInv, raftVars
  <2> QED
    BY <2>1, <2>2, StepCases, LocalStepMoves
       DEF IInv, TypeOK, ClientCall, Invoke, vars
<1> QED
  BY <1>1, <1>2, WayInductive, AddInductive DEF IInv

\* Whatever the resolvers answer and however elections and failures fall, the
\* hops of a request lead to ever newer leaders.
THEOREM HopsAlwaysClimb == Spec => []HopsClimb
<1>1. IInv => HopsClimb
  BY DEF IInv, WayInv
<1> QED
  BY <1>1, InitInv, NextInv, PTL DEF Spec

LEMMA FirstCall ==
    ASSUME TypeOK, NEW r \in Requests, calls[r] # <<>>
    PROVE  1 \in 1 .. Len(calls[r])
  BY EmptySeq DEF TypeOK

\* An Add is logged at most once, and once when its client is told so.
THEOREM AddSafety == Spec => []AddedOnce
<1>1. IInv => AddedOnce
  BY FirstCall DEF IInv, AddedOnce, AddInv, AddOK
<1> QED
  BY <1>1, InitInv, NextInv, PTL DEF Spec

\* The type invariant: a request is a stack of calls, each at a node, in one of
\* the states of its handler (Add, Get, forwardRequestToLeader).
THEOREM ForwardingTypes == Spec => []TypeOK
<1>1. IInv => TypeOK
  BY DEF IInv
<1> QED
  BY <1>1, InitInv, NextInv, PTL DEF Spec

\* The hop of handler i is at least i: a newer leader for each hop.
HopsInv ==
    \A r \in Requests : \A i \in 1 .. Len(calls[r]) : calls[r][i].hop # 0 => i <= calls[r][i].hop

\* A request is in the hands of at most one handler for each election, and
\* the one that its client called.
HopsBounded == \A r \in Requests : Len(calls[r]) <= term + 1

\* An invocation, handler by handler.
LEMMA InvokedCalls ==
    ASSUME NEW r \in Requests, NEW i, Invoked(r, i)
    PROVE  /\ \A q \in Requests \ {r} : calls'[q] = calls[q]
           /\ Len(calls'[r]) = Len(calls[r]) + 1
           /\ \A j \in 1 .. Len(calls[r]) : j # i => calls'[r][j] = calls[r][j]
           /\ calls[r][i].pc = "lookup"
           /\ calls'[r][i].node = calls[r][i].node /\ calls'[r][i].hop = view[calls[r][i].node]
           /\ calls'[r][Len(calls[r]) + 1].node = leaderOf[view[calls[r][i].node]]
           /\ calls'[r][Len(calls[r]) + 1].hop = 0
           /\ view[calls[r][i].node] \in 1 .. term
<1>1. /\ \A q \in Requests \ {r} : calls'[q] = calls[q]
      /\ Len(calls'[r]) = Len(calls[r]) + 1
      /\ \A j \in 1 .. Len(calls[r]) : j # i => calls'[r][j] = calls[r][j]
      /\ calls[r][i].pc = "lookup"
      /\ view[calls[r][i].node] \in 1 .. term
  BY Zenon DEF Invoked
<1>2. calls'[r][i] = [node |-> calls[r][i].node, pc |-> "invoke", hop |-> view[calls[r][i].node]]
  BY Zenon DEF Invoked
<1>3. calls'[r][Len(calls[r]) + 1] = NewCall(r, leaderOf[view[calls[r][i].node]])
  BY Zenon DEF Invoked
<1>4. calls'[r][i].node = calls[r][i].node /\ calls'[r][i].hop = view[calls[r][i].node]
  BY <1>2
<1>5. /\ calls'[r][Len(calls[r]) + 1].node = leaderOf[view[calls[r][i].node]]
      /\ calls'[r][Len(calls[r]) + 1].hop = 0
  BY <1>3 DEF NewCall
<1> QED
  BY <1>1, <1>4, <1>5, Zenon

\* Only conn.Invoke sets a hop, and it sets one beyond that of the handler before.
LEMMA HopsInductive ==
    ASSUME IInv, IInv', HopsInv, [Next]_vars
    PROVE  HopsInv'
<1>0. calls \in [Requests -> Seq(Call)] /\ calls' \in [Requests -> Seq(Call)]
  BY DEF IInv, TypeOK
<1>1. ASSUME NEW r \in Requests, NEW i \in 1 .. Len(calls[r]), NEW to \in PCs, LocalStep(r, i, to)
      PROVE  HopsInv'
  <2>1. Moved(r, i, to)
    BY <1>0, <1>1, LocalStepMoves
  <2>2. ASSUME NEW q \in Requests, NEW j \in 1 .. Len(calls'[q]), calls'[q][j].hop # 0
        PROVE  j <= calls'[q][j].hop
    <3>1. j \in 1 .. Len(calls[q]) /\ calls'[q][j].hop = calls[q][j].hop
      BY <2>1 DEF Moved
    <3> QED
      BY <2>2, <3>1 DEF HopsInv
  <2> QED
    BY <2>2 DEF HopsInv
<1>2. ASSUME NEW r \in Requests, NEW n \in Nodes, ClientCall(r, n)
      PROVE  HopsInv'
  <2>1. calls' = [calls EXCEPT ![r] = <<NewCall(r, n)>>]
    BY <1>2 DEF ClientCall
  <2>2. calls'[r] = <<NewCall(r, n)>> /\ \A q \in Requests \ {r} : calls'[q] = calls[q]
    BY <1>0, <2>1
  <2>3. \A i \in 1 .. Len(calls'[r]) : calls'[r][i].hop = 0
    BY <2>2 DEF NewCall
  <2> QED
    BY <2>2, <2>3 DEF HopsInv
<1>3. ASSUME NEW r \in Requests, NEW i \in 1 .. Len(calls[r]), Invoke(r, i)
      PROVE  HopsInv'
  <2>1. Invoked(r, i)
    BY <1>3, InvokeInvokes DEF IInv
  <2>2. /\ \A q \in Requests \ {r} : calls'[q] = calls[q]
        /\ Len(calls'[r]) = Len(calls[r]) + 1 /\ Len(calls[r]) \in Nat
        /\ \A j \in 1 .. Len(calls[r]) : j # i => calls'[r][j] = calls[r][j]
        /\ calls'[r][Len(calls[r]) + 1].hop = 0
        /\ calls[r][i].pc = "lookup" /\ calls'[r][i].hop = view[calls[r][i].node]
    <3>1. Len(calls[r]) \in Nat
      BY <1>0
    <3> QED
      BY <2>1, <3>1, InvokedCalls, ZenonT(40)
  <2>3. calls'[r][i].hop \in Nat /\ calls'[r][i].hop >= 1
    <3>1. view[calls[r][i].node] \in 1 .. term
      BY <2>1, InvokedCalls, Zenon
    <3>2. TypeOK
      BY DEF IInv
    <3>3. term \in Nat
      BY <3>2, ForwardingAssumption DEF TypeOK, Terms
    <3> QED
      BY <2>2, <3>1, <3>3
  <2>4. ASSUME i # 1 PROVE i <= calls'[r][i].hop
    <3>1. i - 1 \in 1 .. Len(calls[r]) /\ i - 1 # Len(calls[r]) /\ (i - 1) + 1 = i
      BY <2>2, <2>4
    <3>2. i - 1 <= calls[r][i - 1].hop
      BY <1>0, <3>1 DEF HopsInv, IInv, WayInv, ChainInv
    <3>3. calls[r][i - 1].hop < calls'[r][i].hop
      <4>1. view[calls[r][i].node] # 0
        BY <2>2, <2>3
      <4> DEFINE j == i - 1
      <4>2. j \in DOMAIN calls[r] /\ j + 1 \in DOMAIN calls[r] /\ i = j + 1
        BY <1>0, <3>1
      <4> HIDE DEF j
      <4>3. calls[r][j].hop < view[calls[r][i].node]
        BY <2>2, <4>1, <4>2 DEF IInv, WayInv, LookupInv
      <4> QED
        BY <2>2, <4>3 DEF j
    <3>4. calls[r][i - 1].hop \in Nat
      <4>1. calls[r][i - 1] \in Call
        BY <1>0, <3>1
      <4> QED
        BY <4>1, ForwardingAssumption DEF Call, Terms
    <3> QED
      BY <2>3, <3>2, <3>3, <3>4
  <2>5. ASSUME NEW j \in 1 .. Len(calls'[r]), calls'[r][j].hop # 0 PROVE j <= calls'[r][j].hop
    <3>1. j \in 1 .. Len(calls[r])
      <4>1. j # Len(calls[r]) + 1
        BY <2>2, <2>5, Zenon
      <4>2. Len(calls'[r]) = Len(calls[r]) + 1 /\ Len(calls[r]) \in Nat
        BY <2>2
      <4> QED
        BY <4>1, <4>2
    <3>2. CASE j = i
      BY <2>3, <2>4, <3>2
    <3>3. CASE j # i
      BY <2>2, <2>5, <3>1, <3>3 DEF HopsInv
    <3> QED
      BY <3>2, <3>3
  <2> QED
    BY <2>2, <2>5 DEF HopsInv
<1>4. ASSUME UNCHANGED calls PROVE HopsInv'
  BY <1>4 DEF HopsInv
<1>5. RaftStep => UNCHANGED calls
  BY DEF RaftStep, Elect, LoseLeader, HearLeader, requestVars
<1>6. \A r \in Requests : DOMAIN calls[r] = 1 .. Len(calls[r])
  BY <1>0
<1> QED
  BY <1>1, <1>2, <1>3, <1>4, <1>5, <1>6, StepCases DEF vars, requestVars

\* forwardRequestToLeader counts no hops, and yet a request is never handled
\* by more than one handler for each election there has been, and one.
THEOREM HopsAreBounded == Spec => []HopsBounded
<1>1. Init => HopsInv
  BY DEF Init, HopsInv
<1>2. IInv /\ HopsInv => HopsBounded
  <2> SUFFICES ASSUME IInv, HopsInv, NEW r \in Requests PROVE Len(calls[r]) <= term + 1
    BY DEF HopsBounded
  <2>1. calls[r] \in Seq(Call) /\ Len(calls[r]) \in Nat /\ term \in Nat
    BY ForwardingAssumption DEF IInv, TypeOK, Terms
  <2> DEFINE l == Len(calls[r]) - 1
  <2>2. ASSUME Len(calls[r]) > 1 PROVE Len(calls[r]) <= term + 1
    <3>1. l \in 1 .. Len(calls[r]) /\ l # Len(calls[r])
      BY <2>1, <2>2
    <3>2. calls[r][l].hop <= term /\ l <= calls[r][l].hop
      BY <2>1, <3>1 DEF IInv, WayInv, ChainInv, HopsInv
    <3>3. calls[r][l].hop \in Nat
      <4>1. calls[r][l] \in Call
        BY <2>1, <3>1
      <4> QED
        BY <4>1, ForwardingAssumption DEF Call, Terms
    <3> HIDE DEF l
    <3>4. l <= term
      BY <2>1, <3>1, <3>2, <3>3
    <3> QED
      BY <2>1, <3>4 DEF l
  <2> QED
    BY <2>1, <2>2
<1> QED
  BY <1>1, <1>2, InitInv, NextInv, HopsInductive, PTL DEF Spec

-----------------------------------------------------------------------------
(* Gossip *)

\* The map of a node that runs holds the node, that of one that does not
\* nothing, and no map a node that does not take part.
MembersInv ==
    \A n \in Nodes :
        /\ up[n] => n \in GossipNodes /\ n \in nodes[n]
        /\ ~up[n] => nodes[n] = {}
        /\ nodes[n] \subseteq GossipNodes

\* The types of Gossip.nodes and of the join goroutine of New, on their own.
THEOREM GossipTypes == GossipSpec => []GossipTypeOK
<1>1. GossipInit => GossipTypeOK
  BY GossipAssumption DEF GossipInit, GossipTypeOK
<1>2. GossipTypeOK /\ [GossipNext]_gossipVars => GossipTypeOK'
  BY GossipTypeInductive DEF GossipTypeOK, gossipVars
<1> QED
  BY <1>1, <1>2, PTL DEF GossipSpec

\* What NotifyJoin, NotifyLeave and the join goroutine do to the maps.
LEMMA MembersInductive ==
    ASSUME GossipTypeOK, MembersInv, [GossipNext]_gossipVars
    PROVE  MembersInv'
<1>1. CASE UNCHANGED gossipVars
  BY <1>1 DEF MembersInv, gossipVars
<1>2. CASE GossipNext
  <2>1. PICK n \in GossipNodes, m \in GossipNodes :
            New(n) \/ JoinStep(n) \/ Stop(n) \/ NotifyJoin(n, m) \/ NotifyLeave(n, m)
    BY <1>2 DEF GossipNext
  <2>2. n \in Nodes
    BY GossipAssumption
  <2>3. CASE JoinSucceeded(n)
    <3> DEFINE answering == {s \in Seeds[n] : up[s]}
    <3>1. answering \subseteq Nodes
      BY <2>2, GossipAssumption
    <3>2. UNION {nodes[s] : s \in answering} \subseteq GossipNodes
      BY <3>1 DEF MembersInv
    <3>3. ASSUME NEW k \in Nodes
          PROVE  /\ nodes'[k] \subseteq GossipNodes /\ nodes[k] \subseteq nodes'[k]
                 /\ ~up[k] => nodes'[k] = nodes[k]
      <4>1. nodes'[k] = CASE k = n -> nodes[n] \cup UNION {nodes[s] : s \in answering}
                          [] k \in answering \ {n} -> nodes[k] \cup nodes[n]
                          [] OTHER -> nodes[k]
        BY <2>3 DEF JoinSucceeded
      <4>2. nodes[k] \subseteq GossipNodes /\ nodes[n] \subseteq GossipNodes /\ up[n]
        BY <2>2, <2>3 DEF MembersInv, JoinSucceeded, Joining
      <4> QED
        BY <3>2, <4>1, <4>2
    <3> QED
      BY <2>3, <3>3 DEF MembersInv, JoinSucceeded
  <2>4. CASE New(n) \/ JoinFailed(n) \/ Stop(n) \/ NotifyJoin(n, m) \/ NotifyLeave(n, m)
    BY <2>2, <2>4 DEF New, JoinFailed, Stop, NotifyJoin, NotifyLeave, MembersInv, GossipTypeOK
  <2> QED
    BY <2>1, <2>3, <2>4 DEF JoinStep
<1> QED
  BY <1>1, <1>2

\* A running node's map always has the node itself and only nodes that take
\* part, whatever memberlist reports (New, NotifyJoin, NotifyLeave).
THEOREM MapsHoldMembers == GossipSpec => []MembersInv
<1>1. GossipInit => MembersInv
  BY DEF GossipInit, MembersInv
<1> QED
  BY <1>1, GossipTypes, MembersInductive, PTL DEF GossipSpec

\* A handler that another one has invoked runs on a node that takes part in
\* the gossip or that the static lookup lists.
InvokedIsListed ==
    \A r \in Requests : \A i \in 2 .. Len(calls[r]) : calls[r][i].node \in GossipNodes \cup StaticLookup

\* Only conn.Invoke adds a handler, at an address that a lookup returned.
LEMMA ListedInductive ==
    ASSUME IInv, IInv', MembersInv, InvokedIsListed, [Next]_vars
    PROVE  InvokedIsListed'
<1>0. calls \in [Requests -> Seq(Call)] /\ calls' \in [Requests -> Seq(Call)]
  BY DEF IInv, TypeOK
<1>1. ASSUME NEW r \in Requests, NEW i \in 1 .. Len(calls[r]), NEW to \in PCs, LocalStep(r, i, to)
      PROVE  InvokedIsListed'
  <2>1. Moved(r, i, to)
    BY <1>0, <1>1, LocalStepMoves
  <2>2. ASSUME NEW q \in Requests, NEW j \in 2 .. Len(calls'[q])
        PROVE  calls'[q][j].node \in GossipNodes \cup StaticLookup
    <3>1. Len(calls'[q]) = Len(calls[q]) /\ Len(calls[q]) \in Nat
      <4>1. Len(calls'[q]) = Len(calls[q])
        BY <2>1 DEF Moved
      <4> QED
        BY <1>0, <4>1
    <3>2. j \in 1 .. Len(calls[q]) /\ j \in 2 .. Len(calls[q])
      BY <3>1
    <3>3. calls'[q][j].node = calls[q][j].node
      BY <2>1, <3>2 DEF Moved
    <3> QED
      BY <3>2, <3>3 DEF InvokedIsListed
  <2> QED
    BY <2>2 DEF InvokedIsListed
<1>2. ASSUME NEW r \in Requests, NEW n \in Nodes, ClientCall(r, n)
      PROVE  InvokedIsListed'
  <2>1. calls' = [calls EXCEPT ![r] = <<NewCall(r, n)>>]
    BY <1>2 DEF ClientCall
  <2>2. Len(calls'[r]) = 1 /\ \A q \in Requests \ {r} : calls'[q] = calls[q]
    BY <1>0, <2>1
  <2> QED
    BY <2>2 DEF InvokedIsListed
<1>3. ASSUME NEW r \in Requests, NEW i \in 1 .. Len(calls[r]), Invoke(r, i)
      PROVE  InvokedIsListed'
  <2> DEFINE n == calls[r][i].node
  <2>1. Invoked(r, i)
    BY <1>3, InvokeInvokes DEF IInv
  <2>2. n \in Nodes /\ view[n] \in 1 .. term
    <3>1. calls[r][i] \in Call
      BY <1>0
    <3> QED
      BY <2>1, <3>1 DEF Invoked, Call
  <2>3. PICK m \in LeaderAddrs(n) : TRUE
    BY <1>3 DEF Invoke
  <2>4. m = leaderOf[view[n]]
    <3>0. TypeOK
      BY DEF IInv
    <3>1. term \in Nat
      <4>1. term \in Terms
        BY <3>0 DEF TypeOK
      <4> QED
        BY <4>1, ForwardingAssumption DEF Terms
    <3>2. view[n] <= term
      BY <2>2, <3>1
    <3> QED
      BY <2>2, <2>3, <3>0, <3>2, AddrIsLeader
  <2>5. m \in GossipNodes \cup StaticLookup
    <3>1. nodes[n] \subseteq GossipNodes
      BY <2>2 DEF MembersInv
    <3> QED
      BY <2>3, <3>1 DEF LeaderAddrs, GetGRPCAddr
  <2>6. /\ \A q \in Requests \ {r} : calls'[q] = calls[q]
        /\ Len(calls'[r]) = Len(calls[r]) + 1 /\ Len(calls[r]) \in Nat
        /\ \A j \in 1 .. Len(calls[r]) : calls'[r][j].node = calls[r][j].node
        /\ calls'[r][Len(calls[r]) + 1].node = m
    <3>1. Len(calls[r]) \in Nat
      BY <1>0
    <3> QED
      BY <2>1, <2>4, <3>1, InvokedCalls, ZenonT(40)
  <2>7. ASSUME NEW j \in 2 .. Len(calls'[r]) PROVE calls'[r][j].node \in GossipNodes \cup StaticLookup
    <3>1. CASE j = Len(calls[r]) + 1
      BY <2>5, <2>6, <3>1
    <3>2. CASE j \in 2 .. Len(calls[r])
      <4>1. j \in 1 .. Len(calls[r])
        BY <2>6, <3>2
      <4>2. calls'[r][j].node = calls[r][j].node
        BY <2>6, <4>1, Zenon
      <4> QED
        BY <3>2, <4>2, Zenon DEF InvokedIsListed
    <3>3. Len(calls'[r]) = Len(calls[r]) + 1 /\ Len(calls[r]) \in Nat
      BY <2>6
    <3>4. j = Len(calls[r]) + 1 \/ j \in 2 .. Len(calls[r])
      BY <3>3
    <3> QED
      BY <3>1, <3>2, <3>4
  <2> QED
    BY <2>6, <2>7 DEF InvokedIsListed
<1>4. ASSUME UNCHANGED calls PROVE InvokedIsListed'
  BY <1>4 DEF InvokedIsListed
<1>5. RaftStep => UNCHANGED calls
  BY DEF RaftStep, Elect, LoseLeader, HearLeader, requestVars
<1>6. \A r \in Requests : DOMAIN calls[r] = 1 .. Len(calls[r])
  BY <1>0
<1> QED
  BY <1>1, <1>2, <1>3, <1>4, <1>5, <1>6, StepCases DEF vars, requestVars

\* The only steps of Forwarding on the maps are those of Gossip.
LEMMA ComposesGossip ==
    ASSUME TypeOK, [Next]_vars
    PROVE  [GossipNext]_gossipVars
<1>1. RaftStep => UNCHANGED gossipVars
  BY DEF RaftStep, Elect, LoseLeader, HearLeader
<1>2. \A r \in Requests, n \in Nodes : ClientCall(r, n) => UNCHANGED gossipVars
  BY DEF ClientCall
<1>3. \A r \in Requests : \A i : Invoke(r, i) => UNCHANGED gossipVars
  BY DEF Invoke
<1>4. \A r \in Requests : \A i : \A to \in PCs : LocalStep(r, i, to) => UNCHANGED gossipVars
  BY LocalStepMoves DEF TypeOK
<1>5. UNCHANGED vars => UNCHANGED gossipVars
  BY DEF vars, gossipVars
<1> QED
  BY <1>1, <1>2, <1>3, <1>4, <1>5, StepCases

\* A request is only ever forwarded to a node that takes part in the gossip
\* or that the static lookup lists, while members come and go
\* (resolver.GetGRPCAddr).
THEOREM ForwardedToListed == Spec => []InvokedIsListed
<1>1. Init => MembersInv /\ InvokedIsListed
  <2>1. Init => MembersInv
    BY DEF Init, MembersInv
  <2>2. Init => \A r \in Requests : Len(calls[r]) = 0
    BY DEF Init
  <2> QED
    BY <2>1, <2>2 DEF InvokedIsListed
<1>2. IInv /\ IInv' /\ MembersInv /\ InvokedIsListed /\ [Next]_vars => MembersInv' /\ InvokedIsListed'
  <2> SUFFICES ASSUME IInv, IInv', MembersInv, InvokedIsListed, [Next]_vars
               PROVE  MembersInv' /\ InvokedIsListed'
    OBVIOUS
  <2>1. TypeOK /\ GossipTypeOK
    BY DEF IInv, TypeOK
  <2>2. MembersInv'
    BY <2>1, ComposesGossip, MembersInductive
  <2> QED
    BY <2>2, ListedInductive
<1> QED
  BY <1>1, <1>2, InitInv, NextInv, PTL DEF Spec

=============================================================================
