----------------------------- MODULE Forwarding -----------------------------
(***************************************************************************)
(* Requests and their way to the leader: Add, Get and                      *)
(* forwardRequestToLeader of service/service.go, GetLeader of engine/kv.go *)
(* and the resolvers of resolver/resolver.go over the map of Gossip.       *)
(*                                                                         *)
(* A request is a stack of calls.  Each call is a handler on one node that *)
(* handles the request itself or invokes the same method on the node it    *)
(* takes for the leader and waits for the answer.  The context sets no     *)
(* limit to the number of calls.  raft is external: a node's currentTerm,  *)
(* its role and the leader it knows, given by the term of that leader.     *)
(***************************************************************************)
EXTENDS Gossip, Sequences

CONSTANTS
    Requests,
    NodeID,       \* NodeID[n]: --raft_id of n, the key of Gossip.nodes
    RaftAddr,     \* RaftAddr[n]: raft's address of n, the key of StaticLookup
    StaticLookup, \* the nodes that StaticLookup lists
    MaxTerm       \* bound on the elections

\* Addresses are unique, and no node's ID is the address of another node.
ASSUME ForwardingAssumption ==
    /\ StaticLookup \subseteq Nodes
    /\ \A n, m \in Nodes : RaftAddr[n] = RaftAddr[m] \/ NodeID[n] = RaftAddr[m] => n = m
    /\ MaxTerm \in Nat

VARIABLES
    term,      \* the latest term that has a leader
    leaderOf,  \* leaderOf[t]: the leader of term t
    cur,       \* currentTerm of each node
    role,      \* State() = Leader
    view,      \* LeaderWithID(), as the term of that leader; 0 if unknown
    kind,      \* kind[r]: "add", "get" (linearizable) or "stale"
    calls,     \* calls[r]: the handlers of request r, the client's one first
    applied    \* how often the entry of an Add has entered the log

raftVars == <<term, leaderOf, cur, role, view>>
requestVars == <<kind, calls, applied>>
vars == <<gossipVars, raftVars, requestVars>>

Terms == 0 .. MaxTerm
PCs == {"check", "lookup", "invoke", "local", "ok", "err"}
Call == [node : Nodes, pc : PCs, hop : Terms]

\* The one type invariant of this module.
TypeOK ==
    /\ GossipTypeOK
    /\ term \in Terms
    /\ leaderOf \in [1 .. term -> Nodes]
    /\ cur \in [Nodes -> Terms] /\ view \in [Nodes -> Terms]
    /\ role \in [Nodes -> BOOLEAN]
    /\ kind \in [Requests -> {"add", "get", "stale"}]
    /\ calls \in [Requests -> Seq(Call)]
    /\ applied \in [Requests -> Nat]

Init ==
    /\ up = [n \in Nodes |-> n \in GossipNodes]
    /\ nodes = [n \in Nodes |-> IF n \in GossipNodes THEN GossipNodes ELSE {}]
    /\ joined = [n \in Nodes |-> n \in GossipNodes]
    /\ attempt = [n \in Nodes |-> 0]
    /\ term = 0 /\ leaderOf = <<>>
    /\ cur = [n \in Nodes |-> 0] /\ view = [n \in Nodes |-> 0]
    /\ role = [n \in Nodes |-> FALSE]
    /\ kind \in [Requests -> {"add", "get", "stale"}]
    /\ calls = [r \in Requests |-> <<>>]
    /\ applied = [r \in Requests |-> 0]

-----------------------------------------------------------------------------
(* raft, external *)

Elect(n) ==
    /\ term < MaxTerm
    /\ ~role[n]
    /\ term' = term + 1
    /\ leaderOf' = Append(leaderOf, n)
    /\ cur' = [cur EXCEPT ![n] = term + 1]
    /\ role' = [role EXCEPT ![n] = TRUE]
    /\ view' = [view EXCEPT ![n] = term + 1]
    /\ UNCHANGED <<gossipVars, requestVars>>

\* A heartbeat, perhaps an old one, of the leader of term t.
HearLeader(n, t) ==
    /\ t \in 1 .. term
    /\ t >= cur[n] /\ leaderOf[t] # n /\ view[n] # t
    /\ cur' = [cur EXCEPT ![n] = t]
    /\ role' = [role EXCEPT ![n] = FALSE]
    /\ view' = [view EXCEPT ![n] = t]
    /\ UNCHANGED <<gossipVars, term, leaderOf, requestVars>>

\* A timeout, a vote in a newer term, or the end of a leadership.
LoseLeader(n) ==
    /\ view[n] # 0
    /\ cur' \in {[cur EXCEPT ![n] = t] : t \in cur[n] .. term}
    /\ role' = [role EXCEPT ![n] = FALSE]
    /\ view' = [view EXCEPT ![n] = 0]
    /\ UNCHANGED <<gossipVars, term, leaderOf, requestVars>>

Current(n) == role[n] /\ view[n] = term

-----------------------------------------------------------------------------
(* Handlers *)

NewCall(r, n) == [node |-> n, pc |-> IF kind[r] = "stale" THEN "local" ELSE "check", hop |-> 0]

Goto(r, i, from, to) ==
    /\ i \in DOMAIN calls[r] /\ calls[r][i].pc = from
    /\ calls' = [calls EXCEPT ![r][i].pc = to]

\* The client calls a node; Get with linearizable = false goes straight to
\* the local read.
ClientCall(r, n) ==
    /\ calls[r] = <<>>
    /\ calls' = [calls EXCEPT ![r] = <<NewCall(r, n)>>]
    /\ UNCHANGED <<gossipVars, raftVars, kind, applied>>

\* Mutant of IsLeader: GetLeader without the check of State().
IsLeaderUnchecked(r, i) ==
    /\ Goto(r, i, "check", "lookup")
    /\ UNCHANGED <<gossipVars, raftVars, kind, applied>>

\* GetLeader: State() first ...
IsLeader(r, i) ==
    /\ Goto(r, i, "check", IF role[calls[r][i].node] THEN "local" ELSE "lookup")
    /\ UNCHANGED <<gossipVars, raftVars, kind, applied>>

\* ... and then LeaderWithID.

\* resolver.GetGRPCAddr: the nodes whose gRPC address it returns.
GetGRPCAddr(n, name) ==
    IF n \in GossipNodes THEN {m \in nodes[n] : NodeID[m] = name}
    ELSE {m \in StaticLookup : RaftAddr[m] = name}

LeaderAddrs(n) == IF view[n] = 0 THEN {} ELSE GetGRPCAddr(n, RaftAddr[leaderOf[view[n]]])

\* Mutant of AfterError: Add handles the request itself, as Get does.
AfterErrorLocal(r) == "local"

\* An error of forwardRequestToLeader ends an Add; Get ignores it and goes on
\* with its own Query.
AfterError(r) == IF kind[r] = "add" THEN "err" ELSE "local"

\* No leader, or no address for it.
NoAddress(r, i) ==
    /\ i \in DOMAIN calls[r] /\ LeaderAddrs(calls[r][i].node) = {}
    /\ Goto(r, i, "lookup", AfterError(r))
    /\ UNCHANGED <<gossipVars, raftVars, kind, applied>>

\* conn.Invoke: a handler starts on the other side.
Invoke(r, i) ==
    /\ i \in DOMAIN calls[r] /\ calls[r][i].pc = "lookup"
    /\ LET n == calls[r][i].node
       IN \E m \in LeaderAddrs(n) :
              calls' = [calls EXCEPT ![r] =
                  Append([@ EXCEPT ![i] = [node |-> n, pc |-> "invoke", hop |-> view[n]]],
                         NewCall(r, m))]
    /\ UNCHANGED <<gossipVars, raftVars, kind, applied>>

\* Mutant of Answered: a handler that fails sends no answer.
AnsweredOnSuccess(r, i) ==
    /\ i + 1 \in DOMAIN calls[r] /\ calls[r][i + 1].pc = "ok"
    /\ Goto(r, i, "invoke", "ok")
    /\ UNCHANGED <<gossipVars, raftVars, kind, applied>>

\* The answer of the next handler.
Answered(r, i) ==
    /\ i + 1 \in DOMAIN calls[r] /\ calls[r][i + 1].pc \in {"ok", "err"}
    /\ Goto(r, i, "invoke", IF calls[r][i + 1].pc = "ok" THEN "ok" ELSE AfterError(r))
    /\ UNCHANGED <<gossipVars, raftVars, kind, applied>>

\* The connection fails, is closed by another caller, or the deadline passes;
\* the handler on the other side goes on.
InvokeFailed(r, i) ==
    /\ Goto(r, i, "invoke", AfterError(r))
    /\ UNCHANGED <<gossipVars, raftVars, kind, applied>>

\* kv.Apply on the leader.
Applied(r, i) ==
    /\ kind[r] = "add"
    /\ Goto(r, i, "local", "ok") /\ Current(calls[r][i].node)
    /\ applied' = [applied EXCEPT ![r] = @ + 1]
    /\ UNCHANGED <<gossipVars, raftVars, kind>>

\* kv.Apply fails; a node in the role of the leader may have logged the entry.
ApplyFailed(r, i) ==
    /\ kind[r] = "add"
    /\ Goto(r, i, "local", "err")
    /\ \/ UNCHANGED applied
       \/ role[calls[r][i].node] /\ applied' = [applied EXCEPT ![r] = @ + 1]
    /\ UNCHANGED <<gossipVars, raftVars, kind>>

\* kv.Query: a linearizable one is answered by a leader that a quorum confirms.
QuerySucceeded(r, i) ==
    /\ kind[r] # "add"
    /\ Goto(r, i, "local", "ok")
    /\ kind[r] = "get" => Current(calls[r][i].node)
    /\ UNCHANGED <<gossipVars, raftVars, kind, applied>>

QueryFailed(r, i) ==
    /\ kind[r] # "add"
    /\ Goto(r, i, "local", "err")
    /\ UNCHANGED <<gossipVars, raftVars, kind, applied>>

HandlerStep(r) ==
    \E i \in DOMAIN calls[r] :
        \/ IsLeader(r, i)
        \/ NoAddress(r, i) \/ Invoke(r, i)
        \/ Answered(r, i)
        \/ Applied(r, i) \/ ApplyFailed(r, i)
        \/ QuerySucceeded(r, i) \/ QueryFailed(r, i)

Next ==
    \/ \E n \in Nodes : Elect(n) \/ LoseLeader(n) \/ \E t \in Terms : HearLeader(n, t)
    \/ GossipNext /\ UNCHANGED <<raftVars, requestVars>>
    \/ \E r \in Requests :
           \/ \E n \in Nodes : ClientCall(r, n)
           \/ HandlerStep(r)
           \/ \E i \in DOMAIN calls[r] : InvokeFailed(r, i)

\* Handlers run, and kv.Apply and kv.Query return.  Neither elections nor
\* failing connections are assumed to happen or not to happen.
Fairness == \A r \in Requests : WF_vars(HandlerStep(r))

Spec == Init /\ [][Next]_vars /\ Fairness

-----------------------------------------------------------------------------
(* Properties *)

\* forwardRequestToLeader sets no limit to the hops of a request.  None is
\* needed: each hop follows a newer leadership than the one before, so a
\* request moves on only when elections overtake it and never goes round in
\* a circle.
HopsClimb ==
    \A r \in Requests : \A i \in DOMAIN calls[r] :
        i + 1 \in DOMAIN calls[r] /\ calls[r][i + 1].hop # 0
            => calls[r][i].hop < calls[r][i + 1].hop

\* Whatever fails on the way, an Add enters the log at most once, and it has
\* done so when its client is told so: the error path of Add never handles
\* the request a second time.
AddedOnce ==
    \A r \in Requests : kind[r] = "add" =>
        /\ applied[r] <= 1
        /\ calls[r] # <<>> /\ calls[r][1].pc = "ok" => applied[r] = 1

\* Handlers wait for each other over the network, but every request ends.
RequestsEnd ==
    \A r \in Requests :
        calls[r] # <<>> ~> calls[r] # <<>> /\ calls[r][1].pc \in {"ok", "err"}

\* "When forwarding requests to the leader, the gRPC address is resolved
\* dynamically" (README.md:127): a node whose gossip map holds the leader it
\* knows finds the leader's gRPC address.
LeaderIsResolved ==
    \A n \in GossipNodes :
        view[n] # 0 /\ leaderOf[view[n]] \in nodes[n] => LeaderAddrs(n) # {}

=============================================================================
