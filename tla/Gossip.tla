------------------------------- MODULE Gossip -------------------------------
(***************************************************************************)
(* The map from nodes to addresses that gossip/gossip.go keeps on each     *)
(* node, and the goroutine of New that joins the seeds.  memberlist is     *)
(* external: it exchanges members with the nodes it knows and reports what *)
(* it learns to NotifyJoin and NotifyLeave.  A node and its NodeMeta are   *)
(* one: the addresses of a node do not change.                             *)
(***************************************************************************)
EXTENDS Naturals

CONSTANTS
    Nodes,
    GossipNodes, \* the nodes that were started with --gossip_addr
    Seeds,       \* Seeds[n]: Config.Seeds of node n
    MaxAttempts, \* the attempts of the join goroutine: 5 in the code
    GossipFaults \* "late": a node may start before its seeds, "stop": nodes
                 \* stop and start again, "suspect": a live node is taken for dead

ASSUME GossipAssumption ==
    /\ GossipNodes \subseteq Nodes
    /\ Seeds \in [Nodes -> SUBSET Nodes]
    /\ MaxAttempts \in Nat

VARIABLES
    up,      \* the node's memberlist runs
    nodes,   \* Gossip.nodes of each node
    joined,  \* the join goroutine has returned after a success
    attempt  \* i in the join goroutine

gossipVars == <<up, nodes, joined, attempt>>

\* The one type invariant of this module.
GossipTypeOK ==
    /\ up \in [Nodes -> BOOLEAN]
    /\ nodes \in [Nodes -> SUBSET Nodes]
    /\ joined \in [Nodes -> BOOLEAN]
    /\ attempt \in [Nodes -> 0 .. MaxAttempts]

GossipInit ==
    /\ up = [n \in Nodes |-> FALSE]
    /\ nodes = [n \in Nodes |-> {}]
    /\ joined = [n \in Nodes |-> FALSE]
    /\ attempt = [n \in Nodes |-> 0]

-----------------------------------------------------------------------------
\* Mutant of New: a node that has joined once does not join again.
NewWithoutJoin(n) ==
    /\ ~up[n]
    /\ up' = [up EXCEPT ![n] = TRUE]
    /\ nodes' = [nodes EXCEPT ![n] = {n}]
    /\ UNCHANGED <<joined, attempt>>

\* New: the map holds the node itself, memberlist is created, and the join
\* goroutine starts if there are seeds.
New(n) ==
    /\ ~up[n]
    /\ "late" \in GossipFaults \/ Seeds[n] = {} \/ \E s \in Seeds[n] : up[s]
    /\ up' = [up EXCEPT ![n] = TRUE]
    /\ nodes' = [nodes EXCEPT ![n] = {n}]
    /\ joined' = [joined EXCEPT ![n] = FALSE]
    /\ attempt' = [attempt EXCEPT ![n] = 0]

Joining(n) == up[n] /\ ~joined[n] /\ Seeds[n] # {} /\ attempt[n] < MaxAttempts

\* Mutant of JoinFailed: the goroutine counts on.
JoinFailedForever(n) ==
    /\ up[n] /\ ~joined[n] /\ Seeds[n] # {} /\ attempt[n] <= MaxAttempts
    /\ \A s \in Seeds[n] : ~up[s]
    /\ attempt' = [attempt EXCEPT ![n] = @ + 1]
    /\ UNCHANGED <<up, nodes, joined>>

\* ml.Join fails if no seed answers; after MaxAttempts nobody tries again.
JoinFailed(n) ==
    /\ Joining(n)
    /\ \A s \in Seeds[n] : ~up[s]
    /\ attempt' = [attempt EXCEPT ![n] = @ + 1]
    /\ UNCHANGED <<up, nodes, joined>>

\* ml.Join exchanges members with every seed that answers; one is enough.
JoinSucceeded(n) ==
    /\ Joining(n)
    /\ LET answering == {s \in Seeds[n] : up[s]}
       IN /\ answering # {}
          /\ nodes' = [m \in Nodes |->
                CASE m = n -> nodes[n] \cup UNION {nodes[s] : s \in answering}
                  [] m \in answering \ {n} -> nodes[m] \cup nodes[n]
                  [] OTHER -> nodes[m]]
    /\ joined' = [joined EXCEPT ![n] = TRUE]
    /\ UNCHANGED <<up, attempt>>

\* memberlist of n hears of m from a member k that either of them knows.
Hears(n, m) ==
    /\ up[m]
    /\ \E k \in Nodes : /\ up[k]
                        /\ m \in nodes[k]
                        /\ n \in nodes[k] \/ k \in nodes[n]

\* NotifyJoin, and NotifyUpdate, which calls it.
NotifyJoin(n, m) ==
    /\ up[n] /\ m \notin nodes[n]
    /\ Hears(n, m)
    /\ nodes' = [nodes EXCEPT ![n] = @ \cup {m}]
    /\ UNCHANGED <<up, joined, attempt>>

\* NotifyLeave: m has left, has failed, or is taken for dead.
NotifyLeave(n, m) ==
    /\ up[n] /\ m \in nodes[n] \ {n}
    /\ ~up[m] \/ "suspect" \in GossipFaults
    /\ nodes' = [nodes EXCEPT ![n] = @ \ {m}]
    /\ UNCHANGED <<up, joined, attempt>>

\* Leave and Shutdown, or the end of the process.
Stop(n) ==
    /\ "stop" \in GossipFaults
    /\ up[n]
    /\ up' = [up EXCEPT ![n] = FALSE]
    /\ nodes' = [nodes EXCEPT ![n] = {}]
    /\ UNCHANGED <<joined, attempt>>

JoinStep(n) == JoinFailed(n) \/ JoinSucceeded(n)

GossipNext ==
    \E n \in GossipNodes :
        \/ New(n)
        \/ JoinStep(n)
        \/ Stop(n)
        \/ \E m \in GossipNodes : NotifyJoin(n, m) \/ NotifyLeave(n, m)

\* The join goroutine runs, and memberlist spreads what one side knows.
GossipFairness ==
    \A n \in GossipNodes :
        /\ WF_gossipVars(JoinStep(n))
        /\ \A m \in GossipNodes :
               /\ SF_gossipVars(NotifyJoin(n, m))
               /\ WF_gossipVars(NotifyLeave(n, m) /\ ~up[m])

GossipSpec == GossipInit /\ [][GossipNext]_gossipVars /\ GossipFairness

-----------------------------------------------------------------------------
(* Properties *)

\* "Automatic Discovery: When a node joins/leaves, all other nodes are
\* notified" (README.md:126): two nodes that run have each other's address,
\* again and again.
EveryoneDiscovered ==
    \A n, m \in GossipNodes : []<>(up[n] /\ up[m] => m \in nodes[n])

=============================================================================
