------------------------------ MODULE Shutdown ------------------------------
(***************************************************************************)
(* The life of a node: NewEngineWithConfig and Close of engine/engine.go,  *)
(* and the requests that are in progress when Close is called.  A request  *)
(* is served by this node, an Add or a Get that is forwarded over a        *)
(* connection of the cache, or a Watch, which ends only when its context   *)
(* is cancelled.                                                           *)
(*                                                                         *)
(* The gRPC server is external: GracefulStop refuses new requests and      *)
(* waits for the others; Stop cancels their contexts and may return before *)
(* the handlers have.                                                      *)
(***************************************************************************)
EXTENDS ConnCache

CONSTANT Kinds  \* the requests that arrive

Forwards == {"forwardAdd", "forwardGet"}

ASSUME KindsAssumption == Kinds \subseteq {"local", "watch"} \cup Forwards

VARIABLES
    epc,       \* NewEngineWithConfig, the running node, and Close
    fsmOpen,   \* the store is open
    raftUp,    \* raft runs
    accepting, \* the gRPC server accepts requests
    canceled,  \* Stop has cancelled the contexts of the requests
    timedOut,  \* history: the 10 s of GracefulStop have passed
    kind,      \* what each request is
    hpc,       \* its handler
    outcome    \* how it ended: "done" with an answer or an error of its own, else by Close

engineVars == <<epc, fsmOpen, raftUp, accepting, canceled, timedOut>>
handlerVars == <<kind, hpc, outcome>>
vars == <<connVars, engineVars, handlerVars>>

Handlers == Callers

\* The one type invariant of this module.
TypeOK ==
    /\ ConnTypeOK
    /\ epc \in {"fsm", "raft", "gossip", "listen", "failed", "serving",
                "conns", "graceful", "wait", "leave", "closeRaft", "closeFsm", "wg", "closed"}
    /\ fsmOpen \in BOOLEAN /\ raftUp \in BOOLEAN
    /\ accepting \in BOOLEAN /\ canceled \in BOOLEAN /\ timedOut \in BOOLEAN
    /\ kind \in [Handlers -> Kinds]
    /\ hpc \in [Handlers -> {"none", "raft", "store", "forward", "invoke", "ended", "hung"}]
    /\ outcome \in [Handlers -> {"none", "done", "shutdown", "cut"}]

Init ==
    /\ ConnInit
    /\ epc = "fsm"
    /\ fsmOpen = FALSE /\ raftUp = FALSE
    /\ accepting = FALSE /\ canceled = FALSE /\ timedOut = FALSE
    /\ kind \in [Handlers -> Kinds]
    /\ hpc = [h \in Handlers |-> "none"]
    /\ outcome = [h \in Handlers |-> "none"]

-----------------------------------------------------------------------------
(* NewEngineWithConfig *)

Engine(from, to) == epc = from /\ epc' = to /\ UNCHANGED <<timedOut, handlerVars>>

OpenFSM ==
    /\ Engine("fsm", "raft")
    /\ fsmOpen' = TRUE
    /\ UNCHANGED <<connVars, raftUp, accepting, canceled>>

StartRaft ==
    /\ Engine("raft", "gossip")
    /\ raftUp' = TRUE
    /\ UNCHANGED <<connVars, fsmOpen, accepting, canceled>>

\* Gossip, which is optional; what it does is in module Gossip.
SetupGossip ==
    /\ Engine("gossip", "listen")
    /\ UNCHANGED <<connVars, fsmOpen, raftUp, accepting, canceled>>

Listen ==
    /\ Engine("listen", "serving")
    /\ accepting' = TRUE
    /\ UNCHANGED <<connVars, fsmOpen, raftUp, canceled>>

\* Each of these may fail; the node panics in main.
StartFailed ==
    /\ \E from \in {"fsm", "raft", "gossip", "listen"} : Engine(from, "failed")
    /\ UNCHANGED <<connVars, fsmOpen, raftUp, accepting, canceled>>

-----------------------------------------------------------------------------
(* Close *)

\* main has got a signal.
Close ==
    /\ Engine("serving", "conns")
    /\ UNCHANGED <<connVars, fsmOpen, raftUp, accepting, canceled>>

CloseAllConns ==
    /\ Engine("conns", "graceful")
    /\ lock = NoCaller
    /\ conn' = Closed({cache[a] : a \in Addrs})
    /\ cache' = [a \in Addrs |-> NoConn]
    /\ UNCHANGED <<lock, callerVars, fsmOpen, raftUp, accepting, canceled>>

GracefulStop ==
    /\ Engine("graceful", "wait")
    /\ accepting' = FALSE
    /\ UNCHANGED <<connVars, fsmOpen, raftUp, canceled>>

InProgress == {h \in Handlers : hpc[h] \notin {"none", "ended"}}

\* Mutant of GracefulStopped: it goes on without waiting.
GracefulNotAwaited ==
    /\ Engine("wait", "leave")
    /\ UNCHANGED <<connVars, fsmOpen, raftUp, accepting, canceled>>

\* Either no request is left ...
GracefulStopped ==
    /\ Engine("wait", "leave")
    /\ InProgress = {}
    /\ UNCHANGED <<connVars, fsmOpen, raftUp, accepting, canceled>>

\* Mutant of Stop: no timeout.
StopNever == FALSE /\ UNCHANGED vars

\* ... or the time is up, and Stop.
Stop ==
    /\ epc = "wait" /\ epc' = "leave"
    /\ timedOut' = TRUE /\ canceled' = TRUE
    /\ UNCHANGED <<connVars, fsmOpen, raftUp, accepting, handlerVars>>

LeaveGossip ==
    /\ Engine("leave", "closeRaft")
    /\ UNCHANGED <<connVars, fsmOpen, raftUp, accepting, canceled>>

CloseRaft ==
    /\ Engine("closeRaft", "closeFsm")
    /\ raftUp' = FALSE
    /\ UNCHANGED <<connVars, fsmOpen, accepting, canceled>>

CloseFSM ==
    /\ Engine("closeFsm", "wg")
    /\ fsmOpen' = FALSE
    /\ UNCHANGED <<connVars, raftUp, accepting, canceled>>

\* Serve has returned: Stop and GracefulStop see to that.
WaitGroup ==
    /\ Engine("wg", "closed")
    /\ UNCHANGED <<connVars, fsmOpen, raftUp, accepting, canceled>>

-----------------------------------------------------------------------------
(* The handlers *)

Handler(h, from, to) ==
    /\ hpc[h] = from
    /\ hpc' = [hpc EXCEPT ![h] = to]
    /\ UNCHANGED <<engineVars, kind>>

HandlerEnds(h, from, o) ==
    /\ Handler(h, from, "ended")
    /\ outcome' = [outcome EXCEPT ![h] = o]

\* A handler that has ended stands for the next one.
Arrive(h) ==
    /\ accepting
    /\ \E from \in {"none", "ended"} :
           Handler(h, from, CASE kind[h] = "local" -> "raft"
                              [] kind[h] = "watch" -> "store"
                              [] kind[h] \in Forwards -> "forward")
    /\ outcome' = [outcome EXCEPT ![h] = "none"]
    /\ UNCHANGED connVars

\* Add's Apply, or the leadership check of Get, which a node that does not
\* lead fails.  After raft's shutdown either is refused, or its future is put
\* into a channel that nobody reads any more, and Error() waits for good ...
RaftCall(h) ==
    /\ \/ raftUp /\ Handler(h, "raft", "store") /\ UNCHANGED outcome
       \/ raftUp /\ HandlerEnds(h, "raft", "done")
       \/ ~raftUp /\ HandlerEnds(h, "raft", "shutdown")
       \/ ~raftUp /\ Handler(h, "raft", "hung") /\ UNCHANGED outcome
    /\ UNCHANGED connVars

\* ... and the read of the store, with which a Watch goes on forever.
StoreRead(h) ==
    /\ \/ fsmOpen /\ kind[h] # "watch" /\ HandlerEnds(h, "store", "done")
       \/ ~fsmOpen /\ HandlerEnds(h, "store", "shutdown")
    /\ UNCHANGED connVars

\* The context of a Watch or of an Invoke is cancelled, and it notices.
Canceled(h) ==
    /\ canceled
    /\ \/ HandlerEnds(h, "store", "done") /\ kind[h] = "watch" /\ UNCHANGED connVars
       \/ /\ hpc[h] = "invoke" /\ cpc[h] \in {"invoke", "sent"}
          /\ Ends(h, cpc[h], "canceled")
          /\ UNCHANGED <<cacheVars, engineVars, handlerVars>>

\* forwardRequestToLeader: the leader or its address may be unknown.
Forward(h) ==
    /\ Handler(h, "forward", "invoke")
    /\ \/ \E a \in Addrs : LookUp(h, a)
       \/ Ends(h, "idle", "error") /\ UNCHANGED cacheVars
    /\ UNCHANGED outcome

ForwardStep(h) ==
    /\ hpc[h] = "invoke" /\ Call(h)
    /\ UNCHANGED <<engineVars, handlerVars>>

\* The answer, or an error: it ends an Add, and Get goes on with its own Query.
Forwarded(h) ==
    /\ cpc[h] = "idle"
    /\ \/ result[h] = "ok" /\ HandlerEnds(h, "invoke", "done")
       \/ /\ result[h] # "ok" /\ kind[h] = "forwardAdd"
          /\ HandlerEnds(h, "invoke", IF result[h] \in {"cut", "closing"} THEN "cut" ELSE "done")
       \/ /\ result[h] # "ok" /\ kind[h] = "forwardGet"
          /\ Handler(h, "invoke", "raft") /\ UNCHANGED outcome
    /\ result' = [result EXCEPT ![h] = "none"]
    /\ UNCHANGED <<cacheVars, cpc, caddr, cconn>>

-----------------------------------------------------------------------------

EngineStarts == OpenFSM \/ StartRaft \/ SetupGossip \/ Listen \/ StartFailed
EngineCloses ==
    \/ CloseAllConns \/ GracefulStop \/ GracefulStopped \/ Stop
    \/ LeaveGossip \/ CloseRaft \/ CloseFSM \/ WaitGroup

HandlerStep(h) ==
    \/ RaftCall(h) \/ StoreRead(h) \/ Canceled(h)
    \/ Forward(h) \/ ForwardStep(h) \/ Forwarded(h)

Next ==
    \/ EngineStarts \/ Close \/ EngineCloses
    \/ \E h \in Handlers : Arrive(h) \/ HandlerStep(h)
    \/ Environment /\ UNCHANGED <<engineVars, handlerVars>>

\* Close goes on, and so do the handlers; connCacheMu starves nobody; every
\* change of the state of a connection wakes the requests that wait for it; an
\* attempt to connect ends.
Fairness ==
    /\ SF_vars(EngineCloses)
    /\ \A h \in Handlers : WF_vars(HandlerStep(h)) /\ SF_vars(ForwardStep(h))
    /\ \A c \in Conns :
           /\ WF_vars(Connecting(c) /\ UNCHANGED <<engineVars, handlerVars>>)
           /\ WF_vars((Connected(c) \/ ConnectFailed(c)) /\ UNCHANGED <<engineVars, handlerVars>>)

Spec == Init /\ [][Next]_vars /\ Fairness

-----------------------------------------------------------------------------
(* Properties *)

\* While the server accepts requests, and until those in progress have ended
\* or the time is up, Close leaves raft running and the store open: no request
\* is refused by a part of the node that is shut down, and none waits in raft
\* for an answer that will not come (engine.go NewEngineWithConfig, Close).
LocalRequestsServed ==
    \A h \in Handlers : outcome[h] = "shutdown" \/ hpc[h] = "hung" => timedOut

\* Close returns, whatever requests are in progress: the watches, which do
\* not end by themselves, and the requests that raft does not answer any more
\* do not hold it up (engine.go Close).
CloseReturns == epc = "conns" ~> epc = "closed"

\* "Waits for in-flight requests to complete (with 10s timeout)"
\* (README.md:254): before the time is up, none fails because of Close.
InFlightComplete ==
    \A h \in Handlers : outcome[h] \in {"shutdown", "cut"} => timedOut

\* "CloseAllConns closes all cached gRPC connections" (service.go:209): after
\* Close, none is open.
NoConnLeft == epc = "closed" => \A c \in Conns : conn[c] = "shutdown"

\* "Ordered Cleanup: gRPC -> Gossip -> Raft -> FSM" (README.md:256): raft and
\* the store are shut down after the last request.
OrderedCleanup ==
    epc \in {"closeFsm", "wg", "closed"} => InProgress = {}
=============================================================================
