--------------------------- MODULE ShutdownProofs ---------------------------
(***************************************************************************)
(* The cache of connections leaks nothing, and Close keeps raft and the    *)
(* store up for the requests in progress: for any number of requests,      *)
(* addresses and connections.                                              *)
(***************************************************************************)
EXTENDS Shutdown, TLAPS

(* The type invariant of the cache *)

LEMMA CallKeepsTypes ==
    ASSUME ConnTypeOK, NEW p \in Callers, Call(p)
    PROVE  ConnTypeOK'
  <1> USE DEF ConnTypeOK, Goto, Ends, cacheVars
  <1>1. CASE CheckState(p)
    BY <1>1 DEF CheckState
  <1>2. CASE CloseFailed(p) \/ DialFailed(p)
    BY <1>2 DEF CloseFailed, DialFailed, Closed
  <1>3. CASE Dialled(p)
    BY <1>3 DEF Dialled, Healthy
  <1>4. CASE Answered(p) \/ Cut(p)
    BY <1>4 DEF Answered, Cut
  <1>5. CASE FoundHealthy(p) \/ FoundFailed(p)
    BY <1>5 DEF FoundHealthy, FoundFailed
  <1>6. CASE Sent(p) \/ FailedFast(p)
    BY <1>6 DEF Sent, FailedFast
  <1> QED BY <1>1, <1>2, <1>3, <1>4, <1>5, <1>6 DEF Call, Unlocked, Locking, Blocked

LEMMA LookUpKeepsTypes ==
    ASSUME ConnTypeOK, NEW p \in Callers, NEW a \in Addrs, LookUp(p, a)
    PROVE  ConnTypeOK'
  BY DEF ConnTypeOK, LookUp, Goto, cacheVars

LEMMA EnvironmentKeepsTypes ==
    ASSUME ConnTypeOK, Environment
    PROVE  ConnTypeOK'
  <1>1. ASSUME NEW c \in Conns, Connecting(c) \/ Connected(c) \/ ConnectFailed(c)
        PROVE  ConnTypeOK'
    BY <1>1 DEF ConnTypeOK, Connecting, Connected, ConnectFailed, Moves, Healthy, callerVars
  <1>2. ASSUME NEW c \in Conns, Lost(c)
        PROVE  ConnTypeOK'
    BY <1>2 DEF ConnTypeOK, Lost, Moves, Healthy
  <1> QED BY <1>1, <1>2 DEF Environment

LEMMA ConnTypesInit == ConnInit => ConnTypeOK
  BY DEF ConnInit, ConnTypeOK

\* The type invariant of the cache and its callers (getOrCreateConn).
THEOREM ConnTypes == ConnSpec => []ConnTypeOK
  <1>1. ConnTypeOK /\ [ConnNext]_connVars => ConnTypeOK'
    <2> SUFFICES ASSUME ConnTypeOK, [ConnNext]_connVars
                 PROVE  ConnTypeOK'
      OBVIOUS
    <2>1. CASE UNCHANGED connVars
      BY <2>1 DEF ConnTypeOK, connVars, cacheVars, callerVars
    <2> QED BY <2>1, CallKeepsTypes, LookUpKeepsTypes, EnvironmentKeepsTypes DEF ConnNext
  <1> QED BY <1>1, ConnTypesInit, PTL DEF ConnSpec

-----------------------------------------------------------------------------
(* The cache *)

\* connCacheMu: one caller at a time replaces a connection, and nobody fills
\* the place that it has emptied.
Exclusive ==
    \A p \in Callers :
        /\ cpc[p] \in {"recreate", "dial"} => lock = p
        /\ cpc[p] = "dial" => cache[caddr[p]] = NoConn

CacheInv == ConnTypeOK /\ CacheIsExact /\ Exclusive

\* The steps of those who do not hold the mutex.
Outside ==
    /\ UNCHANGED <<cache, conn, lock>>
    /\ \E p \in Callers : /\ cpc[p] \notin {"recreate", "dial"}
                          /\ \E to : to \notin {"recreate", "dial"} /\ cpc' = [cpc EXCEPT ![p] = to]
                          /\ lock = NoCaller \/ caddr' = caddr

LEMMA OutsideKeeps ==
    ASSUME CacheInv, Outside
    PROVE  CacheIsExact' /\ Exclusive'
  BY ConnAssumption DEF CacheInv, ConnTypeOK, Outside, CacheIsExact, Exclusive

LEMMA UnchangedKeeps ==
    ASSUME CacheInv, UNCHANGED <<cache, conn, lock, cpc, caddr>>
    PROVE  CacheIsExact' /\ Exclusive'
  BY DEF CacheInv, CacheIsExact, Exclusive

\* The mutex is taken.
LEMMA FoundFailedKeeps ==
    ASSUME CacheInv, NEW p \in Callers, FoundFailed(p)
    PROVE  CacheIsExact' /\ Exclusive'
  BY ConnAssumption DEF CacheInv, ConnTypeOK, FoundFailed, Goto, CacheIsExact, Exclusive

LEMMA CloseFailedKeeps ==
    ASSUME CacheInv, NEW p \in Callers, CloseFailed(p)
    PROVE  CacheIsExact' /\ Exclusive'
  <1> USE DEF CacheInv
  <1> DEFINE a == caddr[p]
  <1>1. /\ a \in Addrs
        /\ conn' = [d \in Conns |-> IF d = cache[a] THEN "shutdown" ELSE conn[d]]
        /\ cache' = [b \in Addrs |-> IF b = a THEN NoConn ELSE cache[b]]
    BY DEF CloseFailed, Closed, ConnTypeOK
  <1>2. Exclusive'
    <2>1. /\ cpc' = [cpc EXCEPT ![p] = "dial"] /\ cpc[p] = "recreate"
          /\ lock' = lock /\ caddr' = caddr
      BY DEF CloseFailed, Goto
    <2>2. lock = p
      BY <2>1 DEF Exclusive
    <2> QED BY <1>1, <2>1, <2>2 DEF Exclusive, ConnTypeOK
  <1> HIDE DEF a
  <1>3. CacheIsExact'
    BY <1>1, ConnAssumption DEF CacheIsExact, ConnTypeOK
  <1> QED BY <1>2, <1>3

\* The place is empty, and the new connection is not cached elsewhere.
LEMMA DialledKeeps ==
    ASSUME CacheInv, NEW p \in Callers, Dialled(p)
    PROVE  CacheIsExact' /\ Exclusive'
  <1> USE DEF CacheInv
  <1> DEFINE a == caddr[p]
  <1>1. PICK c \in Conns : /\ conn[c] = "shutdown"
                           /\ conn' = [conn EXCEPT ![c] = "idle"]
                           /\ cache' = [cache EXCEPT ![a] = c]
    BY DEF Dialled, Unused
  <1>2. /\ cpc[p] = "dial" /\ cpc' = [cpc EXCEPT ![p] = "invoke"]
        /\ lock' = NoCaller /\ caddr' = caddr
    BY DEF Dialled, Goto
  <1>3. lock = p /\ cache[a] = NoConn
    BY <1>2 DEF Exclusive
  <1>4. Exclusive'
    <2>1. \A q \in Callers : cpc'[q] \notin {"recreate", "dial"}
      BY <1>2, <1>3 DEF Exclusive, ConnTypeOK
    <2> QED BY <2>1 DEF Exclusive
  <1>5. a \in Addrs
    BY DEF ConnTypeOK
  <1> HIDE DEF a
  <1>6. /\ conn' = [d \in Conns |-> IF d = c THEN "idle" ELSE conn[d]]
        /\ cache' = [b \in Addrs |-> IF b = a THEN c ELSE cache[b]]
    BY <1>1 DEF ConnTypeOK
  <1>7. c # NoConn /\ \A b \in Addrs : cache[b] # c
    BY <1>1, ConnAssumption DEF CacheIsExact
  <1>8. ASSUME NEW d \in Conns, conn'[d] # "shutdown"
        PROVE  \E b \in Addrs : cache'[b] = d
    <2>1. CASE d = c
      BY <1>5, <1>6, <2>1
    <2>2. CASE d # c
      <3>1. PICK b \in Addrs : cache[b] = d
        BY <1>6, <1>8, <2>2 DEF CacheIsExact
      <3>2. b # a
        BY <1>3, <3>1, ConnAssumption
      <3> QED BY <1>6, <3>1, <3>2
    <2> QED BY <2>1, <2>2
  <1>9. ASSUME NEW b \in Addrs, cache'[b] # NoConn
        PROVE  conn'[cache'[b]] # "shutdown"
    BY <1>6, <1>7, <1>9 DEF CacheIsExact, ConnTypeOK
  <1>10. ASSUME NEW b \in Addrs, NEW d \in Addrs, cache'[b] = cache'[d], cache'[b] # NoConn
         PROVE  b = d
    BY <1>6, <1>7, <1>10 DEF CacheIsExact
  <1> QED BY <1>4, <1>8, <1>9, <1>10 DEF CacheIsExact

LEMMA DialFailedKeeps ==
    ASSUME CacheInv, NEW p \in Callers, DialFailed(p)
    PROVE  CacheIsExact' /\ Exclusive'
  <1> USE DEF CacheInv
  <1>1. /\ cpc[p] = "dial" /\ cpc' = [cpc EXCEPT ![p] = "idle"]
        /\ cache' = cache /\ conn' = conn
    BY DEF DialFailed, Ends, Goto
  <1>2. \A q \in Callers : cpc'[q] \notin {"recreate", "dial"}
    BY <1>1 DEF Exclusive, ConnTypeOK
  <1> QED BY <1>1, <1>2 DEF CacheIsExact, Exclusive

LEMMA CallKeepsCache ==
    ASSUME CacheInv, NEW p \in Callers, Call(p)
    PROVE  CacheInv'
  <1>1. CASE CheckState(p) \/ Answered(p) \/ Cut(p) \/ FoundHealthy(p) \/ Sent(p) \/ FailedFast(p)
    <2>1. Outside
      BY <1>1 DEF CheckState, Answered, Cut, FoundHealthy, Sent, FailedFast, Ends, Goto, cacheVars,
                  Outside
    <2> QED BY <2>1, OutsideKeeps, CallKeepsTypes DEF CacheInv
  <1>2. CASE FoundFailed(p) \/ CloseFailed(p) \/ Dialled(p) \/ DialFailed(p)
    BY <1>2, FoundFailedKeeps, CloseFailedKeeps, DialledKeeps, DialFailedKeeps, CallKeepsTypes
    DEF CacheInv
  <1> QED BY <1>1, <1>2 DEF Call, Unlocked, Locking, Blocked

LEMMA LookUpKeepsCache ==
    ASSUME CacheInv, NEW p \in Callers, NEW a \in Addrs, LookUp(p, a)
    PROVE  CacheInv'
  <1>1. Outside
    BY DEF LookUp, Goto, cacheVars, Outside
  <1> QED BY <1>1, OutsideKeeps, LookUpKeepsTypes DEF CacheInv

LEMMA EnvironmentKeepsCache ==
    ASSUME CacheInv, Environment
    PROVE  CacheInv'
  <1>1. PICK c \in Conns : Connecting(c) \/ Connected(c) \/ ConnectFailed(c) \/ Lost(c)
    BY DEF Environment
  <1>2. /\ \E to \in Healthy \cup {"failure"} :
               conn[c] # "shutdown" /\ conn' = [conn EXCEPT ![c] = to]
        /\ UNCHANGED <<cache, lock, caddr>>
    BY <1>1 DEF Connecting, Connected, ConnectFailed, Lost, Moves, Healthy, callerVars
  <1>3. \A p \in Callers : cpc'[p] \in {"recreate", "dial"} => cpc'[p] = cpc[p]
    BY <1>1 DEF Connecting, Connected, ConnectFailed, Lost, callerVars
  <1>4. CacheIsExact'
    BY <1>2 DEF CacheInv, ConnTypeOK, CacheIsExact, Healthy
  <1>5. Exclusive'
    BY <1>2, <1>3 DEF CacheInv, Exclusive
  <1> QED BY <1>4, <1>5, EnvironmentKeepsTypes DEF CacheInv

LEMMA CacheInit == ConnInit => CacheInv
  BY ConnTypesInit, ConnAssumption DEF ConnInit, CacheInv, CacheIsExact, Exclusive

\* The connection cache holds exactly the open connections, whatever callers
\* race to replace one: the mutex keeps them apart (getOrCreateConn).
THEOREM CacheSafety == ConnSpec => []CacheIsExact
  <1>1. CacheInv /\ [ConnNext]_connVars => CacheInv'
    <2> SUFFICES ASSUME CacheInv, [ConnNext]_connVars
                 PROVE  CacheInv'
      OBVIOUS
    <2>1. CASE UNCHANGED connVars
      BY <2>1, UnchangedKeeps DEF connVars, cacheVars, callerVars, CacheInv, ConnTypeOK
    <2> QED
      BY <2>1, CallKeepsCache, LookUpKeepsCache, EnvironmentKeepsCache DEF ConnNext
  <1>2. CacheInv => CacheIsExact
    BY DEF CacheInv
  <1> QED BY <1>1, <1>2, CacheInit, PTL DEF ConnSpec

LEMMA CloseAllConnsKeeps ==
    ASSUME CacheInv, CloseAllConns
    PROVE  CacheInv'
  <1>1. /\ cache' = [a \in Addrs |-> NoConn]
        /\ conn' = [d \in Conns |-> IF \E a \in Addrs : d = cache[a] THEN "shutdown" ELSE conn[d]]
        /\ lock = NoCaller /\ UNCHANGED <<lock, callerVars>>
    BY DEF CloseAllConns, Closed
  <1>2. ConnTypeOK'
    BY <1>1 DEF CacheInv, ConnTypeOK, callerVars
  <1>3. CacheIsExact'
    BY <1>1, ConnAssumption DEF CacheInv, ConnTypeOK, CacheIsExact
  <1>4. Exclusive'
    BY <1>1, ConnAssumption DEF CacheInv, Exclusive, callerVars
  <1> QED BY <1>2, <1>3, <1>4 DEF CacheInv

\* What a handler does to its call besides Call and LookUp.
LEMMA HandlerKeepsTypes ==
    ASSUME ConnTypeOK, NEW h \in Handlers,
           \/ Canceled(h)
           \/ Ends(h, "idle", "error") /\ UNCHANGED cacheVars
           \/ Forwarded(h)
    PROVE  ConnTypeOK'
  <1> USE DEF ConnTypeOK, Handlers, cacheVars
  <1>1. CASE Canceled(h)
    BY <1>1 DEF Canceled, Ends, Goto, connVars, callerVars
  <1>2. CASE Ends(h, "idle", "error") /\ UNCHANGED cacheVars
    BY <1>2 DEF Ends, Goto
  <1>3. CASE Forwarded(h)
    BY <1>3 DEF Forwarded
  <1> QED BY <1>1, <1>2, <1>3

LEMMA HandlerKeepsCache ==
    ASSUME CacheInv, NEW h \in Handlers,
           \/ Canceled(h)
           \/ Ends(h, "idle", "error") /\ UNCHANGED cacheVars
           \/ Forwarded(h)
    PROVE  CacheInv'
  <1>1. Outside \/ UNCHANGED <<cache, conn, lock, cpc, caddr>>
    BY DEF Canceled, Ends, Goto, Forwarded, Outside, Handlers, connVars, cacheVars, callerVars
  <1> QED BY <1>1, OutsideKeeps, UnchangedKeeps, HandlerKeepsTypes DEF CacheInv

\* The same while the node starts, serves and closes (CloseAllConns).
THEOREM CloseKeepsCacheExact == Spec => []CacheIsExact
  <1>1. CacheInv /\ [Next]_vars => CacheInv'
    <2> SUFFICES ASSUME CacheInv, [Next]_vars
                 PROVE  CacheInv'
      OBVIOUS
    <2>1. CASE UNCHANGED connVars
      BY <2>1, UnchangedKeeps DEF connVars, cacheVars, callerVars, CacheInv, ConnTypeOK
    <2>2. CASE EngineStarts \/ Close
      BY <2>1, <2>2 DEF EngineStarts, Close, OpenFSM, StartRaft, SetupGossip, Listen, StartFailed
    <2>3. CASE EngineCloses
      BY <2>1, <2>3, CloseAllConnsKeeps
      DEF EngineCloses, GracefulStop, GracefulStopped, Stop, LeaveGossip, CloseRaft, CloseFSM,
          WaitGroup
    <2>4. ASSUME NEW h \in Handlers, Arrive(h) \/ RaftCall(h) \/ StoreRead(h)
          PROVE  CacheInv'
      BY <2>1, <2>4 DEF Arrive, RaftCall, StoreRead
    <2>5. ASSUME NEW h \in Handlers, Forward(h) \/ ForwardStep(h)
          PROVE  CacheInv'
      BY <2>5, LookUpKeepsCache, CallKeepsCache, HandlerKeepsCache
      DEF Forward, ForwardStep, Handlers
    <2>6. ASSUME NEW h \in Handlers, Canceled(h) \/ Forwarded(h)
          PROVE  CacheInv'
      BY <2>6, HandlerKeepsCache
    <2> QED
      BY <2>1, <2>2, <2>3, <2>4, <2>5, <2>6, EnvironmentKeepsCache DEF Next, HandlerStep, vars
  <1>2. CacheInv => CacheIsExact
    BY DEF CacheInv
  <1>3. Init => CacheInv
    BY CacheInit DEF Init
  <1> QED BY <1>1, <1>2, <1>3, PTL DEF Spec

-----------------------------------------------------------------------------
(* Close *)

Serving == {"serving", "conns", "graceful"}
Awaited == Serving \cup {"wait"}

\* What is up at which point of Close, and that requests are in progress only
\* while Close waits for them, unless the time is up.
EngineInv ==
    /\ hpc \in [Handlers -> {"none", "raft", "store", "forward", "invoke", "ended", "hung"}]
    /\ outcome \in [Handlers -> {"none", "done", "shutdown", "cut"}]
    /\ epc \in Awaited => raftUp /\ fsmOpen
    /\ epc \in {"gossip", "listen"} => raftUp /\ fsmOpen
    /\ epc = "raft" => fsmOpen
    /\ accepting => epc \in Serving
    /\ \A h \in Handlers :
           hpc[h] \notin {"none", "ended"} => epc \in Awaited \/ timedOut
    /\ \A h \in Handlers : hpc[h] \in {"forward", "invoke"} => kind[h] \in Forwards
    /\ LocalRequestsServed

LEMMA EngineStepKeeps ==
    ASSUME EngineInv, EngineStarts \/ Close \/ EngineCloses
    PROVE  EngineInv'
  <1>1. hpc' = hpc /\ outcome' = outcome /\ kind' = kind
    BY DEF EngineStarts, Close, EngineCloses, OpenFSM, StartRaft, SetupGossip, Listen, StartFailed,
           CloseAllConns, GracefulStop, GracefulStopped, Stop, LeaveGossip, CloseRaft, CloseFSM,
           WaitGroup, Engine, handlerVars
  <1>2. CASE EngineStarts \/ Close
    BY <1>1, <1>2 DEF EngineInv, EngineStarts, Close, OpenFSM, StartRaft, SetupGossip, Listen,
                      StartFailed, Engine, Serving, Awaited, LocalRequestsServed
  <1>3. CASE CloseAllConns \/ GracefulStop
    <2>1. /\ epc \in Awaited /\ epc' \in Awaited /\ epc' \notin {"gossip", "listen", "raft"}
          /\ accepting' => accepting /\ epc' \in Serving
          /\ UNCHANGED <<raftUp, fsmOpen, timedOut>>
      BY <1>3 DEF CloseAllConns, GracefulStop, Engine, Serving, Awaited
    <2> QED
      BY <1>1, <2>1 DEF EngineInv, LocalRequestsServed
  <1>4. CASE GracefulStopped \/ Stop
    BY <1>1, <1>4 DEF EngineInv, GracefulStopped, Stop, InProgress, Engine, Serving, Awaited,
                      LocalRequestsServed
  <1>5. CASE LeaveGossip \/ CloseRaft \/ CloseFSM \/ WaitGroup
    BY <1>1, <1>5 DEF EngineInv, LeaveGossip, CloseRaft, CloseFSM, WaitGroup, Engine, Serving,
                      Awaited, LocalRequestsServed
  <1> QED BY <1>2, <1>3, <1>4, <1>5 DEF EngineCloses

LEMMA HandlerStepKeeps ==
    ASSUME EngineInv, kind \in [Handlers -> Kinds], NEW h \in Handlers,
           Arrive(h) \/ HandlerStep(h)
    PROVE  EngineInv'
  <1>1. UNCHANGED engineVars /\ kind' = kind
    BY DEF Arrive, HandlerStep, RaftCall, StoreRead, Canceled, Forward, ForwardStep, Forwarded,
           HandlerEnds, Handler, handlerVars
  <1>2. CASE Arrive(h)
    BY <1>1, <1>2, KindsAssumption
    DEF EngineInv, Arrive, Forwards, Handler, engineVars, Serving, Awaited, LocalRequestsServed
  <1>3. CASE RaftCall(h)
    BY <1>1, <1>3 DEF EngineInv, RaftCall, HandlerEnds, Handler, engineVars, Serving, Awaited,
                      LocalRequestsServed
  <1>4. CASE StoreRead(h)
    BY <1>1, <1>4 DEF EngineInv, StoreRead, HandlerEnds, Handler, engineVars, Serving, Awaited,
                      LocalRequestsServed
  <1>5. CASE Canceled(h)
    BY <1>1, <1>5 DEF EngineInv, Canceled, HandlerEnds, Handler, engineVars, handlerVars, Serving,
                      Awaited, LocalRequestsServed
  <1>6. CASE Forward(h)
    BY <1>1, <1>6 DEF EngineInv, Forward, Handler, engineVars, Serving, Awaited, LocalRequestsServed
  <1>7. CASE ForwardStep(h)
    BY <1>7 DEF EngineInv, ForwardStep, engineVars, handlerVars, LocalRequestsServed
  <1>8. CASE Forwarded(h)
    BY <1>1, <1>8 DEF EngineInv, Forwarded, HandlerEnds, Handler, engineVars, Serving, Awaited,
                      LocalRequestsServed
  <1> QED BY <1>2, <1>3, <1>4, <1>5, <1>6, <1>7, <1>8 DEF HandlerStep

\* No request meets a part of the node that is shut down, or waits for it,
\* before the time is up (Engine.Close, NewEngineWithConfig).
THEOREM CloseServesLocalRequests == Spec => []LocalRequestsServed
  <1> DEFINE IInv == kind \in [Handlers -> Kinds] /\ EngineInv
  <1>1. Init => IInv
    BY DEF Init, EngineInv, Serving, Awaited, LocalRequestsServed
  <1>2. IInv /\ [Next]_vars => IInv'
    <2> SUFFICES ASSUME IInv, [Next]_vars
                 PROVE  IInv'
      OBVIOUS
    <2>1. kind' = kind
      BY DEF Next, EngineStarts, Close, EngineCloses, OpenFSM, StartRaft, SetupGossip, Listen,
             StartFailed, CloseAllConns, GracefulStop, GracefulStopped, Stop, LeaveGossip,
             CloseRaft, CloseFSM, WaitGroup, Engine, Arrive, HandlerStep, RaftCall, StoreRead,
             Canceled, Forward, ForwardStep, Forwarded, HandlerEnds, Handler, handlerVars, vars
    <2>2. CASE UNCHANGED <<engineVars, handlerVars>>
      BY <2>2 DEF EngineInv, engineVars, handlerVars, LocalRequestsServed
    <2>3. CASE EngineStarts \/ Close \/ EngineCloses
      BY <2>1, <2>3, EngineStepKeeps
    <2>4. ASSUME NEW h \in Handlers, Arrive(h) \/ HandlerStep(h)
          PROVE  IInv'
      BY <2>1, <2>4, HandlerStepKeeps
    <2> QED BY <2>2, <2>3, <2>4 DEF Next, vars
  <1>3. IInv => LocalRequestsServed
    BY DEF EngineInv
  <1> QED BY <1>1, <1>2, <1>3, PTL DEF Spec

-----------------------------------------------------------------------------
(* The type invariants *)

\* The type invariant of the node: every outcome is one that Close or the
\* request explains (NewEngineWithConfig, Close).
THEOREM ShutdownTypes == Spec => []TypeOK
  <1>1. Init => TypeOK
    BY ConnTypesInit DEF Init, TypeOK
  <1>2. TypeOK /\ [Next]_vars => TypeOK'
    <2> SUFFICES ASSUME TypeOK, [Next]_vars
                 PROVE  TypeOK'
      OBVIOUS
    <2> USE DEF TypeOK
    <2>1. ASSUME UNCHANGED connVars
          PROVE  ConnTypeOK'
      BY <2>1 DEF ConnTypeOK, connVars, cacheVars, callerVars
    <2>2. CASE EngineStarts \/ Close
      BY <2>1, <2>2 DEF EngineStarts, OpenFSM, StartRaft, SetupGossip, Listen, StartFailed, Close,
                        Engine, handlerVars
    <2>3. CASE CloseAllConns
      <3>1. ConnTypeOK'
        BY <2>3 DEF ConnTypeOK, CloseAllConns, Closed, callerVars
      <3> QED BY <2>3, <3>1 DEF CloseAllConns, Engine, handlerVars
    <2>4. CASE EngineCloses /\ ~CloseAllConns
      BY <2>1, <2>4 DEF EngineCloses, GracefulStop, GracefulStopped, Stop, LeaveGossip, CloseRaft,
                        CloseFSM, WaitGroup, Engine, handlerVars
    <2>5. ASSUME NEW h \in Handlers, Arrive(h)
          PROVE  TypeOK'
      BY <2>1, <2>5, KindsAssumption DEF Arrive, Handler, engineVars
    <2>6. ASSUME NEW h \in Handlers, RaftCall(h) \/ StoreRead(h)
          PROVE  TypeOK'
      BY <2>1, <2>6 DEF RaftCall, StoreRead, HandlerEnds, Handler, engineVars
    <2>7. ASSUME NEW h \in Handlers, Canceled(h)
          PROVE  TypeOK'
      <3>1. ConnTypeOK'
        BY <2>7, HandlerKeepsTypes
      <3> QED BY <2>7, <3>1 DEF Canceled, HandlerEnds, Handler, engineVars, handlerVars
    <2>8. ASSUME NEW h \in Handlers, Forward(h)
          PROVE  TypeOK'
      <3>1. ConnTypeOK'
        BY <2>8, LookUpKeepsTypes, HandlerKeepsTypes DEF Forward, Handlers
      <3> QED BY <2>8, <3>1 DEF Forward, Handler, engineVars
    <2>9. ASSUME NEW h \in Handlers, Forwarded(h)
           PROVE  TypeOK'
      <3>1. ConnTypeOK'
        BY <2>9, HandlerKeepsTypes
      <3> QED BY <2>9, <3>1 DEF Forwarded, HandlerEnds, Handler, engineVars
    <2>10. ASSUME NEW h \in Handlers, ForwardStep(h)
          PROVE  TypeOK'
      BY <2>10, CallKeepsTypes DEF ForwardStep, Handlers, engineVars, handlerVars
    <2>11. CASE Environment /\ UNCHANGED <<engineVars, handlerVars>>
      BY <2>11, EnvironmentKeepsTypes DEF engineVars, handlerVars
    <2>12. CASE UNCHANGED vars
      BY <2>1, <2>12 DEF vars, engineVars, handlerVars
    <2> QED
      BY <2>2, <2>3, <2>4, <2>5, <2>6, <2>7, <2>8, <2>9, <2>10, <2>11, <2>12
      DEF Next, HandlerStep
  <1> QED BY <1>1, <1>2, PTL DEF Spec
=============================================================================
