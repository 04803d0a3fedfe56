----------------------------- MODULE ConnCache -----------------------------
(***************************************************************************)
(* The cache of connections to other nodes, shared by all the requests a   *)
(* node forwards: getOrCreateConn of service/service.go, and the Invoke    *)
(* that follows it.  A connection changes its state by itself, and those   *)
(* who hold one are not told when another caller closes it.                *)
(*                                                                         *)
(* A connection that is closed, and that nobody holds, stands for the next *)
(* one that is dialled.                                                    *)
(***************************************************************************)
CONSTANTS
    Callers,  \* requests that are being forwarded
    Addrs,
    Conns,
    NoConn,
    NoCaller

ASSUME ConnAssumption == NoConn \notin Conns /\ NoCaller \notin Callers

VARIABLES
    cache,   \* connCache
    conn,    \* GetState() of each connection
    lock,    \* who holds connCacheMu for writing
    cpc,     \* control state of the caller
    caddr,   \* addr
    cconn,   \* conn
    result   \* how the last Invoke ended

cacheVars == <<cache, conn, lock>>
callerVars == <<cpc, caddr, cconn, result>>
connVars == <<cacheVars, callerVars>>

Healthy == {"idle", "connecting", "ready"}

\* The one type invariant of this module.
ConnTypeOK ==
    /\ cache \in [Addrs -> Conns \cup {NoConn}]
    /\ conn \in [Conns -> Healthy \cup {"failure", "shutdown"}]
    /\ lock \in Callers \cup {NoCaller}
    /\ cpc \in [Callers -> {"idle", "state", "lock", "recreate", "dial", "invoke", "sent"}]
    /\ caddr \in [Callers -> Addrs]
    /\ cconn \in [Callers -> Conns \cup {NoConn}]
    /\ result \in [Callers -> {"none", "ok", "error", "unavailable", "closing", "cut", "canceled"}]

ConnInit ==
    /\ cache = [a \in Addrs |-> NoConn]
    /\ conn = [c \in Conns |-> "shutdown"]
    /\ lock = NoCaller
    /\ cpc = [p \in Callers |-> "idle"]
    /\ caddr \in [Callers -> Addrs]
    /\ cconn = [p \in Callers |-> NoConn]
    /\ result = [p \in Callers |-> "none"]

Goto(p, from, to) == cpc[p] = from /\ cpc' = [cpc EXCEPT ![p] = to]

Ends(p, from, r) ==
    /\ Goto(p, from, "idle")
    /\ cconn' = [cconn EXCEPT ![p] = NoConn]
    /\ result' = [result EXCEPT ![p] = r]
    /\ UNCHANGED caddr

-----------------------------------------------------------------------------
(* getOrCreateConn *)

\* The lookup under RLock ...
LookUp(p, a) ==
    /\ lock = NoCaller
    /\ Goto(p, "idle", IF cache[a] = NoConn THEN "lock" ELSE "state")
    /\ caddr' = [caddr EXCEPT ![p] = a]
    /\ cconn' = [cconn EXCEPT ![p] = cache[a]]
    /\ result' = [result EXCEPT ![p] = "none"]
    /\ UNCHANGED cacheVars

\* Mutant of CheckState: it waits until the connection is healthy.
CheckStateWaits(p) ==
    /\ Goto(p, "state", "invoke")
    /\ conn[cconn[p]] \in Healthy
    /\ UNCHANGED <<cacheVars, caddr, cconn, result>>

\* ... the health check without a lock ...
CheckState(p) ==
    /\ Goto(p, "state", IF conn[cconn[p]] \in Healthy THEN "invoke" ELSE "lock")
    /\ UNCHANGED <<cacheVars, caddr, cconn, result>>

CachedIsHealthy(a) == cache[a] # NoConn /\ conn[cache[a]] \in Healthy

\* ... and the double check under Lock: another caller may have replaced it ...
FoundHealthy(p) ==
    /\ lock = NoCaller
    /\ CachedIsHealthy(caddr[p])
    /\ Goto(p, "lock", "invoke")
    /\ cconn' = [cconn EXCEPT ![p] = cache[caddr[p]]]
    /\ UNCHANGED <<cacheVars, caddr, result>>

\* Mutant of FoundFailed: the second check is made under RLock, too.
FoundFailedShared(p) ==
    /\ lock = NoCaller
    /\ ~CachedIsHealthy(caddr[p])
    /\ Goto(p, "lock", "recreate")
    /\ UNCHANGED <<cacheVars, caddr, cconn, result>>

\* ... or not.
FoundFailed(p) ==
    /\ lock = NoCaller
    /\ ~CachedIsHealthy(caddr[p])
    /\ Goto(p, "lock", "recreate")
    /\ lock' = p
    /\ UNCHANGED <<cache, conn, caddr, cconn, result>>

Closed(C) == [c \in Conns |-> IF c \in C THEN "shutdown" ELSE conn[c]]

\* Nobody has a connection of this name any more.
Unused(c) == conn[c] = "shutdown" /\ \A q \in Callers : cconn[q] # c

\* The failed connection, if there is one, is closed and deleted ...
CloseFailed(p) ==
    /\ Goto(p, "recreate", "dial")
    /\ conn' = Closed({cache[caddr[p]]})
    /\ cache' = [cache EXCEPT ![caddr[p]] = NoConn]
    /\ UNCHANGED <<lock, caddr, cconn, result>>

\* ... and a new one is dialled, which does not block, and cached ...
Dialled(p) ==
    /\ Goto(p, "dial", "invoke")
    /\ \E c \in Conns :
           /\ Unused(c)
           /\ conn' = [conn EXCEPT ![c] = "idle"]
           /\ cache' = [cache EXCEPT ![caddr[p]] = c]
           /\ cconn' = [cconn EXCEPT ![p] = c]
    /\ lock' = NoCaller
    /\ UNCHANGED <<caddr, result>>

\* ... unless the address cannot be dialled.
DialFailed(p) ==
    /\ Ends(p, "dial", "error")
    /\ lock' = NoCaller
    /\ UNCHANGED <<cache, conn>>

-----------------------------------------------------------------------------
(* Invoke: it waits while the connection is being made *)

Sent(p) ==
    /\ Goto(p, "invoke", "sent")
    /\ conn[cconn[p]] = "ready"
    /\ UNCHANGED <<cacheVars, caddr, cconn, result>>

FailedFast(p) ==
    /\ \/ Ends(p, "invoke", "unavailable") /\ conn[cconn[p]] = "failure"
       \/ Ends(p, "invoke", "closing") /\ conn[cconn[p]] = "shutdown"
    /\ UNCHANGED cacheVars

Answered(p) ==
    /\ Ends(p, "sent", "ok")
    /\ conn[cconn[p]] = "ready"
    /\ UNCHANGED cacheVars

\* The connection is closed under a request that the server is working on.
Cut(p) ==
    /\ Ends(p, "sent", "cut")
    /\ conn[cconn[p]] = "shutdown"
    /\ UNCHANGED cacheVars

-----------------------------------------------------------------------------
(* The connections themselves, external *)

Moves(c, from, to) ==
    /\ conn[c] = from
    /\ conn' = [conn EXCEPT ![c] = to]
    /\ UNCHANGED <<cache, lock>>

Connecting(c) == (Moves(c, "idle", "connecting") \/ Moves(c, "failure", "connecting")) /\ UNCHANGED callerVars
Connected(c) == Moves(c, "connecting", "ready") /\ UNCHANGED callerVars
ConnectFailed(c) == Moves(c, "connecting", "failure") /\ UNCHANGED callerVars

\* The transport breaks, and the requests on it fail with it.
Lost(c) ==
    LET victims == {p \in Callers : cpc[p] = "sent" /\ cconn[p] = c}
    IN /\ Moves(c, "ready", "idle")
       /\ cpc' = [p \in Callers |-> IF p \in victims THEN "idle" ELSE cpc[p]]
       /\ cconn' = [p \in Callers |-> IF p \in victims THEN NoConn ELSE cconn[p]]
       /\ result' = [p \in Callers |-> IF p \in victims THEN "unavailable" ELSE result[p]]
       /\ UNCHANGED caddr

-----------------------------------------------------------------------------

Unlocked(p) == CheckState(p) \/ CloseFailed(p) \/ Dialled(p) \/ DialFailed(p) \/ Answered(p) \/ Cut(p)
Locking(p) == FoundHealthy(p) \/ FoundFailed(p)
Blocked(p) == Sent(p) \/ FailedFast(p)
Call(p) == Unlocked(p) \/ Locking(p) \/ Blocked(p)

Environment ==
    \E c \in Conns : Connecting(c) \/ Connected(c) \/ ConnectFailed(c) \/ Lost(c)

ConnNext ==
    \/ \E p \in Callers : Call(p) \/ \E a \in Addrs : LookUp(p, a)
    \/ Environment

\* A caller goes on; sync.RWMutex starves nobody; every change of the state
\* of a connection wakes the requests that wait for it; an attempt to connect
\* ends.
ConnFairness ==
    /\ \A p \in Callers : WF_connVars(Unlocked(p)) /\ SF_connVars(Locking(p)) /\ SF_connVars(Blocked(p))
    /\ \A c \in Conns : WF_connVars(Connecting(c)) /\ WF_connVars(Connected(c) \/ ConnectFailed(c))

ConnSpec == ConnInit /\ [][ConnNext]_connVars /\ ConnFairness

-----------------------------------------------------------------------------
(* Properties *)

\* The cache holds exactly the connections that were dialled and not closed,
\* each under one address: however callers race to replace a failed one, none
\* is leaked and none that is closed stays behind (service.go
\* getOrCreateConn).
CacheIsExact ==
    /\ \A c \in Conns : conn[c] # "shutdown" => \E a \in Addrs : cache[a] = c
    /\ \A a \in Addrs : cache[a] # NoConn => conn[cache[a]] # "shutdown"
    /\ \A a, b \in Addrs : cache[a] = cache[b] /\ cache[a] # NoConn => a = b

\* Every forwarded request ends: nobody is left behind on the mutex or on a
\* connection that another caller has replaced (service.go getOrCreateConn,
\* forwardRequestToLeader).
CallsEnd ==
    \A p \in Callers : cpc[p] # "idle" ~> cpc[p] = "idle"

\* "Close and remove failed connection" (service.go:191): no connection is
\* closed under a request that the server is working on.
ClosesOnlyFailed ==
    \A p \in Callers : result[p] # "cut"
=============================================================================
