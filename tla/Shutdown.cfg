SPECIFICATION Spec
CONSTANTS
    Callers = {p, q}
    Addrs = {x}
    Conns = {c1, c2, c3}
    NoConn = NoConn
    NoCaller = NoCaller
    Kinds = {"local", "forwardAdd", "forwardGet", "watch"}
INVARIANTS
    LocalRequestsServed
    CacheIsExact
PROPERTIES
    CloseReturns
    CallsEnd
CHECK_DEADLOCK FALSE
