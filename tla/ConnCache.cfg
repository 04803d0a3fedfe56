SPECIFICATION ConnSpec
CONSTANTS
    Callers = {p, q}
    Addrs = {x, y}
    Conns = {c1, c2, c3, c4}
    NoConn = NoConn
    NoCaller = NoCaller
INVARIANTS
    ConnTypeOK
    CacheIsExact
PROPERTY
    CallsEnd
