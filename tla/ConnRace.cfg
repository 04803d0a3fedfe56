SPECIFICATION ConnSpec
CONSTANTS
    Callers = {p, q}
    Addrs = {x}
    Conns = {c1, c2, c3}
    NoConn = NoConn
    NoCaller = NoCaller
INVARIANT
    ClosesOnlyFailed
