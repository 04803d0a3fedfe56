SPECIFICATION Spec
CONSTANTS
    Callers = {p}
    Addrs = {x}
    Conns = {c1, c2}
    NoConn = NoConn
    NoCaller = NoCaller
    Kinds = {"forwardAdd"}
INVARIANTS
    InFlightComplete
CHECK_DEADLOCK FALSE
