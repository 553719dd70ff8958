SPECIFICATION Spec
CONSTANTS
    Conns = {c1}
    Bots = {b1}
    Wss = {w1, w2}
    Calls = {k1, k2}
    NoRoute = NoRoute
    Idle = Idle
CHECK_DEADLOCK FALSE
INVARIANTS LiveMapping
