SPECIFICATION Spec
CONSTANTS
    Conns = {c1, c2}
    Bots = {b1, b2}
    Wss = {w1, w2}
    Calls = {k1, k2}
    NoRoute = NoRoute
    Idle = Idle
SYMMETRY Symmetry
CHECK_DEADLOCK FALSE
INVARIANTS DeadRouteOnlyByRace UnboundRouteOnlyByRace
