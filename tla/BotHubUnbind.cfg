SPECIFICATION Spec
CONSTANTS
    Bots = {b1}
    Socks = {s1, s2}
    NoBot = NoBot
    MaxMiss = 2
CHECK_DEADLOCK FALSE
INVARIANTS NoWayBackAfterUnbind
