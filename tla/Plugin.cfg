SPECIFICATION PluginSpec
CONSTANTS
    MaxSock = 2
    Ensures = {e1}
    Agents = {a1}
    Tabs = {t1}
    MaxPc = 3
    Conns = {c1}
    Tasks = {o1, o2}
    None = None
CHECK_DEADLOCK FALSE
INVARIANTS PendingOnCurrent
PROPERTIES GatewayKept NeverResetSpared DeafOnlyByStray PeersServed
