SPECIFICATION PluginSpec
CONSTANTS
    MaxBots = 2
    MaxInst = 2
    MaxSock = 2
    Rpcs <- AnyThenRestart
    MaxTrouble = 2
    None = None
    Whoever = Whoever
    Topics = {1, 2}
    Calls = {1, 2, 3}
    Ended = {1, 2, 3}
    Hooks = {1, 2, 3}
    Sessions = {1, 2, 3}
    Limit = 1
    MaxTime = 4
    MaxLines = 2
    MaxRestart = 1
    Latest = 3
    Broken = {2}
    MaxWorker = 2
CHECK_DEADLOCK FALSE
INVARIANTS OneBridge ConfirmedKept
PROPERTIES StaysStopped WatchEndsByOldSocket NeverIdle OwnTokenKept PluginKept
