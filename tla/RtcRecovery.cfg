SPECIFICATION Spec
CONSTANTS
    MaxRtc = 2
    MaxConn = 2
    MaxBuilds = 2
    MaxRetries = 1
    None = None
CHECK_DEADLOCK FALSE
INVARIANTS PcOwned
PROPERTIES NeverAbandoned HollowOnlyByStaleRun LostByItself
