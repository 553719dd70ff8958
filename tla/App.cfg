SPECIFICATION AppSpec
CONSTANTS
    MaxSock = 3
    MaxConnId = 2
    Waiters = {u1, u2}
    MaxSend = 2
    MaxFinger = 2
    MaxRecorder = 3
    MaxUpload = 2
    MaxRestart = 1
    MaxSize = 3
    HighWater = 3
    LowWater = 1
    MaxChunks = 3
    Uis = {w1, w2}
    BotSocks = {b1, b2}
    Tickets = {t1}
    Requests = {1}
    Offers = {2}
    MaxBuffer = 3
    BatchSize = 2
    MaxLog = 5
    MaxSocket = 2
    MaxTask = 3
    MaxRetry = 2
    MaxTick = 4
    SeqSize = 3
    RandSize = 2
    MaxDrift = 2
CHECK_DEADLOCK FALSE
INVARIANTS OnItsWay SendIsTimed ArrivesWhole
PROPERTIES LostOnlyByConnect RunKept ResultShown FileReplaced IdsIncrease SpokenOrDropped
