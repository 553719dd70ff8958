SPECIFICATION TabSpec
CONSTANTS
    Bots = {b1, b2}
    Streams = {s1, s2}
    NoStream = NoStream
    MaxChanges = 4
    ListBots = {1, 2}
    ListTopics = {1}
    OwnerOf <- FirstBots
    Users = {u1, u2}
    Nobody = Nobody
    Topics = {1, 2, 3, 4}
    MaxTopic = 2
    MaxStore = 5
    MaxSession = 4
    Opened = 3
    MaxMessage = 3
    MaxBlock = 3
    MaxCall = 2
SYMMETRY Symmetry
CHECK_DEADLOCK FALSE
INVARIANTS TabAgrees DeadClientOnlyByRace ListsAgree ChatShown
