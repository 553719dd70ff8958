SPECIFICATION FairSpec
CONSTANTS
    bc = bc
    cc = cc
    BindCodes = {bc}
    ClaimCodes = {cc}
    Plugins = {p1}
    MaxBots = 2
    Issues = 1
    Plans <- OneCode
    Calls = {1}
    Ops = {1}
    None = None
CHECK_DEADLOCK FALSE
PROPERTIES CancelDoesNotBlockMark
