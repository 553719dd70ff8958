SPECIFICATION FairSpec
CONSTANTS
    bc = bc
    cc = cc
    BindCodes = {bc}
    ClaimCodes = {cc}
    Plugins = {p1}
    MaxBots = 1
    Issues = 2
    Plans <- TwoIssues
    Calls = {1}
    Ops = {1}
    None = None
CHECK_DEADLOCK FALSE
INVARIANTS AnswerIsOwn
PROPERTIES PollEnds
