SPECIFICATION Spec
CONSTANTS
    bc = bc
    cc = cc
    BindCodes = {bc}
    ClaimCodes = {cc}
    Plugins = {p1}
    MaxBots = 2
    Issues = 1
    Plans <- OneIssue
    Calls = {k1, k2}
    Ops = {o1, o2}
    None = None
SYMMETRY Symmetry
CHECK_DEADLOCK FALSE
INVARIANTS TwoBotsOnlyByRace NoOrphan
