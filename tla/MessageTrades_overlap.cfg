SPECIFICATION MessageSpec
CONSTANTS
    cocoa = cocoa
    ana = ana
    Trades = {t1, t2}
    Requests = {r1}
    Materials = {cocoa}
    NoKey = NoKey
    Recipients = {ana}
    Interests <- MCInterests
    Reachable <- MCReachable
    Projections <- MCProjections
    Edits <- MCEdits
    MaxVersions = 2
    MaxCuts = 0
    Attempts = {a, b}
    MaxRuns = 2
    MaxLost = 1
PROPERTY
    FinishedAnalysisStays
CHECK_DEADLOCK FALSE
