CONSTANTS
    MaxPath = 20
    MaxDigits = 2
    MaxCommandLine = 60
    MaxReplyLine = 30
    MaxReplyLines = 30
    MaxLimitDigits = 2
    Configs <- MCConfigs
    Requests <- MCRequests
    ForeignLines <- MCForeignLines
    Verdicts <- MCVerdicts
SPECIFICATION Spec
INVARIANTS
    
    ForwardIsStable
    PathsAreWhole
    ReplyExact
CHECK_DEADLOCK FALSE
