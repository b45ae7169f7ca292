SPECIFICATION Spec
CONSTANTS
    MaxRecipients = 2
    MaxChunks = 1
    MaxDepth = 2
    CancelOps = {"MAIL"}
    LongAt = {}
INVARIANT CancelPoisons
CHECK_DEADLOCK FALSE
