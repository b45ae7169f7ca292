SPECIFICATION DataSpec
CONSTANTS
    MaxRecipients = 2
    MaxContent = 4
    MaxRead = 5
    Limits = {1, 2, 7}
    MaxSpoolBytes = 3
    Int64Max = 7
INVARIANTS
    AcceptedIsDelivered
    ResetAgreesWithReplies
    SizeLimitExact
    RepliesAfterContent
