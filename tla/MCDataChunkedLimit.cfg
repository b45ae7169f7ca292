SPECIFICATION DataSpec
CONSTANTS
    MaxRecipients = 2
    MaxContent = 4
    MaxRead = 5
    Limits = {2}
    MaxSpoolBytes = 3
    Int64Max = 7
INVARIANTS
    MaxMessageEnforced
