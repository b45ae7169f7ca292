SPECIFICATION SpoolSpec
CONSTANTS
    Sessions = {s1, s2, s3}
    MaxBytes = 3
    MaxMemoryBytes = 2
    MaxTotalBytes = 4
    MaxTotalMemoryBytes = 3
    MaxConcurrent = 2
    MaxWrite = 2
INVARIANTS
    WithinBudget
    LedgerExact
PROPERTIES
    OperationsEnd
