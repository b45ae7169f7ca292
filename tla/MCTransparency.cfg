SPECIFICATION FairSpec
CONSTANTS
    MaxContent = 4
    MaxRaw = 6
    MaxChunk = 2
    MaxRead = 3
INVARIANTS
    ContentExact
    FramingExact
PROPERTIES
    ImplementsChannel
    EndIsReported
CHECK_DEADLOCK FALSE
