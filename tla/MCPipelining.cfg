SPECIFICATION Spec
CONSTANTS
    MaxCommands = 3
    Depth = 2
    ChunkSize = 1
    Window = 2
    ReplyWindow = 1
    ReplyBuffer = 1
    Styles = {"group", "any"}
INVARIANTS
    RepliesInOrder
    ContentIsNoCommand
    ChunksDelivered
PROPERTIES
    AllAnswered
CHECK_DEADLOCK FALSE
