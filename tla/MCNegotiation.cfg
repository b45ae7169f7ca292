SPECIFICATION Spec
CONSTANTS
    Configs <- MCConfigs
    MaxOps = 4
INVARIANTS
    
    
    TableFresh
    NoDeadEnd
    OpenIsOpen
CHECK_DEADLOCK FALSE
