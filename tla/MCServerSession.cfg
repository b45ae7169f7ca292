SPECIFICATION Spec
CONSTANTS
    Servers <- AllServers
    MaxRcpt = 2
    MaxTransactions = 2
INVARIANTS
    ContractKept
    
PROPERTIES
    FailedBDATIsSilent
    
