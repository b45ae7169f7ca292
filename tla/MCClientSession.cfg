SPECIFICATION Spec
CONSTANTS
    MaxRecipients = 2
    MaxChunks = 1
    MaxDepth = 2
    CancelOps = {"NOOP", "RSET", "QUIT", "MAIL", "BURL", "DATA", "BDAT"}
    LongAt = {1}
INVARIANTS
    FinalStatusContract
    TransactionsAgree
    

    
CHECK_DEADLOCK FALSE
