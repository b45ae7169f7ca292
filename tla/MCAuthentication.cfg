SPECIFICATION Spec
CONSTANTS
    Cases <- MCCases
    MaxCalls = 2
INVARIANTS
    CommittedOnlyOnProof
    EndsAgree
    
PROPERTIES
    AuthReturns
CHECK_DEADLOCK FALSE
