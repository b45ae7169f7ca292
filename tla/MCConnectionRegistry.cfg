SPECIFICATION Spec
CONSTANTS
    c1 = c1
    c2 = c2
    c3 = c3
    near = near
    far = far
    Conns = {c1, c2, c3}
    Sources = {near, far}
    SourceOf <- MCSourceOf
    Max = 2
    MaxSource = 1
    Callers = {k1, k2}
    Free = Free
    Done = Done
INVARIANTS
    LimitsKept
    AnswerHolds
PROPERTIES
    RunnerGivesUp
    ShutdownReturns
