CONSTANTS
    L = L
    A = A
    B = B
    D = D
    NONE = NONE
    Threads = {L, A, B, D}
    Leader = L
    Scenarios <- MCScenarios
SPECIFICATION EFairSpec
INVARIANTS OneProgram Survives
PROPERTIES  ExecEnds
CHECK_DEADLOCK FALSE
