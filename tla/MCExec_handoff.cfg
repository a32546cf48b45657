CONSTANTS
    L = L
    A = A
    B = B
    D = D
    NONE = NONE
    Threads = {L, A, B, D}
    Leader = L
    Scenarios <- Handoff
SPECIFICATION EFairSpec
PROPERTY ExecEnds
CHECK_DEADLOCK FALSE
