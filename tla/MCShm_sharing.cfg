SPECIFICATION FairSpec
CONSTANTS
    p1 = p1
    p2 = p2
    p3 = p3
    Pids = {p1, p2, p3}
    MaxInc = 2
    Roots = {p1, p3}
    SHM_SEG_MAX = 2
    ASHV_SEQ_MAX = 3
    Keys = {1, 2}
    MaxSize = 1
    MaxSegs = 6
    Programs <- Everything
INVARIANTS CountedIsMapped
PROPERTIES  RemovedSegmentsGo
CHECK_DEADLOCK FALSE
