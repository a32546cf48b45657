SPECIFICATION Spec
CONSTANTS
    p1 = p1
    p2 = p2
    p3 = p3
    Pids = {p1, p2, p3}
    MaxInc = 2
    MaxId = 2
    Keys = {1}
    SEMMSL = 2
    SEMVMX = 3
    SEMAEM = 2
    SEM_SET_MAX = 2
    SEM_UNDO_MAX = 2
    IPC_WAITER_MAX = 2
    Programs <- Everything
INVARIANTS NoLostWakeup SemopAllOrNothing OutcomeExact NothingOutlivesItsSet UndoBeforeRead
CHECK_DEADLOCK FALSE
