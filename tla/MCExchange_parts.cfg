SPECIFICATION AllSpec
CONSTANTS
    p1 = p1
    p2 = p2
    p3 = p3
    Pids = {p1, p2, p3}
    Conns <- MCConns
    MaxInc = 2
    MaxId = 1
    Keys = {1}
    Tags = {1, 2, 3}
    LONG_MAX = 2
    MSGMAX = 2
    MSGMNB = 2
    MSG_QUEUE_MAX = 1
    IPC_WAITER_MAX = 2
    Programs <- Everything
    ct1 = ct1
    ct2 = ct2
    ct3 = ct3
    CredThreads = {ct1, ct2, ct3}
    CredNobody = CredNobody
    CNG_NGROUPS_MAX = 2
    CredScenes <- CredAll
INVARIANTS NoLostWakeup NoPosthumousDelivery SetsWhole IdsPublished
PROPERTIES Linearizable NoRegain 
CHECK_DEADLOCK FALSE
