SPECIFICATION FairSpec
CONSTANTS
    g1 = g1
    g2 = g2
    g3 = g3
    Clients = {g1, g2}
    MaxDaemons = 3
    MaxKills = 1
    MAX_ATTEMPTS = 4
    RESPAWN = 2
    MaxCalls = 3
    Programs <- Coming
INVARIANTS AnchoredStateKept AtMostOnce FailsOnlyIfKilled
PROPERTIES DaemonsLeave
CHECK_DEADLOCK FALSE
