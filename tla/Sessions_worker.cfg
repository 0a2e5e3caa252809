\* One worker and two sockets; sessions outnumber the store and outlive its TTL.
CONSTANTS
    Workers = {w1}
    Threads = {t1, t2}
    PATTERN_IDS = {"chat-supervisor"}
    MaxSize = 2
    TTL = 0
    MaxSessions = 3
    MaxTime = 1
SPECIFICATION Spec
INVARIANTS
    SessionsTypeOK
    StoreHoldsTheDue
    ConnectedHasSocket
PROPERTY
    PanelReachesCall
CHECK_DEADLOCK FALSE
