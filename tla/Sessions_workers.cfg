\* The two workers of start.sh.
CONSTANTS
    Workers = {w1, w2}
    Threads = {t1}
    PATTERN_IDS = {"chat-supervisor", "sequential-handoff"}
    MaxSize = 2
    TTL = 1
    MaxSessions = 1
    MaxTime = 1
SPECIFICATION Spec
PROPERTY
    PanelReachesCall
CHECK_DEADLOCK FALSE
