\* Two calls, whose sockets may overlap, flushed, ended and closed without an end.
SPECIFICATION Spec
CONSTANTS
    Lengths = {1, 2}
    MaxChunks = 4
    MaxTime = 2
    MaxCalls = 2
INVARIANT PlaysInOrder
CHECK_DEADLOCK FALSE
