SPECIFICATION Spec
CONSTANT MaxReconnect = 0
INVARIANT
    StopEndsThreads
