CONSTANTS
    MaxRtt = 3
    MaxAbsOffset = 3
    Tick = 2
    Skews <- MCSkews
    Instants = {10}
    Delays = {0, 1, 3}
    WrongTimes = {0, 9}
    MaxAttempts = 2
SPECIFICATION Spec
INVARIANTS
    UsesAcceptedOffset
    LatencyIsRight
