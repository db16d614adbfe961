SPECIFICATION BeatSpec
CONSTANTS
    PingInterval = 2
    NoDataTimeout = 6
    MaxDelay = 1
    MaxTime = 18
INVARIANTS
    SilentLinkClosedInTime
    PingsPrecedeClose
