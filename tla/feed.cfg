CONSTANTS
    Streams = {trades, books}
SPECIFICATION Spec
INVARIANTS
    StoppedIsClean
    WritesMeetOpenWriters
    OnlyLingerersMeetRegistration
