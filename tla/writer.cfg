SPECIFICATION FairSpec
CONSTANTS
    Hours = {h1, h2}
    NoFile = NoFile
    Producers = {p1}
    Capacity = 3
    BatchMax = 2
    MaxRecords = 4
    MaxOpens = 2
INVARIANTS
    TypeOK
    Accounting
    HeaderNeverOverstates
    FilesFollowAccepted
    CleanCloseIsComplete
PROPERTIES
    ImplementsDurableLog
    QueueDrains
    CloseReturns
