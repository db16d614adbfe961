CONSTANTS
    Hours = {1, 2}
    HourLength = 2
    EarlyNames = {5}
    WindowEnds <- MCWindowEnds
    MaxRecords = 2
    MaxDefects = 2
    MaxChanges = 1
SPECIFICATION Spec
INVARIANTS
    DeliveredIsPrefix
    CompletedIsExact
    DamageStopsThere
    SoundFilesComplete
CHECK_DEADLOCK FALSE
