SPECIFICATION Spec
CONSTANTS
    kBuckets = 2
    MaxPin = 2
    MaxGapUs = 5
    INT_MAX = 7
    INT64_MAX = 31
    kMaxRingBufferSize = 2
    Latencies = {0, 1, 3}
    kLatencyReportIntervalSeconds = 2
    MaxMsgs = 3
    MaxWords = 3
INVARIANTS
    CallbacksFindLiveObjects
    SamplesConserved
    MaxNotLost
    PercentilesBracket
    CacheIsNewest
    CommandLineMeaning
    LoadedConfigIsUsable
PROPERTIES
    SignalStopsProgram
    SamplesAreReported
