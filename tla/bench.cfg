SPECIFICATION BenchSpec
CHECK_DEADLOCK FALSE
CONSTANTS
    Symbols = {btcusdt}
    MaxId = 1
    MaxMsgs = 4
    INT64_MAX = 127
    UsPerMs = 10
    ORDERBOOK_DEPTH = 2
INVARIANT
    CleanBenchmarkPasses
