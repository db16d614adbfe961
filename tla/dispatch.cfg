SPECIFICATION Spec
CONSTANTS
    Symbols = {btcusdt, ethusdt}
    MaxId = 4
    MaxMsgs = 5
    INT64_MAX = 127
    UsPerMs = 10
    ORDERBOOK_DEPTH = 2
SYMMETRY SymbolSymmetry
INVARIANTS
    CallbacksInSequence
    GapCountersMatchGates
    MessageAccounting
    RecordsMatchMessages
