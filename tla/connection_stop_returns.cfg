SPECIFICATION AnsweringSpec
CONSTANT MaxReconnect = 0
PROPERTY
    StopReturns
