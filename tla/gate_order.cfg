SPECIFICATION Spec
CONSTANT MaxId = 9
INVARIANTS
    MissingRangeIsOpen
    BehindOnlyAfterRecovery
PROPERTY ImplementsOrderedDelivery
