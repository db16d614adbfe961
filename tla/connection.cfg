SPECIFICATION FairSpec
CONSTANT MaxReconnect = 1
INVARIANTS
    DisconnectOnce
    LossNotForgotten
    DestructionEndsDelivery
PROPERTIES
    StopHangsInNamedWaits
    LostLinkIsReplaced
