SPECIFICATION Spec
CONSTANTS
    k1 = k1
    k2 = k2
    nan = nan
    Keys <- AllKeys
    Values = {0, 1}
    Original <- NothingOriginal
    Chain <- NothingOriginal
    Forking = FALSE
    Inherited <- AnyStorage
    Intrinsic = {0, 21016}
    Reread <- MovedKeys
    ForkCosts <- ForkOpcodes
    OtherCosts <- OtherOpcodes
    GasLimit = 1000000
    MaxOps = 4
    MaxExecutes = 2
    MaxBoots = 2
INVARIANTS TypeOK NetPrice StorageIsPaid
CHECK_DEADLOCK FALSE
