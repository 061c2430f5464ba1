SPECIFICATION Spec
CONSTANTS
    k1 = k1
    k2 = k2
    nan = nan
    Keys <- TwoKeys
    Values = {0, 1, 2}
    Original <- SomeOriginal
    Chain <- SomeOriginal
    Forking = TRUE
    Inherited <- Fetched
    Intrinsic = {21016}
    Reread <- SameKeys
    ForkCosts <- ForkOpcodes
    OtherCosts <- OtherOpcodes
    GasLimit = 1000000
    MaxOps = 5
    MaxExecutes = 2
    MaxBoots = 1
INVARIANTS NetPrice
CHECK_DEADLOCK FALSE
