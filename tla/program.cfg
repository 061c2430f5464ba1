SPECIFICATION ProgramSpec
CONSTANTS
    WordBytes = 2
    Precision = 53
    Units = 100
    Largest = 16777216
    Exponential = 100000000
    Widest = 2000000000
    MaxBits = 4096
    NaN = NaN
    Infinity = Infinity
    MinusInfinity = MinusInfinity
    Width = 26
    Undefined = Undefined
    Contracts <- MCNone
    Blocks <- MCBlocks
    Height = 42
    Balances <- MCNone
    Keccak <- MCKeccak
    Boots = {}
    Reboots = {}
    Computes <- MCComputes
    MinGas = 0
    MaxBoots = 1
    SelectorBytes = 1
    Selector <- MCSelector
    NumberWords = {"0", "1", "2", "91"}
    NumberOf <- MCNumberOf
    Sources <- MCSources
    Names = {"f", "g", "h", "nothing"}
    Arguments = {7, 300}
    Payments = {0, 1}
    GasLimit = 22000
    MaxCalls = 2
INVARIANTS NeverIntoArguments
PROPERTIES EveryCallEnds KeepsPromises
CHECK_DEADLOCK FALSE
