SPECIFICATION Spec
CONSTANTS
    WordBytes = 2
    Precision = 9
    Units = 100
    Largest = 16000000
    Exponential = 100000000
    Widest = 16777216
    MaxBits = 4096
    NaN = NaN
    Infinity = Infinity
    MinusInfinity = MinusInfinity
    Width = 26
    Undefined = Undefined
    Contracts <- MCContracts
    Blocks <- MCBlocks
    Height = 42
    Balances <- MCBalances
    Keccak <- MCKeccak
    Boots <- MCBoots
    Reboots <- MCReboots
    Computes <- MCComputes
    MinGas = 0
    MaxBoots = 2
INVARIANTS StuckOnlyAfterThrow RunsInstructions ComputesWords
PROPERTIES ThrewIsDead
CHECK_DEADLOCK FALSE
