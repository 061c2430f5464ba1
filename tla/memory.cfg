SPECIFICATION Spec
CONSTANTS
    Word = 2
    QuadDivisor = 2
    Byte = {0, 1}
    Data <- MCData
    WordData <- MCWordData
    Inherited <- MCInherited
    Offsets = {0, 1, 2, 3, 5}
    Lengths = {0, 2, 3}
    MaxAddress = 8
    MaxOps = 3
INVARIANTS TypeOK PriceOfHighest SizeIsReach OnlyLooseBytesFall
CHECK_DEADLOCK FALSE
