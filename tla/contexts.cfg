SPECIFICATION Spec
CONSTANTS
    c1 = c1
    c2 = c2
    Codes <- Programs
    s09 = s09
    s0a = s0a
    s10 = s10
    nan = nan
    Salts <- SomeSalts
    SaltRead <- SaltsRead
    Slots <- SomeSlots
    Reread <- ReadBack
    Words = {0, 1}
    MaxDepth = 3
    MaxSteps = 7
SYMMETRY ProgramSymmetry
INVARIANTS SeesItsCaller Create2NamesItsContract
PROPERTIES CodeNeverChanges
CHECK_DEADLOCK FALSE
