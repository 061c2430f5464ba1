SPECIFICATION Spec
CONSTANTS
    NumberWords = {"1", "2"}
    Sources <- MCSources
    Separators <- MCSeparators
    Followers <- MCFollowers
    MaxTexts = 2
INVARIANTS TypeOK ParsedAsMeant TruncatedIsRefused
CHECK_DEADLOCK FALSE
