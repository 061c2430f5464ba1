SPECIFICATION Spec
CONSTANTS
    Keys <- MCKeys
    Values <- MCValues
    MaxInserts = 4
INVARIANT NothingDangles
INVARIANT ReadsBack
INVARIANT RootKeyPacked
CHECK_DEADLOCK FALSE
