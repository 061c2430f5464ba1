SPECIFICATION Spec
CONSTANTS
    Pings <- MCPings
    Pongs <- MCPongs
    FindNodes <- MCFindNodes
    Neighborhoods <- MCNeighborhoods
INVARIANT ReadAsWritten
INVARIANT CanonicalOnWire
CHECK_DEADLOCK FALSE
