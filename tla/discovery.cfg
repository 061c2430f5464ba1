SPECIFICATION Spec
CONSTANTS
    Addresses = {a1, a2}
    Ips = {i1, i2}
    MaxBootstraps = 2
    MaxHandled = 4
    Overlapping = FALSE
    Repeated = FALSE
SYMMETRY IpSymmetry
INVARIANTS
    PeerOncePerIp
    NoUnmatchedPong
    OneNodeIsServed
CHECK_DEADLOCK FALSE
