\* Whether the format frames are checked against is the negotiated one.
CONSTANTS
    p1 = p1  p2 = p2  l1 = l1  l2 = l2  l3 = l3  fA = fA  fB = fB  fBad = fBad
    MaxBuffers = 2
    Pools = {p1}
    Leases = {l1}
    NoPool = NoPool
    Formats = {fA, fB}
    NoFormat = NoFormat
    MinSize <- MCMinSize
    Sizes = {2}
    HonestDevice = TRUE
SPECIFICATION Spec
INVARIANT ConfigIsNegotiated
