\* A driver whose DQBUF may return any index at any time, also one out of range;
\* three leases.
CONSTANTS
    p1 = p1  p2 = p2  l1 = l1  l2 = l2  l3 = l3  fA = fA  fB = fB  fBad = fBad
    MaxBuffers = 2
    Pools = {p1, p2}
    Leases = {l1, l2, l3}
    NoPool = NoPool
    Formats = {fA}
    NoFormat = NoFormat
    MinSize <- MCMinSize
    Sizes = {2}
    HonestDevice = FALSE
SPECIFICATION Spec
SYMMETRY Symmetry
INVARIANTS
    FreeListOK
    LeaseOwnsSlot
PROPERTIES
    FrameSinkContract
