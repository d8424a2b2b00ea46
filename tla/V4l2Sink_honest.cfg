\* A driver that returns only completed buffers; two pools, so a lease can
\* outlive its generation; three leases; two buffers per pool.
CONSTANTS
    p1 = p1  p2 = p2  l1 = l1  l2 = l2  l3 = l3  fA = fA  fB = fB  fBad = fBad
    MaxBuffers = 2
    Pools = {p1, p2}
    Leases = {l1, l2, l3}
    NoPool = NoPool
    Formats = {fA, fBad}
    NoFormat = NoFormat
    MinSize <- MCMinSize
    Sizes = {0, 1, 3}
    HonestDevice = TRUE
SPECIFICATION Spec
SYMMETRY Symmetry
INVARIANTS
    DequeuedHasLease
    NoWriteToDeviceBuffer
    QueuedIsWithDevice
    MappedWhileReferenced
    ReclaimFindsNoLease
    PayloadFits
    IInv
PROPERTIES
    NegotiationStable
