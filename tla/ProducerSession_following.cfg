\* Any two calls fail or are answered with something else than was asked for, a
\* consumer may be there before the producer, the kernel keeps two events, and
\* --fps may be 0.
CONSTANTS
    small = small  large = large
    Sizes = {small, large}
    NoSize = NoSize
    DefaultSize = small
    Rates = {0, 30}
    OptionRates = {0, 30}
    DefaultRate = 30
    EventDepth = 2
    InitialClients = {0, 1}
    MaxClients = 2
    MaxAttaches = 3
    Failures = {"event", "start", "stream", "reset", "adjust"}
    MaxFailures = 2
SPECIFICATION Spec
INVARIANTS
    TypeOK
    CountIsCurrent
    FewStaleFrames
    ScalerMatchesSink
    ArmHonoured
PROPERTIES
    QuitExits
    ClientServed
