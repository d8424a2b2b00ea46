\* The client asks for ten frames a second, and applies again.
CONSTANTS
    small = small  large = large
    Sizes = {small, large}
    NoSize = NoSize
    DefaultSize = small
    Rates = {10, 30}
    OptionRates = {30}
    DefaultRate = 30
    EventDepth = 2
    InitialClients = {0}
    MaxClients = 1
    MaxAttaches = 3
    Failures = {}
    MaxFailures = 0
    TicksPerSecond = 100
    Jitter = 1
    ShortestUse = 100
SPECIFICATION LoopbackSpec
INVARIANTS
    ApplySucceeds
