\* The demo of the README at 20 frames a second and more: one client that
\* applies twice, with 10 ms to a tick and every wait up to 10 ms late.
CONSTANTS
    small = small  large = large
    Sizes = {small, large}
    NoSize = NoSize
    DefaultSize = small
    Rates = {20, 30, 60}
    OptionRates = {30}
    DefaultRate = 30
    EventDepth = 2
    InitialClients = {0}
    MaxClients = 1
    MaxAttaches = 3
    Failures = {}
    MaxFailures = 0
    TicksPerSecond = 100
    Jitter = 1
    ShortestUse = 100
SPECIFICATION LoopbackSpec
INVARIANTS
    ApplySucceeds
    ServedAsRequested
PROPERTIES
    ApplyServed
