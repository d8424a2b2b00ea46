\* One stream error.
CONSTANTS
    small = small  large = large
    Sizes = {small, large}
    NoSize = NoSize
    DefaultSize = small
    Rates = {30}
    OptionRates = {30}
    DefaultRate = 30
    EventDepth = 1
    InitialClients = {0}
    MaxClients = 1
    MaxAttaches = 1
    Failures = {"stream"}
    MaxFailures = 1
SPECIFICATION Spec
INVARIANTS
    IdleHasNoClient
