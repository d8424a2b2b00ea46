\* No failures; a consumer sets a format at any time.
CONSTANTS
    small = small  large = large
    Sizes = {small, large}
    NoSize = NoSize
    DefaultSize = small
    Rates = {30}
    OptionRates = {30}
    DefaultRate = 30
    EventDepth = 1
    InitialClients = {0}
    MaxClients = 1
    MaxAttaches = 2
    Failures = {}
    MaxFailures = 0
SPECIFICATION Spec
INVARIANTS
    ArmedFormatServed
