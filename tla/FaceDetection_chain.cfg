\* Three anchors, whose boxes can overlap in a chain, with three scores above
\* the threshold.
CONSTANTS
    Boxes <- ChainOfBoxes
    Scores = {1, 2, 3, 4}
    InputSize = 128
    LayerStrides <- BlazeFace
    NumAnchors = 896
    Anchors = {1, 2, 3}
    Threshold = 2
SPECIFICATION Spec
CHECK_DEADLOCK FALSE
INVARIANTS
    KeptDoNotOverlap
    SuppressedByBetter
    AnchorsMatchOutputs
