\* Three pixels by two, so that a crop can be square and need not be; 45 degrees
\* and NV12 are what the scaler refuses.
CONSTANTS
    Width = 3
    Height = 2
    Formats = {"Gray8", "Bgr24", "Rgb24", "Nv12"}
    Crops <- CropsAround
    Rotations = {0, 45, 90, 180, 270}
SPECIFICATION Spec
INVARIANTS
    OutputIsTransformed
    InputKept
