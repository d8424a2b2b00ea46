\* A queue of two, and enough frames to overflow it in two cameras; the
\* program ends.
CONSTANTS
    MaxSize = 2
    MaxFrames = 6
SPECIFICATION Spec
CHECK_DEADLOCK FALSE
INVARIANTS
    TypeOK
    NoReadAfterRelease
    NoFrameOfOldCamera
PROPERTIES
    ShownInOrder
    CaptureResumes
