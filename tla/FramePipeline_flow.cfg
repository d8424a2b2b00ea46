\* Two buffers on either side and a frame beside pump's; a size_t that some image
\* of each format overflows.
CONSTANTS
    input = input
    other = other
    BufferCount = 2
    Frames = {input, other}
    NoFrame = NoFrame
    Intervals = {2}
    Timeouts = {0, 2}
    Tile = 2
    MaxLag = 2
    SinkBuffers = {1, 2}
    CountModulus = 2
    IntMax = 15
    SizeMax = 191
SPECIFICATION PipelineSpec
INVARIANTS
    NoFrameOutstanding
    StatsTellWhatHappened
    QueuedPictureIntact
    BuffersAccounted
    PictureIntact
    SizeIsExact
    FourccRoundTrip
PROPERTIES
    SinkContract
    PumpsKeepQueueing
