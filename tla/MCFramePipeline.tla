---------------------------- MODULE MCFramePipeline ----------------------------
(***************************************************************************)
(* Instances of FramePipeline, and the sizes of the images that go through *)
(* it, looked at once, when the pipeline is made.                          *)
(***************************************************************************)
EXTENDS FramePipeline, ImageSize

CONSTANTS input, other

\* imageSizeBytes returns the size of the planes, exactly, and 0 just when the
\* layout is invalid or no size_t holds it: no intermediate result wraps, and
\* no size is refused that would have fitted.  Where a layout that is valid and
\* below a quarter of the largest size is asked of CpuBufferPool, which rounds
\* in its own way, the buffers it allocates are exactly as large.
SizeIsExact ==
    PipelineInit => \A f \in PixelFormat :
        /\ \A w, h, s \in -1 .. IntMax : SizeRight(f, w, h, s)
        /\ \A w, h \in 1 .. IntMax : PoolSizeRight(f, w, h)

\* A format the driver echoes is read back as the same format.
FourccRoundTrip == PipelineInit => \A f \in PixelFormat : FourccRight(f)
================================================================================
