# TLA+ models of UVAP

UVAP moves video frames from a producer through a scaler into a V4L2 output device
(v4l2loopback), and a client captures them, counts the faces in them and shows them. This
directory holds TLA+ models of the parts where threads, processes and failing system calls meet
and of the algorithms between them, the TLC configurations that check them, and TLAPS proofs of
their safety for every value of the constants. Paths below are relative to `src/`.

Run inside this directory: `tlasany M.tla`, `tlc -config X.cfg M`, `tlapm M.tla`.

## The system

| component | state it keeps | operations |
|---|---|---|
| `V4l2Sink` (`transport/v4l2`) | descriptor, `streaming_`, `config_`, `negotiatedSizeImage_`, the current `BufferPool` (slots, free list, mapping) | `openDevice`, `configure`, `start`, `acquireFrame`, `pushFrame`, `recycleBuffers`, `yield`/`stop`, destructor; lease destructors on any thread |
| `V4l2LoopbackSession` | whether it is subscribed; the events are the kernel's | subscribe, poll, wait |
| `FramePipeline` | statistics | `pump`: acquire, get, scale, push |
| chessboard producer `main` | wanted size and rate, client count of the running loop, `quit` | start, idle, session, reconfigure, recover, exit |
| `ChessboardProducer`, `CpuBufferPool` | next frame time, free list of CPU buffers | `getFrame`, `acquire`, lease destructor |
| `SoftwareScaler` | output format, crop, rotation | `configure`, `scale` |
| `PixelFormatMap` | none | fourcc codes, `imageSizeBytes` |
| `Camera` (`utils/camera`) | capture device, worker thread, stop token | `open`, `stop`, `join`, `close`, capture loop |
| `FrameQueue` | at most 30 frames | `push` (drops the oldest), `tryPop` |
| face-detect client `main` | the camera, the mode shown | Apply, display timer, exit |
| `FaceDetector` | model, anchors | load, inference, threshold, suppression of overlapping boxes |
| the Qt window | widgets | signals |

How they interact. `main` owns the sink and calls it from one thread; `FramePipeline` borrows
it. A `Frame` from the sink carries a lease that shares the pool and may be destroyed by
another thread, which is the only concurrency inside the sink. The producer and its consumers
meet at the device: a consumer's attaching and detaching reaches the producer as `CLIENT_USAGE`
events, and a consumer's `S_FMT` between two of the producer's sessions reaches it through
`G_FMT`. In the client, a worker thread fills `FrameQueue` and the GUI thread empties it; the
two also share the `VideoCapture`, which nothing but the join protects.

What is hard, and what makes each part correct:

* **Sink.** Ioctls that fail half way through `start`, `recycleBuffers` or `pushFrame`; checks
  made under a lock and relied on after it; leases that outlive their pool, or the sink. Correct
  means that a buffer has one owner at a time among application, sink and driver, that no slot
  leaks, that mappings live exactly as long as someone may touch them, and that what was
  negotiated is what is streamed.
* **Producer.** Events coalesced and dropped, consumers that come and go during any step, errors
  in a start, a recovery or a stream. Correct means that it knows whether anyone captures, that
  it does not fill the queue for nobody, that it serves who stays, in the format they set, and
  that `q` always ends it.
* **Client.** A device closed and reopened under a running worker. Correct means no read of a
  released device, no frame of the old mode, and a join that returns.
* **The two programs together.** Nothing but three sleeps, of 100, 500 and 400 ms, keeps a
  client's Apply apart from the producer's stop and restart. Correct means that no Apply is
  refused and that each is served in the size and at the rate it asked for.
* **Frame source and pump.** CPU frames that any thread may destroy, a schedule that goes on
  whether or not a buffer is free, exceptions with a frame of either pool in hand. Correct means
  that no buffer is lost or drawn over, no label belongs to another picture, both frames are back
  after every call, the counters tell what happened in it, and pumping goes on.
* **Scaler.** Stages that hand on headers of the same memory. Correct means the right picture,
  and an input frame that is not written where the producer relies on it.
* **Detector.** Outputs that have no place of their own, boxes that overlap in chains, equal
  scores in any order. Correct means that each output gets the anchor the network means, no face
  is counted twice and none is lost.
* **Sizes.** Arithmetic that may overflow, done twice by two components.

The hazards behind these, each at its line, are listed in `PROJECT.json`.

## Modules

| module | models |
|---|---|
| `BufferPool` | `V4l2Sink::BufferPool`: each method as an operator from pool to pool, since each runs under the mutex |
| `V4l2Sink`, `MCV4l2Sink` | the sink, its leases and the driver; the safety properties and the inductive invariant |
| `FrameSink` | the contract of `interfaces/IFrameSink.h`: who owns each buffer, and who may pass it on |
| `ProducerSession`, `MCProducerSession` | the producer's main thread, the event queue, the device as its users see it, the consumers |
| `Loopback`, `MCLoopback` | `ProducerSession` with the time its waits take, and a client that closes, arms and reopens |
| `FrameSource` | `ChessboardProducer` and `CpuBufferPool` |
| `FramePipeline`, `MCFramePipeline` | `FramePipeline::pump` between `FrameSource` and a sink that does what `FrameSink` allows |
| `SoftwareScaler`, `MCSoftwareScaler` | `configure` and the stages of `scale` over shared memory |
| `PixelFormatMap`, `ImageSize` | the arithmetic of sizes and formats; the layouts it stands for |
| `CaptureClient` | the client's worker and GUI thread and the queue between them |
| `FaceAnchors`, `FaceDetection`, `MCFaceDetection` | the anchors of the network's outputs; load, inference, threshold, sort and suppression |
| `V4l2SinkProofs` | theorems about pool and sink, and its refinement of `FrameSink` |
| `ProducerSessionProofs`, `CaptureClientProofs` | theorems about either program |
| `LoopbackProofs` | theorems about the two together, with the times of their waits |
| `FramePipelineProofs` | theorems about the frame source and `pump` |
| `ImageSizeProofs`, `SoftwareScalerProofs`, `FaceDetectionProofs` | theorems about the algorithms |

Three compositions: `Loopback` EXTENDS `ProducerSession` and conjoins its actions with a clock and
a client; `FramePipeline` EXTENDS `FrameSource` and takes its steps inside `pump`; and
`FrameSink` is implemented from both sides, by `V4l2Sink`, which keeps it, and by
`FramePipeline`, which uses a sink only as it allows.

### BufferPool and V4l2Sink

`pc` and `op` say where the owner thread is inside an operation. A step ends at each ioctl and
at each critical section of the pool, so the destructor of a lease, which is two steps
(`ReleaseSlot` frees the slot, `DropPool` drops the reference to the pool), falls between any
two of them. Each ioctl that changes anything has an action in which it fails: `SetFormatFail`,
`RequestFail`, `MapFail`, `StreamOnFail`, `DequeueFail`, `QueueFail`, `StreamOffFail`,
`ReqbufsZeroFail`. `Unwind` is where an exception leaves the thread, `UnwindStart` the catch
block of `start`. A call the sink refuses before it changes anything is a stuttering step; a
`pushFrame` it refuses still destroys the frame (`PushRefused`).

Pools and leases have identities, as objects on the heap have. `mapped` is the set of pools not
yet destroyed. `lease[l].phase` tells a frame the application holds from one inside `pushFrame`
and from one whose destructor has freed the slot but still holds the pool. The driver is
`devQueued`, `devDone` and `devFormat`. With `HonestDevice` it answers `DQBUF` only with buffers
it has completed; without, with any index, also one out of range.

A format is a model value. Of its dimensions and stride only `MinSize`, the value of
`imageSizeBytes`, matters here; `SizeIsExact` is about that function itself.

### ProducerSession

One action for each step of `main`, `streamUntilIdle` and `pump` that another process can come
between; `pc` names the step and `phase` the attempt at starting it belongs to (the first one,
a reconfiguration, the recovery from a failed one), because the three differ in where an
exception goes. The sink is reduced to `streaming` and `config`. The sleeps have no length: a
consumer may take any number of steps during them, so the model has every timing of the two
programs. A consumer may be there before the producer. Each kind of call may fail, and a driver
that answers `S_FMT` or `S_PARM` with something else ("adjust") is one of the failures. `armed`
remembers the last format a consumer set with nobody capturing between two sessions, and whether
`main` had yet to ask for it; `stale` counts frames queued for nobody; `regular` says that nobody
captured at first and only starts have failed, which is what `ArmHonoured` and `ClientServed`
need: after an error in the stream they are false (run `lost`).

### Loopback

`producerDue` and `clientDue` are the times until either program goes on. `Delays` gives each
step of the producer its wait: `getFrame` sleeps for a frame interval or answers at once when
that is beyond its timeout of 100 ms, the waits for an event last 20 and 100 ms unless one comes,
the pause after `yield` 400 ms; scaling, `STREAMOFF` and `S_FMT` may take a tick; every wait may
end `Jitter` late. All other calls take no time. The client closes, pauses for 100 ms, sets size
and interval, pauses for 500 ms and opens. A set under a running stream is refused and an open
with no stream finds no capture device (`exclusive_caps`); either ends the client, as the
exception does in the code. `ShortestUse` is an assumption about the user: a capture that ends
before the producer's idle loop has looked leaves an open and a close to be read together, the
producer never yields, and the arming is refused. Which times are enough is proved (`InTime`, below).

### FrameSource

A step of `getFrame` ends at its sleep and at the critical section of the pool, and frames are
destroyed, by any thread, between any two of them. Time is relative: `due` is `nextFrameTime_` minus
now, so that there is no last moment; `MaxLag` only bounds how far behind a schedule is told apart.
A frame number stands for the picture drawn, modulo `Tile`. Two steps of `getFrame` may throw
(`Throw`). If the lease cannot be allocated (`CpuBufferPool.cpp:138`) the index has already left the
free list and nothing brings it back: `lost` remembers these buffers, and `BuffersAccounted` says
that no others are missing. If drawing throws (`ChessboardProducer.cpp:100`; with this pool the
memory is never null, so this stands for any exception after the buffer is taken) the caller's frame
has a buffer and shows nothing. `getFrame` answers false at once, without waiting, when the next
frame is due after the timeout and when no buffer is free (`interfaces/IFrameProducer.h:35` speaks
of a wait); `PumpsKeepQueueing` shows that the pipeline comes to its frames all the same, because a
refusal leaves the schedule where it is.

### FramePipeline

`stage` is where `pump` is. The sink's buffers have owners as in `FrameSink`; what scaling writes is
the label and the picture of the source's frame. Each call that `pump` makes may throw
(`AcquireThrows`, `SourceThrows`, `ScaleThrows`, `PushRefused`), and the sink may refuse either of
its two. The five ways out are five actions, from `LeaveWithoutOutput` to `LeaveThrowing`, each with
the increment that stands there in the code (`FramePipeline.cpp:25,32,39,43,48`), and all destroy
the frames that are left (`Leave`). `seen` is history: it is written where sink, source or an
exception answers, and not by the ways out, so that `StatsTellWhatHappened` can compare the two. All
counters wrap at `CountModulus`, which is 2^64. `stop`, `recycleBuffers`, `start` and `resetStats`
come between two calls, on the same thread, and so may the owner's own calls of `getFrame`
(`Borrow`); the frames it gets may be destroyed by any thread at any time, also while `pump` is
inside `getFrame` (`Dispose`). `MCFramePipeline` also compares the sizes that the pools on either
side compute.

### SoftwareScaler

A header is a rectangle of the input or a picture of its own. `cvtColor` and `rotate` store their
result through the header they are given when size and type fit, as `cv::Mat::create` does. The
input may therefore be written, by a conversion between BGR and RGB, a half turn, or a quarter
turn of a square, although `IScaler.h` passes it as const; the producer configures none of these,
and `InputKept` says that for equal formats without a rotation, and for a call that throws, the
input is as it was. The crop's sums are integers without a width.

### FaceDetection and FaceAnchors

`FaceAnchors` is the numbering: layers of one stride share a map, and its anchors come cell by
cell. `FaceDetection` loads the model, which fails unless there are as many anchors as outputs to
decode (896), and then takes any answer of the network: a box and a score for each anchor.
Coordinates and scores are integers, overlap is the fraction 3/10. `std::sort` is any order that is
sorted, so equal scores come in any.

### CaptureClient

A frame is the number of the read that produced it. The worker's steps end at the read, the
critical section of the queue and each look at the stop token; the GUI thread's at the same and
at the join. Popping until the queue is empty is one step because no worker exists then
(`NoReadAfterRelease` and the worker's end at `Join` are what makes that so).

### PixelFormatMap and ImageSize

`SizeMax` and `IntMax` are the limits of `size_t` and `int`; products are taken modulo
`SizeMax + 1` exactly where the code multiplies, so an unchecked one wraps. `ImageSize` is a
table of layouts written independently of the code: planes, the part of stride and height each
takes, and parity rules. `SizeIsExact` compares the two for every format, dimension and stride.
The CPU pool's own arithmetic is compared where the layout is valid and four bytes a pixel fit a
`size_t`; beyond that its products may wrap, and it accepts odd dimensions that `imageSizeBytes`
refuses.

## Runs

| run | checks | bounds | states |
|---|---|---|---|
| `honest` | seven safety properties of the sink, its inductive invariant among them, and `NegotiationStable` | 2 buffers, 2 pools, 3 leases, a valid and an invalid format, lengths 0, 1 and 3 around the image size 2 | 356k |
| `contract` | `FreeListOK`, `LeaseOwnsSlot`, `FrameSinkContract` | 2 buffers, 2 pools, 3 leases, any `DQBUF` answer | 137k |
| `negotiated` | `ConfigIsNegotiated`, violated | 1 pool, 1 lease, 2 formats | |
| `following` | seven properties of the producer | 2 failures of any kind, 2 consumers, one perhaps there at first, 3 attachments, 2 events kept, rates of 0 and 30 | 373k |
| `lost` | `IdleHasNoClient`, violated | 1 stream error, 1 consumer | |
| `late` | `ArmedFormatServed`, violated | 2 attachments, no failures | |
| `apply` | five properties of the client | queue of 2, 6 frames | 3.6k |
| `demo` | `ApplySucceeds`, `ServedAsRequested`, `ApplyServed` | 10 ms to a tick, waits up to 10 ms late, rates of 20, 30 and 60, 2 Applies | 57k |
| `slow` | `ApplySucceeds`, violated | the same with a rate of 10 | |
| `flow` | seven properties of pump, frames and buffers, two of sizes and formats | 2 buffers on either side, a frame beside pump's, any number of failing calls, an interval of 2 ticks, timeouts of 0 and 2, counters modulo 2; `int` to 15 and `size_t` to 191 | 568k |
| `stages` | `OutputIsTransformed`, `InputKept` | a frame of 3 by 2, every crop up to a pixel beyond it, four formats, five rotations | 16k |
| `chain` | `KeptDoNotOverlap`, `SuppressedByBetter`, `AnchorsMatchOutputs` | three anchors, eight boxes, four scores; every list of four strides up to 3 over an image of 5 | 275k |

Why the bounds are enough. Two buffers is the least the sink accepts and already gives an order to
the free list; two pools let a lease outlive its generation while the next one runs; three leases
are one more than there are buffers in a pool, so that old and new generations are both in use. The
lengths lie below, at zero ("the driver names none") and above the image size. One failure can only
end an attempt; two reach the failure of the recovery. Two events kept and three attachments lose
events, and two consumers distinguish a count from a flag. A queue of two frames overflows and still
has an order; `kMaxSize` is 30. With a tick of 10 ms the pauses of the two programs are 10, 40 and
50 ticks, and `Jitter` is of the order of a scheduler's delay. In `flow` one timeout is shorter than
the interval and one is as long; the rate does not change, but the proofs leave the intervals open.
The frame beside pump's keeps one of the two buffers while the other goes round, is destroyed in the
middle of a `getFrame`, and together with a lost buffer leaves `pump` without any, so that a frame
drawn over a living one and a slot whose buffer is missing are within reach. Counters modulo 2 tell
one event from none or two and wrap at every other; the proof is for any width. Most products of the
larger formats overflow, and 191 still holds a real image of each format. Three pixels by two have
square and oblong crops, so that rotations in place and in new memory both occur. Three boxes make a
chain in which the middle one overlaps both ends; a longer chain repeats it.

`CHECK_DEADLOCK FALSE` stands where a run ends: the client exits (`apply`), a detection is over
(`chain`).

### What the violations show

* `negotiated`: `recycleBuffers` stops the stream and fails to start it again; the pool is kept
  and `streaming_` is false. `configure` looks only at `streaming_` (`V4l2Sink.cpp:400`), so it
  accepts another format, and a second `recycleBuffers` streams with it although no `S_FMT` was
  made. `pushFrame` then calls the new configuration "negotiated" (`V4l2Sink.cpp:504`).
* `lost`: an exception in the stream ends `streamUntilIdle` like a detach
  (`examples/producer/chessboard/main.cpp:176`), and after the restart the producer waits for an
  event that a consumer which never left does not cause.
* `late`: the format is read 400 ms after the detach and not on reconnect, which is what
  `README.md:83` and the usage text say. A format set a moment later is lost. `ArmHonoured`
  (run `following`) is what the code does guarantee: a format set before `G_FMT` is served.
* `slow`: the producer looks for a detach between two pumps, and a pump may sleep for up to
  100 ms in `getFrame`. A client at 10 frames a second that arms 100 ms after it has closed finds
  the output still streaming, `S_FMT` is refused, and the client ends. `demo` shows that from
  20 frames a second on the pauses are enough.

## Fairness

* `V4l2Sink`, `FrameSource`, `SoftwareScaler` and `FaceDetection` state none: nothing in these
  classes promises that their caller goes on; their properties are safety.
* `ProducerSession` has weak fairness of `Main`, one thread whose calls all return: the
  descriptor is `O_NONBLOCK`, `poll` has a timeout, the sleeps are finite. Nothing is assumed of
  consumers or of `q`.
* `Loopback` has weak fairness of the producer, of the steps the client takes without its user
  (`ArmSize`, `ArmInterval`, `Reopen`: straight-line code between sleeps) and of time.
* `FramePipeline` has weak fairness of the steps inside `pump`, of time and of the transport's
  completion of some buffer whenever it has any, and strong fairness of calling `pump`: its loop in
  `streamUntilIdle` does nothing else, but an owner that stops, recycles or resets now and then
  disables the call for a moment. Failures are not bounded; instead `PumpsKeepQueueing` supposes
  that from some time on no call fails, source and sink stay started, nobody else is inside
  `getFrame`, and the source has a buffer that no other frame holds (`Undisturbed`). What went
  before, lost buffers included, is arbitrary.
* `CaptureClient` has weak fairness of the worker (a read returns a frame or, after OpenCV's
  timeout, an empty one) and of the steps the GUI thread takes by itself. The timer, Apply and
  quit are left to the user.

## What is proved

Every safety property that a passing run checks, from the named assumptions on the constants and,
in `LoopbackProofs`, a bound on the times. They leave open:

* for the sink, any number of pools, leases, buffers, formats and driver-chosen lengths
  (`MaxBuffers` positive, `NoPool` and `NoFormat` no members of the sets they stand beside,
  natural-numbered sizes);
* for the producer, any sizes and rates, any number of consumers, attachments and failures, an
  event queue of any positive depth;
* for the two programs together, any set of rates and sizes, any length of a tick, any jitter and
  any bounds on attachments and failures, within `InTime` and for one client (`OneClient`);
* for the client, any queue length and number of frames;
* for the frame source and the pipeline, any number of frames, of buffers on either side (from two on
  in the source) and of failing calls, any intervals and timeouts, a counter of any width;
* for sizes, an `int` and a `size_t` of any width, the second at least as wide as the first;
* for the scaler, frames of any size, crop rectangles of any integers, any set of formats;
* for the detector, finitely many anchors, boxes of any integers (inverted ones too), any integer
  scores and threshold; for its anchors, images of any size and any list of positive strides.

| module | theorems of properties |
|---|---|
| `V4l2SinkProofs` | each safety property the runs check of the sink, the type invariant, `StoppedQueueIsFree`, `NegotiationStable`; `NoWriteToDeviceBuffer` and `QueuedIsWithDevice` if the driver is honest; `FrameSinkContract`: the sink implements the contract |
| `ProducerSessionProofs` | `TypeOK`, `CountIsCurrent`, `FewStaleFrames`, `ScalerMatchesSink`, `ArmHonoured`; `IdleHasNoClient` until a call fails outside a start |
| `LoopbackProofs` | `ApplySucceeds`, `ServedAsRequested`; both programs with a clock take only steps of `ProducerSession` |
| `CaptureClientProofs` | `TypeOK`, `NoReadAfterRelease`, `NoFrameOfOldCamera`, `ShownInOrder` |
| `FramePipelineProofs` | `BuffersAccounted`, `PictureIntact`, `NoFrameOutstanding`, `StatsTellWhatHappened`, `QueuedPictureIntact`; `SinkContract`: `pump` uses a sink as the contract allows; the pipeline is a frame source |
| `ImageSizeProofs` | `SizeIsExact`, `FourccRoundTrip` |
| `SoftwareScalerProofs` | `OutputIsTransformed`, `InputKept` |
| `FaceDetectionProofs` | `KeptDoNotOverlap`, `SuppressedByBetter`, `AnchorsMatchOutputs`; `CellsCovered` and `InOnePass` of every image and list of strides |

Each inductive invariant below was checked on the component's run before it was proved.

The sink. No property is inductive by itself. `LeaseOwnsSlot` needs to know that a free list
lists only Free slots, or `acquireFrame` could hand out a slot twice; that needs the lease inside
`pushFrame` to have a slot that is not Dequeued, or its destructor would list a slot again; and
that needs to know which step of which operation the owner thread is in. `IInv` collects these:
`Control` (each `pc` with the operations it occurs in and what is known there of descriptor,
stream and pool), `LeaseShape`, `FreeListOK`, `MappedWhileReferenced`, `PushingLease` (the one
lease inside `pushFrame`), `LeaseSlots` (held leases and Dequeued slots correspond one to one),
`Quiescent` (no Dequeued slot from the check for outstanding frames to the reclaim: only
`acquireFrame` makes one, and the owner thread is busy), `PayloadKnown`, `DeviceAgrees`.
`V4l2SinkProofs` begins with what each pool method does to a well-formed pool, the free list above
all, and goes on with one lemma per action and part of `IInv` that it can disturb; the property
theorems follow from `InductiveInvariant`.

For its refinement a buffer's owner is computed from its lease and its slot. It passes to the
transport at `QBUF`, not when its slot is marked, because until `QBUF` has answered nobody but
`pushFrame` may touch it; when `QBUF` fails it goes back to the pool. The contract's steps are
matched action by action: for instance `Reclaim` is `Recycle` or `Retire`, and `RequestAndMap`,
which also drops an old pool, is `Begin`.

The client. `NoReadAfterRelease` needs the one fact that there is no worker from the join to the
next open (`NoWorkerBetween`), which the join establishes because it waits for a worker that has
ended. `NoFrameOfOldCamera` needs in addition that what the worker holds was read since the open
(`FreshInHand`) and that the queue is empty from the discard to the open. `ShownInOrder` needs the
screen, the queue and the frame in the worker's hand to follow each other (`InOrder`); that a push
to a full queue keeps this is the lemma `PushedKeepsQueue`. `CInv` is their conjunction.

The frame source. `SInv` says that a buffer is listed once, under one frame, or lost, never two of
these (`Apart`), that none is in no place (`Placed`), and which of the two holds for the frame that
`getFrame` works on (`InHand`). `PictureIntact` follows the step of drawing because the buffer drawn
into is no other frame's, and a frame that was not drawn into shows nothing.

The producer. `PInv` adds three parts to the types, each proved step by step by itself.
`CountInv` is why a dropped event does no harm: the newest one in the queue always carries the
number of consumers of now, because the queue drops at its other end, and when the queue is empty
what the loop has made of the last event is right. `StaleInv` says where in a session a frame may
have been queued for nobody. `ScalerInv` follows scaler, sink and wanted size through start,
reconfiguration and recovery; `ArmInv` follows a format that was set in time from the device
through `G_FMT` to the sink's configuration. `StepMovesEvents` states once what a step may do to
the events, so that `CountInv` need not look at every action.

`IdleInv` says where a consumer may be waiting for `main` while no call has failed outside a start:
it has an event in the queue, has just been counted, or the program ends. `IdleIsRight` follows:
the property that run `lost` violates holds until such a failure, whatever the order of events and
however many starts fail.

The two programs together. Nothing but time separates them, so `LInv` is about the times left.
An Apply is two races. First the producer must notice the close, end its session and yield before
the client, 100 ms after it has closed, arms; then it must be back in a stream before the client,
500 ms later, opens; and in between it must not wake too early from its pause of 400 ms
(`ClosedInv`, `ArmingInv`, `ArmedInv`). Each of these says, step by step, how much longer the one
program sleeps than the other still needs, with one jitter for each wait to come; `CapturingInv`
and `StartingInv` say that outside an Apply there is at most one event and that it is counted
before the user can click again. The premises are

    InTime == \A rate \in Rates \ {0} : SourceWait(rate) + 3 * Jitter < ClosePause

(the wait for a frame, the pushing of it and `STREAMOFF`, each with its jitter, fit in the
client's first pause), which alone suffices because the code's other pauses leave at least as much
room (lemma `Pauses`); `OneClient`, that nobody else captures and the user does not click in the
very instant of the open; for `ServedAsRequested`, that the client asks for one frame a second at
least, as its window and its options have it
(`FaceDetectWindow.cpp:57`, `examples/client/face_detect/main.cpp:269`); and that no call has failed
so far. The constants of `demo` satisfy them and those of `slow` do not. The bound is sharp: with
ticks of 10 ms and a jitter of one tick it admits 17 frames a second and excludes 16, at which TLC
finds a refused Apply. It is also the condition to look at when one of the three pauses is
changed.

The pipeline. Its steps are steps of the frame source or leave it alone (`StepIsOfSource`), so that
`SInv` holds inside `pump`. `OutputHeld` and `InputHeld` say which stages hold which frame, that no
buffer of the sink is in the application's hands outside `pump`, and that a call of `getFrame` under
way is pump's own in the stage that waits for it and another's between two pumps; `Tally` says of
each counter at which stages it lacks the last of its events, so that the way out from there must
count it; `ContentIntact` is what scaling has written. `StepIsOfSink` matches each step with one of
`FrameSink` or a stutter: the same contract that the sink is proved to implement is what its caller
is proved to keep.

Sizes. `MultiplyExact` says that the check by division refuses a product exactly if it exceeds
`SizeMax`, `AddExact` the same of sums; with them the four shapes of layout (packed, and three of
planes) are compared with `ImageSize` one by one, and, for layouts that are valid, with the pool's
unchecked products where they cannot wrap.

The scaler. `ScaleInv` says what the header shows after each stage, not where: the crop's region
as drawn, then in the configured format, then turned. A stage that writes in place is right
because its header is still the crop's, whose places in the frame are one to one (`WriteShows`); a
stage that cannot write in place has memory of its own (`OwnShows`). That a turn loses no pixel
and reads none outside the region is `SourceOnto` and `SourceInside`. `InputKept` is the part of
the invariant that says when the frame is still as it was drawn.

The detector. The detections are a list of all that are above the threshold (`ListsAll`: an
injection between finite sets of one size misses nothing), sorted. `DInv` says that the positions
before the loop's are each kept or removed, that what a kept one overlaps after it is removed, and
that what is removed overlaps one kept before it. Overlap has no direction (`OverlapSymmetric`),
so no kept detection overlaps one before it either.

The anchors. What a recursive function computes is usually proved by induction, whose theorems
take an operator as a parameter and cannot be used here; `Downwards` says it of a set of layers
instead, from the last to the first, by the well-foundedness of the natural numbers, and
`FromExists` constructs the function that `GenerateAnchors` chooses, a layer at a time. Then each
group of layers has, in each cell of its map, an interval of anchors (`AnchorsOfCell`), and none in
the cells of other maps; counts add up over the groups (`TailsCover`), so that every cell has two
anchors for each layer that sees it. `TailsCellByCell` says that neighbours are in one cell or in
two consecutive ones: inside a group by the division, and between two groups of the same map size
because they then have different strides, the case that `InOnePass` leaves out. `BlazeFaceAnchors`
is the detector's own network: 16 by 16 cells with two anchors and 8 by 8 with six, as the comment
at `FaceDetector.cpp:29` says, 896 in all, so that the constructor's check passes.

## Model-checked only

* Liveness (`ClientServed`, `QuitExits`, `CaptureResumes`, `ApplyServed`, `PumpsKeepQueueing`):
  fairness is out of the prover's reach.
* Outside its theorems' premises, what `Loopback` does: other clients at the same device, and calls
  that fail during an Apply. `ProducerSession` has both, without times.

## Not modelled

* The Qt window: widgets; its signals are the user's actions of `CaptureClient` and `Loopback`.
* In the detector: what TensorFlow Lite does with the model, the input tensor, the size of the
  output tensors, which the code takes for 896 without a check, and the floating-point arithmetic
  that decodes a box, which has no control. A score that is not a number, with which `std::sort` may do anything, is not among the scores.
* In the scaler: the interpolation of `cv::resize`, and overflow of the sums in the crop's check.
* In the sink: allocation failure (the CPU pool's is modelled), and setting the same sink's descriptor from outside.
* In the producer: the detached input thread, which may write a local of `main` while the process
  ends, and the subscription that `waitClientUsage` makes when there is none, which `main` never
  needs.
* In the client: the list of camera modes, which is a constant, and `waitPop`, which has no
  caller.
* Logging, option parsing, build files and tests.

## Plan

Done: all the components above with their runs, and the proofs of all their safety properties.

Next:

1. `Loopback` with a second client: who of two arms last is served, and what the other one sees.
2. Of the code: a sink whose lease cannot be allocated (`V4l2Sink.cpp:598`).
