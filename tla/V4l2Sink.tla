------------------------------- MODULE V4l2Sink -------------------------------
(***************************************************************************)
(* V4l2Sink, the zero-copy V4L2 VIDEO_OUTPUT sink, with the device it      *)
(* drives and the threads that drop its buffer leases.                     *)
(*                                                                         *)
(* The sink is confined to one owner thread: pc and op say where that      *)
(* thread is inside an operation, and a step ends at each ioctl and at     *)
(* each critical section of the pool.  A lease (the BufferMemory inside a  *)
(* Frame) may be destroyed by any thread at any moment, so the lease steps *)
(* interleave with every operation.  A call that the sink rejects before   *)
(* it changes anything is a stuttering step, and a call it rejects after   *)
(* taking a frame by value is PushRefused.                                 *)
(***************************************************************************)
EXTENDS BufferPool

CONSTANTS
    Pools,          \* identities of BufferPool objects on the heap
    Leases,         \* identities of BufferMemory objects
    NoPool,         \* the null pool_
    Formats,        \* frame formats (dimensions, pixel format, stride)
    NoFormat,       \* no format: a fresh SinkConfig has no dimensions
    MinSize,        \* imageSizeBytes of each format; 0 for an invalid layout
    Sizes,          \* sizeimage and buffer lengths a driver may choose
    HonestDevice    \* whether DQBUF returns only buffers the device completed

ASSUME NoPoolAssumption == NoPool \notin Pools
ASSUME NoFormatAssumption == NoFormat \notin Formats
ASSUME MinSizeAssumption == MinSize \in [Formats -> Nat]
ASSUME SizesAssumption == Sizes \subseteq Nat
ASSUME HonestDeviceAssumption == HonestDevice \in BOOLEAN

VARIABLES
    alive,          \* the V4l2Sink object exists
    fd,             \* fd_ >= 0
    streaming,      \* streaming_
    config,         \* config_
    sizeImage,      \* negotiatedSizeImage_
    pool,           \* pool_
    heap,           \* the BufferPool objects
    mapped,         \* the pools not yet destroyed: their buffers are mapped
    lease,          \* the BufferMemory objects
    pc, op,         \* the step and the operation the owner thread is in
    devQueued,      \* buffers the driver holds, not completed
    devDone,        \* buffers the driver has completed, not dequeued
    devFormat       \* the format last negotiated by S_FMT

sinkVars == <<alive, fd, streaming, config, sizeImage, pool>>
leaseVars == <<heap, mapped, lease>>
deviceVars == <<devQueued, devDone, devFormat>>
vars == <<sinkVars, leaseVars, pc, op, deviceVars>>

NoLease == [phase |-> "none", pool |-> NoPool, index |-> 0]

\* A lease is held by the application, is the argument of a running
\* pushFrame, or is released: its destructor has run but its reference to
\* the pool is not dropped yet.
Lease == [phase : {"none", "held", "pushing", "released"},
          pool : Pools \cup {NoPool},
          index : Index]

Config == [format : Formats \cup {NoFormat}, depth : Nat]

DefaultConfig == [format |-> NoFormat, depth |-> 4]

OwnerStep == {"idle", "dqbuf", "qbuf", "pushReturn", "streamOff", "reclaim",
              "reqbufs0", "setFormat", "reqbufs", "streamOn", "unwind", "close"}

Operation == {"none", "start", "recycle", "yield", "destroy"}

TypeOK ==
    /\ alive \in BOOLEAN /\ fd \in BOOLEAN /\ streaming \in BOOLEAN
    /\ config \in Config
    /\ sizeImage \in Nat
    /\ pool \in Pools \cup {NoPool}
    /\ heap \in [Pools -> Pool]
    /\ mapped \subseteq Pools
    /\ lease \in [Leases -> Lease]
    /\ pc \in OwnerStep /\ op \in Operation
    /\ devQueued \subseteq Index /\ devDone \subseteq Index
    /\ devFormat \in Formats \cup {NoFormat}

Init ==
    /\ alive = TRUE /\ fd = FALSE /\ streaming = FALSE
    /\ config = DefaultConfig
    /\ sizeImage = 0
    /\ pool = NoPool
    /\ heap = [p \in Pools |-> NewPool(0, 0)]
    /\ mapped = {}
    /\ lease = [l \in Leases |-> NoLease]
    /\ pc = "idle" /\ op = "none"
    /\ devQueued = {} /\ devDone = {} /\ devFormat = NoFormat

-----------------------------------------------------------------------------
\* Faulty variant: resetting pool_ unmaps although a lease shares the pool.
SharedByNoLease(ps, pl, ls) == ps \cap {pl}

\* The shared_ptr to a pool: of the pools ps, those that pl (pool_) or one of
\* the leases ls still refers to.  The others are destroyed and unmapped.
Referenced(ps, pl, ls) ==
    {p \in ps : p = pl \/ \E l \in Leases : ls[l].pool = p}

\* Faulty variant: never finds an outstanding frame.
OutstandingUnchecked == FALSE

\* requireNoOutstandingFrames throws.
Outstanding == pool # NoPool /\ HasDequeued(heap[pool])

\* Where an exception leaves the owner thread: the destructor catches it and
\* goes on to closeDevice, any other operation ends.
Unwind ==
    IF op = "destroy" THEN pc' = "close" /\ UNCHANGED op
                      ELSE pc' = "idle" /\ op' = "none"

Return == pc' = "idle" /\ op' = "none"

Goto(step) == pc' = step /\ UNCHANGED op

Ready == alive /\ pc = "idle"

\* setFormat: the driver's sizeimage, or the layout's own size if it names none.
NegotiatedSize(f, s) == IF s > 0 THEN s ELSE MinSize[f]

\* Faulty variant: maps whatever length the driver reports.
BufferAnySize(len, size) == TRUE

\* requestAndMapBuffers: a buffer holds the negotiated image.
BufferLargeEnough(len, size) == len >= size

\* pushFrame: the payload is not empty and fits the mapped buffer.
PayloadAllowed(p) == sizeImage # 0 /\ sizeImage <= p.length

-----------------------------------------------------------------------------
(***************************************************************************)
(* The life of the object: construction, openDevice, configure.            *)
(***************************************************************************)

\* A new sink; leases of an earlier one may still be around.
Construct ==
    /\ ~alive /\ pc = "idle"
    /\ alive' = TRUE
    /\ config' = DefaultConfig
    /\ UNCHANGED <<fd, streaming, sizeImage, pool, leaseVars, pc, op, deviceVars>>

OpenDevice ==
    /\ Ready /\ ~fd
    /\ fd' = TRUE
    /\ UNCHANGED <<alive, streaming, config, sizeImage, pool, leaseVars, pc, op,
                   deviceVars>>

\* Faulty variant: accepts a configuration at any time.
ConfigureAllowedAlways == TRUE

ConfigureAllowed == ~streaming

Configure(f, d) ==
    /\ Ready /\ ConfigureAllowed
    /\ config' = [format |-> f, depth |-> d]
    /\ UNCHANGED <<alive, fd, streaming, sizeImage, pool, leaseVars, pc, op,
                   deviceVars>>

-----------------------------------------------------------------------------
(***************************************************************************)
(* start: openDevice, S_FMT, REQBUFS(0), REQBUFS and mmap, STREAMON.  A    *)
(* failure of any of them ends in the catch block, Unwind start.           *)
(***************************************************************************)
StartBegin ==
    /\ Ready /\ ~streaming /\ config.format # NoFormat
    /\ fd' = TRUE
    /\ pc' = "setFormat" /\ op' = "start"
    /\ UNCHANGED <<alive, streaming, config, sizeImage, pool, leaseVars, deviceVars>>

\* The driver may answer S_FMT with a format f of its own.
SetFormat(f, s) ==
    /\ pc = "setFormat"
    /\ MinSize[config.format] > 0
    /\ devFormat' = f
    /\ config' = [config EXCEPT !.format = f]
    /\ sizeImage' = IF MinSize[f] > 0 THEN NegotiatedSize(f, s) ELSE sizeImage
    /\ IF MinSize[f] > 0 /\ NegotiatedSize(f, s) >= MinSize[f]
       THEN Goto("reqbufs0")
       ELSE Goto("unwind")
    /\ UNCHANGED <<alive, fd, streaming, pool, leaseVars, devQueued, devDone>>

\* The layout is invalid, the ioctl fails, or the driver picks a format the
\* interface has no name for.
SetFormatFail ==
    /\ pc = "setFormat"
    /\ \/ UNCHANGED devFormat
       \/ MinSize[config.format] > 0 /\ devFormat' = NoFormat
    /\ Goto("unwind")
    /\ UNCHANGED <<sinkVars, leaseVars, devQueued, devDone>>

\* The new pool replaces pool_; only the owner thread can reach it until a
\* frame is acquired, so allocating and mapping it is one step.
RequestAndMap(n, len, p) ==
    /\ pc = "reqbufs"
    /\ p \notin mapped
    /\ BufferLargeEnough(len, sizeImage)
    /\ config' = [config EXCEPT !.depth = n]
    /\ pool' = p
    /\ heap' = [heap EXCEPT ![p] = NewPool(n, len)]
    /\ mapped' = Referenced(mapped, p, lease) \cup {p}
    /\ Goto("streamOn")
    /\ UNCHANGED <<alive, fd, streaming, sizeImage, lease, deviceVars>>

\* REQBUFS fails or grants fewer than two buffers; or, with n granted, a
\* buffer is too small or cannot be mapped, and the new pool is discarded.
RequestFail ==
    /\ pc = "reqbufs"
    /\ Goto("unwind")
    /\ UNCHANGED <<sinkVars, leaseVars, deviceVars>>

MapFail(n) ==
    /\ pc = "reqbufs"
    /\ config' = [config EXCEPT !.depth = n]
    /\ pool' = NoPool
    /\ mapped' = Referenced(mapped, NoPool, lease)
    /\ Goto("unwind")
    /\ UNCHANGED <<alive, fd, streaming, sizeImage, heap, lease, deviceVars>>

\* STREAMON ends start and recycleBuffers.
StreamOn ==
    /\ pc = "streamOn"
    /\ streaming' = TRUE
    /\ Return
    /\ UNCHANGED <<alive, fd, config, sizeImage, pool, leaseVars, deviceVars>>

StreamOnFail ==
    /\ pc = "streamOn"
    /\ IF op = "start" THEN Goto("unwind") ELSE Return
    /\ UNCHANGED <<sinkVars, leaseVars, deviceVars>>

\* start's catch block: releaseMappedBuffers, REQBUFS(0) whatever it answers.
UnwindStart ==
    /\ pc = "unwind"
    /\ pool' = NoPool
    /\ mapped' = Referenced(mapped, NoPool, lease)
    /\ Return
    /\ UNCHANGED <<alive, fd, streaming, config, sizeImage, heap, lease, deviceVars>>

-----------------------------------------------------------------------------
(***************************************************************************)
(* acquireFrame: a slot of the free list, or else one that DQBUF returns.  *)
(***************************************************************************)
Hold(l, p, i) ==
    lease' = [lease EXCEPT ![l] = [phase |-> "held", pool |-> p, index |-> i]]

AcquireListed(l) ==
    /\ Ready /\ streaming /\ pool # NoPool /\ fd
    /\ lease[l] = NoLease
    /\ heap[pool].freeIndices # <<>>
    /\ heap' = [heap EXCEPT ![pool] = AcquireFree(@)]
    /\ IF FreeListCorrupt(heap[pool])
       THEN UNCHANGED lease
       ELSE Hold(l, pool, Head(heap[pool].freeIndices))
    /\ UNCHANGED <<sinkVars, mapped, pc, op, deviceVars>>

\* The free list is empty; a lease released from now on is not seen.
AcquireDequeue ==
    /\ Ready /\ streaming /\ pool # NoPool /\ fd
    /\ \E l \in Leases : lease[l] = NoLease
    /\ heap[pool].freeIndices = <<>>
    /\ Goto("dqbuf")
    /\ UNCHANGED <<sinkVars, leaseVars, deviceVars>>

\* DQBUF returned i; acquireFrame throws if the sink had not queued it.
Dequeue(l, i) ==
    /\ pc = "dqbuf"
    /\ lease[l] = NoLease
    /\ HonestDevice => i \in devDone
    /\ heap' = [heap EXCEPT ![pool] = Transition(@, i, "Queued", "Dequeued")]
    /\ IF CanTransition(heap[pool], i, "Queued")
       THEN Hold(l, pool, i)
       ELSE UNCHANGED lease
    /\ devDone' = devDone \ {i}
    /\ Return
    /\ UNCHANGED <<sinkVars, mapped, devQueued, devFormat>>

\* EAGAIN, EFAULT (backpressure) or another error.
DequeueFail ==
    /\ pc = "dqbuf"
    /\ Return
    /\ UNCHANGED <<sinkVars, leaseVars, deviceVars>>

-----------------------------------------------------------------------------
(***************************************************************************)
(* pushFrame, which takes the frame, and with it the lease, by value.      *)
(***************************************************************************)

\* Not streaming, a frame of another pool or of another format, a payload
\* that does not fit: the call throws and the lease is destroyed with it.
PushRefused(l) ==
    /\ Ready /\ lease[l].phase = "held"
    /\ heap' = [heap EXCEPT ![lease[l].pool] = ReleaseLease(@, lease[l].index)]
    /\ lease' = [lease EXCEPT ![l] = NoLease]
    /\ mapped' = Referenced(mapped, pool, lease')
    /\ UNCHANGED <<sinkVars, pc, op, deviceVars>>

BelongsTo(l) == lease[l].pool = pool

PushBegin(l) ==
    /\ Ready /\ streaming /\ pool # NoPool
    /\ lease[l].phase = "held" /\ BelongsTo(l)
    /\ PayloadAllowed(heap[pool])
    /\ CanTransition(heap[pool], lease[l].index, "Dequeued")
    /\ heap' = [heap EXCEPT ![pool] =
                    Transition(@, lease[l].index, "Dequeued", "Queued")]
    /\ lease' = [lease EXCEPT ![l].phase = "pushing"]
    /\ Goto("qbuf")
    /\ UNCHANGED <<sinkVars, mapped, deviceVars>>

Queue(l) ==
    /\ pc = "qbuf" /\ lease[l].phase = "pushing"
    /\ devQueued' = devQueued \cup {lease[l].index}
    /\ Goto("pushReturn")
    /\ UNCHANGED <<sinkVars, leaseVars, devDone, devFormat>>

\* Faulty variant: forgets to give the slot back when QBUF fails.
SlotAfterQueueFailKept(p, i) == p

SlotAfterQueueFail(p, i) == Transition(p, i, "Queued", "Free")

QueueFail(l) ==
    /\ pc = "qbuf" /\ lease[l].phase = "pushing"
    /\ heap' = [heap EXCEPT ![pool] = SlotAfterQueueFail(@, lease[l].index)]
    /\ Goto("pushReturn")
    /\ UNCHANGED <<sinkVars, mapped, lease, deviceVars>>

\* The frame parameter is destroyed.
PushReturn(l) ==
    /\ pc = "pushReturn" /\ lease[l].phase = "pushing"
    /\ heap' = [heap EXCEPT ![lease[l].pool] = ReleaseLease(@, lease[l].index)]
    /\ lease' = [lease EXCEPT ![l] = NoLease]
    /\ mapped' = Referenced(mapped, pool, lease')
    /\ Return
    /\ UNCHANGED <<sinkVars, deviceVars>>

-----------------------------------------------------------------------------
(***************************************************************************)
(* The destructor of a lease, on any thread: releaseLease in its body, then *)
(* the reference to the pool, whose last holder unmaps the buffers.        *)
(***************************************************************************)
ReleaseSlot(l) ==
    /\ lease[l].phase = "held"
    /\ heap' = [heap EXCEPT ![lease[l].pool] = ReleaseLease(@, lease[l].index)]
    /\ lease' = [lease EXCEPT ![l].phase = "released"]
    /\ UNCHANGED <<sinkVars, mapped, pc, op, deviceVars>>

DropPool(l) ==
    /\ lease[l].phase = "released"
    /\ lease' = [lease EXCEPT ![l] = NoLease]
    /\ mapped' = Referenced(mapped, pool, lease')
    /\ UNCHANGED <<sinkVars, heap, pc, op, deviceVars>>

-----------------------------------------------------------------------------
(***************************************************************************)
(* recycleBuffers, yield (which stop calls) and the destructor (which      *)
(* calls stop): no outstanding frame, STREAMOFF, every slot back to Free;  *)
(* then STREAMON again, or the pool dropped and REQBUFS(0).                *)
(***************************************************************************)
Begin(o) == pc' = "streamOff" /\ op' = o

RecycleBegin ==
    /\ Ready /\ pool # NoPool /\ fd /\ ~Outstanding
    /\ Begin("recycle")
    /\ UNCHANGED <<sinkVars, leaseVars, deviceVars>>

YieldBegin ==
    /\ Ready /\ ~Outstanding
    /\ Begin("yield")
    /\ UNCHANGED <<sinkVars, leaseVars, deviceVars>>

\* With outstanding frames stop throws, and the destructor goes on to close.
DestroyBegin ==
    /\ Ready
    /\ IF Outstanding THEN pc' = "close" /\ op' = "destroy" ELSE Begin("destroy")
    /\ UNCHANGED <<sinkVars, leaseVars, deviceVars>>

\* The device returns every buffer; there is nothing to do if not streaming.
StreamOff ==
    /\ pc = "streamOff"
    /\ streaming' = FALSE
    /\ IF fd /\ streaming
       THEN devQueued' = {} /\ devDone' = {}
       ELSE UNCHANGED <<devQueued, devDone>>
    /\ Goto("reclaim")
    /\ UNCHANGED <<alive, fd, config, sizeImage, pool, leaseVars, devFormat>>

StreamOffFail ==
    /\ pc = "streamOff" /\ fd /\ streaming
    /\ Unwind
    /\ UNCHANGED <<sinkVars, leaseVars, deviceVars>>

\* reclaimAllQueued, and for yield releaseMappedBuffers.  A Dequeued slot
\* makes it throw half way.
Reclaim ==
    /\ pc = "reclaim"
    /\ heap' = IF pool = NoPool THEN heap
               ELSE [heap EXCEPT ![pool] = ReclaimAllQueued(@)]
    /\ IF pool # NoPool /\ HasDequeued(heap[pool])
       THEN Unwind /\ UNCHANGED <<pool, mapped>>
       ELSE IF op = "recycle"
            THEN Goto("streamOn") /\ UNCHANGED <<pool, mapped>>
            ELSE /\ Goto("reqbufs0")
                 /\ pool' = NoPool
                 /\ mapped' = Referenced(mapped, NoPool, lease)
    /\ UNCHANGED <<alive, fd, streaming, config, sizeImage, lease, deviceVars>>

\* REQBUFS(0), in start, yield or the destructor; skipped with no descriptor.
ReqbufsZero ==
    /\ pc = "reqbufs0"
    /\ \/ op = "start" /\ Goto("reqbufs") /\ UNCHANGED sizeImage
       \/ op = "yield" /\ Return /\ sizeImage' = 0
       \/ op = "destroy" /\ Goto("close") /\ sizeImage' = 0
    /\ UNCHANGED <<alive, fd, streaming, config, pool, leaseVars, deviceVars>>

ReqbufsZeroFail ==
    /\ pc = "reqbufs0" /\ fd
    /\ IF op = "start" THEN Goto("unwind") ELSE Unwind
    /\ UNCHANGED <<sinkVars, leaseVars, deviceVars>>

\* closeDevice: the driver forgets the buffers with the descriptor; leases
\* keep the pool.
CloseDevice ==
    /\ pc = "close"
    /\ alive' = FALSE /\ fd' = FALSE /\ streaming' = FALSE
    /\ sizeImage' = 0
    /\ pool' = NoPool
    /\ mapped' = Referenced(mapped, NoPool, lease)
    /\ devQueued' = {} /\ devDone' = {}
    /\ Return
    /\ UNCHANGED <<config, heap, lease, devFormat>>

-----------------------------------------------------------------------------
\* The consumer has read a buffer, in any order.
DeviceComplete(i) ==
    /\ i \in devQueued
    /\ devQueued' = devQueued \ {i}
    /\ devDone' = devDone \cup {i}
    /\ UNCHANGED <<sinkVars, leaseVars, pc, op, devFormat>>

Start ==
    \/ StartBegin
    \/ \E f \in Formats, s \in Sizes : SetFormat(f, s)
    \/ SetFormatFail
    \/ \E n \in 2 .. MaxBuffers, len \in Sizes, p \in Pools : RequestAndMap(n, len, p)
    \/ RequestFail
    \/ \E n \in 2 .. MaxBuffers : MapFail(n)
    \/ UnwindStart

Stream(l) ==
    \/ AcquireListed(l)
    \/ \E i \in 0 .. MaxBuffers : Dequeue(l, i)
    \/ PushRefused(l) \/ PushBegin(l) \/ Queue(l) \/ QueueFail(l) \/ PushReturn(l)

Reset ==
    \/ RecycleBegin \/ YieldBegin \/ DestroyBegin
    \/ StreamOff \/ StreamOffFail \/ Reclaim
    \/ ReqbufsZero \/ ReqbufsZeroFail \/ StreamOn \/ StreamOnFail
    \/ CloseDevice

Owner ==
    \/ Construct \/ OpenDevice
    \/ \E f \in Formats, d \in 2 .. MaxBuffers : Configure(f, d)
    \/ Start \/ Reset
    \/ AcquireDequeue \/ DequeueFail
    \/ \E l \in Leases : Stream(l)

Release == \E l \in Leases : ReleaseSlot(l) \/ DropPool(l)

Device == \E i \in Index : DeviceComplete(i)

Next == Owner \/ Release \/ Device

Spec == Init /\ [][Next]_vars

-----------------------------------------------------------------------------
(***************************************************************************)
(* Safety.                                                                 *)
(***************************************************************************)
Using(l) == lease[l].phase = "held" \/ (lease[l].phase = "pushing" /\ pc = "qbuf")

\* Every live pool lists exactly its Free slots, each once, so acquireFrame
\* never meets the "corrupt free-buffer queue" of BufferPool::acquireFree.
FreeListOK == \A p \in mapped : FreeListExact(heap[p])

\* A frame the application holds has a Dequeued slot, and no other frame has
\* the same slot: no two writers ever share a buffer, whichever thread
\* returns frames and whatever DQBUF answers.
LeaseOwnsSlot ==
    \A l \in Leases : lease[l].phase = "held" =>
        /\ lease[l].index \in Slots(heap[lease[l].pool])
        /\ heap[lease[l].pool].slots[lease[l].index] = "Dequeued"
        /\ \A m \in Leases \ {l} :
              Using(m) => <<lease[m].pool, lease[m].index>>
                             # <<lease[l].pool, lease[l].index>>

\* A Dequeued slot is in the hands of some lease: no path of acquireFrame,
\* pushFrame or a lease's destructor leaks a slot out of circulation.
DequeuedHasLease ==
    \A p \in mapped : \A i \in Slots(heap[p]) :
        heap[p].slots[i] = "Dequeued" =>
            \E l \in Leases : /\ lease[l].phase = "held"
                              /\ lease[l].pool = p /\ lease[l].index = i

\* The application never holds a frame over a buffer that the driver holds
\* (Frame.h: a transport buffer cannot be queued while aliases still permit
\* writes to device-owned memory); a driver that honours DQBUF is assumed.
NoWriteToDeviceBuffer ==
    \A l \in Leases :
        Using(l) /\ lease[l].pool = pool =>
            lease[l].index \notin devQueued \cup devDone

\* While streaming, the slots the sink believes Queued are exactly the
\* buffers the driver holds, so each comes back through DQBUF: none is lost.
QueuedIsWithDevice ==
    streaming /\ pc # "qbuf" =>
        {i \in Slots(heap[pool]) : heap[pool].slots[i] = "Queued"}
            = devQueued \cup devDone

\* The buffers of a pool stay mapped while pool_ or a lease refers to it, also
\* across stop and the destruction of the sink, and no longer than that.
MappedWhileReferenced ==
    mapped = {p \in Pools : p = pool \/ \E l \in Leases : lease[l].pool = p}

\* reclaimAllQueued runs some ioctls after requireNoOutstandingFrames: what
\* other threads do in between never makes it meet a Dequeued slot.
ReclaimFindsNoLease ==
    pc = "reclaim" /\ pool # NoPool => ~HasDequeued(heap[pool])

\* The payload pushFrame queues is never empty nor larger than the buffer:
\* outside start, which renegotiates, the size is known and fits the pool that
\* is kept, whatever failed starts, yields and recycles came before.
PayloadFits ==
    pool # NoPool /\ op # "start" => 0 < sizeImage /\ sizeImage <= heap[pool].length

\* A queue that is stopped with its pool kept (STREAMON failed in
\* recycleBuffers) has every slot Free and nothing in the driver.
StoppedQueueIsFree ==
    pc = "idle" /\ ~streaming =>
        /\ devQueued = {} /\ devDone = {}
        /\ pool # NoPool =>
              \A i \in Slots(heap[pool]) : heap[pool].slots[i] = "Free"

\* What was negotiated does not change under a running stream: neither the
\* configuration frames are checked against, nor the payload, nor the pool.
NegotiationStable ==
    [][streaming /\ streaming' => UNCHANGED <<config, sizeImage, pool>>]_vars

\* "frame format does not match negotiated sink format" (pushFrame): the
\* format frames are made with and checked against is the negotiated one.
ConfigIsNegotiated == streaming => config.format = devFormat

(***************************************************************************)
(* The sink implements the contract of IFrameSink.  A buffer passes to the *)
(* transport at QBUF, not when pushFrame marks its slot.                   *)
(***************************************************************************)
InUse(p, i) ==
    \E l \in Leases : Using(l) /\ lease[l].pool = p /\ lease[l].index = i

OwnerOf(p, i) ==
    IF InUse(p, i) THEN "client"
    ELSE IF p = pool /\ i \in Slots(heap[p])
         THEN IF heap[p].slots[i] = "Queued" THEN "transport" ELSE "pool"
    ELSE "none"

BufferOwner == [b \in Pools \X Index |-> OwnerOf(b[1], b[2])]

Contract == INSTANCE FrameSink WITH current <- pool, owner <- BufferOwner

FrameSinkContract == Contract!Spec

-----------------------------------------------------------------------------
(***************************************************************************)
(* The inductive invariant behind the safety properties.                   *)
(***************************************************************************)

\* Which operation each step of the owner thread belongs to, and what it
\* already knows about the descriptor, the stream and the pool.
Control ==
    /\ pc \in {"idle", "dqbuf", "qbuf", "pushReturn"} <=> op = "none"
    /\ pc \in {"setFormat", "reqbufs", "unwind"} => op = "start"
    /\ pc = "close" => op = "destroy"
    /\ pc \in {"streamOff", "reclaim"} => op \in {"recycle", "yield", "destroy"}
    /\ pc = "reqbufs0" => op \in {"start", "yield", "destroy"}
    /\ pc = "streamOn" => op \in {"start", "recycle"} /\ pool # NoPool
    /\ ~alive => pc = "idle" /\ pool = NoPool /\ ~fd /\ sizeImage = 0
    /\ streaming => pool # NoPool /\ fd /\ alive
    /\ pc \in {"dqbuf", "qbuf", "pushReturn"} => streaming
    /\ pc \in {"setFormat", "reqbufs0", "reqbufs", "streamOn", "unwind", "reclaim"}
          => ~streaming
    /\ op = "recycle" => pool # NoPool
    /\ op \in {"start", "recycle"} => fd
    /\ pc = "reqbufs0" /\ op # "start" => pool = NoPool

\* The lease pushFrame is consuming is the only one, and its slot is Queued
\* until QBUF has answered.
PushingLease ==
    /\ pc \in {"qbuf", "pushReturn"} => \E l \in Leases : lease[l].phase = "pushing"
    /\ \A l \in Leases : lease[l].phase = "pushing" =>
          /\ pc \in {"qbuf", "pushReturn"}
          /\ lease[l].pool = pool
          /\ lease[l].index \in Slots(heap[pool])
          /\ heap[pool].slots[lease[l].index] # "Dequeued"
          /\ pc = "qbuf" => heap[pool].slots[lease[l].index] = "Queued"
          /\ \A m \in Leases : lease[m].phase = "pushing" => m = l

LeaseShape ==
    \A l \in Leases : IF lease[l].phase = "none" THEN lease[l] = NoLease
                                                 ELSE lease[l].pool \in Pools

\* A held lease has a Dequeued slot to itself, and a Dequeued slot a lease.
LeaseSlots ==
    /\ \A l \in Leases : lease[l].phase = "held" =>
          /\ lease[l].index \in Slots(heap[lease[l].pool])
          /\ heap[lease[l].pool].slots[lease[l].index] = "Dequeued"
    /\ \A l, m \in Leases :
          /\ lease[l].phase = "held" /\ lease[m].phase = "held"
          /\ lease[l].pool = lease[m].pool /\ lease[l].index = lease[m].index
          => l = m
    /\ DequeuedHasLease

\* No lease is outstanding from requireNoOutstandingFrames to reclaimAllQueued,
\* and from then until STREAMON every slot is Free.
Quiescent ==
    /\ pc \in {"streamOff", "reclaim"} /\ pool # NoPool => ~HasDequeued(heap[pool])
    /\ ~streaming /\ pool # NoPool /\ pc # "reclaim" =>
          \A i \in Slots(heap[pool]) : heap[pool].slots[i] = "Free"

\* The negotiated size is known from S_FMT on, and fits the pool from mmap on.
PayloadKnown ==
    /\ pc = "reqbufs" \/ (pc = "reqbufs0" /\ op = "start") => sizeImage > 0
    /\ pool # NoPool /\ (op # "start" \/ pc = "streamOn") =>
          0 < sizeImage /\ sizeImage <= heap[pool].length

\* With an honest driver the sink and the driver agree on who has a buffer,
\* but for the one that is on its way in QBUF.
DeviceAgrees ==
    /\ ~streaming => devQueued = {} /\ devDone = {}
    /\ HonestDevice /\ streaming =>
          /\ devQueued \cap devDone = {}
          /\ \A i \in Index :
                i \in devQueued \cup devDone <=>
                    /\ i \in Slots(heap[pool])
                    /\ heap[pool].slots[i] = "Queued"
                    /\ ~(pc = "qbuf" /\ \E l \in Leases : /\ lease[l].phase = "pushing"
                                                          /\ lease[l].index = i)

IInv ==
    /\ TypeOK /\ Control /\ LeaseShape
    /\ FreeListOK /\ MappedWhileReferenced
    /\ PushingLease /\ LeaseSlots /\ Quiescent /\ PayloadKnown /\ DeviceAgrees
=============================================================================
