-------------------------- MODULE CaptureClientProofs --------------------------
(***************************************************************************)
(* The safety properties of CaptureClient, for a queue of any size and any *)
(* number of frames.                                                       *)
(***************************************************************************)
EXTENDS CaptureClient, SequenceTheorems, TLAPS

\* Between the join and the next open there is no worker, and from the moment
\* the queue was emptied it stays empty.
NoWorkerBetween ==
    /\ gui \in {"release", "discard", "arm", "open", "exited"} => worker = "none"
    /\ gui \in {"arm", "open"} => frames = <<>>

\* What the worker is about to push is of the camera that is open.
FreshInHand ==
    /\ since <= frame
    /\ worker = "deliver" => frame > 0
    /\ gui = "running" /\ worker = "deliver" => frame > since

\* The screen, the queue and the frame in the worker's hand follow each other.
InOrder ==
    /\ shown <= frame
    /\ \A k \in 1 .. Len(frames) : shown < frames[k] /\ frames[k] <= frame
    /\ \A j, k \in 1 .. Len(frames) : j < k => frames[j] < frames[k]
    /\ worker = "deliver" =>
           /\ shown < frame
           /\ \A k \in 1 .. Len(frames) : frames[k] < frame

CInv ==
    /\ TypeOK /\ NoReadAfterRelease /\ NoWorkerBetween
    /\ NoFrameOfOldCamera /\ FreshInHand /\ InOrder

\* FrameQueue::push appends the frame to what is left of the queue, which is
\* all of it or all but its oldest frame, and keeps it within its size.
LEMMA PushedKeepsQueue ==
    ASSUME NEW S, NEW q \in Seq(S), NEW f \in S, Len(q) <= MaxSize
    PROVE  /\ Pushed(q, f) \in Seq(S)
           /\ Len(Pushed(q, f)) <= MaxSize
           /\ \E d \in {0, 1} :
                  /\ Len(Pushed(q, f)) = Len(q) - d + 1
                  /\ Pushed(q, f)[Len(q) - d + 1] = f
                  /\ \A k \in 1 .. (Len(q) - d) :
                         Pushed(q, f)[k] = q[k + d] /\ k + d \in 1 .. Len(q)
<1>1. CASE Len(q) >= MaxSize
  <2>1. Pushed(q, f) = Append(Tail(q), f)
    BY <1>1 DEF Pushed
  <2>2. q # <<>> /\ Len(q) = MaxSize
    BY <1>1, MaxSizeAssumption
  <2>3. Tail(q) \in Seq(S) /\ Len(Tail(q)) = Len(q) - 1
    BY <2>2
  <2>4. \A k \in 1 .. (Len(q) - 1) : Tail(q)[k] = q[k + 1] /\ k + 1 \in 1 .. Len(q)
    BY <2>2, <2>3
  <2>5. /\ Append(Tail(q), f) \in Seq(S)
        /\ Len(Append(Tail(q), f)) = Len(q) - 1 + 1
        /\ Append(Tail(q), f)[Len(q) - 1 + 1] = f
        /\ \A k \in 1 .. (Len(q) - 1) : Append(Tail(q), f)[k] = Tail(q)[k]
    BY <2>3
  <2> QED
    BY <2>1, <2>2, <2>4, <2>5, MaxSizeAssumption
<1>2. CASE ~ (Len(q) >= MaxSize)
  <2>1. Pushed(q, f) = Append(q, f)
    BY <1>2 DEF Pushed
  <2>2. /\ Append(q, f) \in Seq(S)
        /\ Len(Append(q, f)) = Len(q) - 0 + 1
        /\ Append(q, f)[Len(q) - 0 + 1] = f
        /\ \A k \in 1 .. (Len(q) - 0) :
               Append(q, f)[k] = q[k + 0] /\ k + 0 \in 1 .. Len(q)
    OBVIOUS
  <2> QED
    BY <1>2, <2>1, <2>2, MaxSizeAssumption
<1> QED
  BY <1>1, <1>2

LEMMA InitCInv == Init => CInv
<1> SUFFICES ASSUME Init PROVE CInv
  OBVIOUS
<1>1. frames = <<>> /\ frames \in Seq(1 .. MaxFrames) /\ Len(frames) = 0
  BY EmptySeq DEF Init
<1>2. DOMAIN frames = {}
  BY <1>1
<1>a. frame \in 0 .. MaxFrames /\ shown \in 0 .. MaxFrames /\ since \in 0 .. MaxFrames
  BY MaxFramesAssumption DEF Init
<1>b. gui \in GuiStep /\ worker \in WorkerStep /\ stop \in BOOLEAN /\ opened \in BOOLEAN
  BY DEF Init, GuiStep, WorkerStep
<1>c. Len(frames) <= MaxSize
  BY <1>1, MaxSizeAssumption
<1>3. TypeOK
  BY <1>1, <1>a, <1>b, <1>c DEF TypeOK
<1>4. NoReadAfterRelease /\ NoWorkerBetween /\ NoFrameOfOldCamera
  BY <1>1, <1>2 DEF Init, NoReadAfterRelease, NoWorkerBetween, NoFrameOfOldCamera
<1>5. FreshInHand /\ InOrder
  BY <1>1 DEF Init, FreshInHand, InOrder
<1> QED
  BY <1>3, <1>4, <1>5 DEF CInv

\* A push is where the order and the camera of the frames are at stake.
LEMMA WorkerKeepsCInv ==
    ASSUME CInv, Worker
    PROVE  CInv'
<1> USE DEF TypeOK, NoReadAfterRelease, NoWorkerBetween, FreshInHand, InOrder,
            GuiStep, WorkerStep
<1>1. CASE Read
  <2>1. /\ worker = "look" /\ ~stop
        /\ gui' = gui /\ stop' = stop /\ opened' = opened /\ shown' = shown
        /\ since' = since /\ frames' = frames
        /\ \/ frame < MaxFrames /\ frame' = frame + 1 /\ worker' = "deliver"
           \/ frame' = frame /\ worker' \in {"empty", "ended"}
    BY <1>1 DEF Read, WorkerGoes, StopRequested
  <2>2. gui \notin {"release", "discard", "arm", "open", "exited"}
    BY <2>1 DEF CInv
  <2>3. frame' \in 0 .. MaxFrames /\ frame <= frame'
    BY <2>1, MaxFramesAssumption DEF CInv
  <2>4. TypeOK' /\ NoReadAfterRelease' /\ NoWorkerBetween'
    BY <2>1, <2>2, <2>3 DEF CInv
  <2>5. NoFrameOfOldCamera'
    BY <2>1 DEF CInv, NoFrameOfOldCamera
  <2>6. FreshInHand'
    BY <2>1, <2>3, MaxFramesAssumption DEF CInv
  <2>7. Len(frames) \in Nat /\ \A k \in 1 .. Len(frames) : frames[k] \in 1 .. MaxFrames
    BY LenProperties, ElementOfSeq DEF CInv
  <2>8. InOrder'
    <3> HIDE DEF TypeOK, FreshInHand
    <3>1. InOrder /\ frame \in Nat /\ shown \in Nat
      BY DEF CInv, TypeOK
    <3> QED
      BY <2>1, <2>3, <2>7, <3>1, MaxFramesAssumption
  <2> QED
    BY <2>4, <2>5, <2>6, <2>8 DEF CInv
<1>2. CASE Deliver
  <2>1. /\ worker = "deliver" /\ frame' = frame /\ worker' \in {"look", "ended"}
        /\ gui' = gui /\ stop' = stop /\ opened' = opened /\ shown' = shown
        /\ since' = since
        /\ frames' = Pushed(frames, frame) \/ frames' = frames
    BY <1>2 DEF Deliver, WorkerGoes
  <2>2. CASE frames' = frames
    BY <2>1, <2>2 DEF CInv, NoFrameOfOldCamera
  <2>3. CASE frames' = Pushed(frames, frame)
    <3>1. frame \in 1 .. MaxFrames /\ frames \in Seq(1 .. MaxFrames) /\ Len(frames) <= MaxSize
      BY <2>1, MaxFramesAssumption DEF CInv
    <3>2. /\ frames' \in Seq(1 .. MaxFrames)
          /\ Len(frames') <= MaxSize
      BY <2>3, <3>1, PushedKeepsQueue
    <3> DEFINE After(q, d) ==
              /\ Len(q) = Len(frames) - d + 1
              /\ q[Len(frames) - d + 1] = frame
              /\ \A k \in 1 .. (Len(frames) - d) :
                     q[k] = frames[k + d] /\ k + d \in 1 .. Len(frames)
    <3>a. \E d \in {0, 1} : After(Pushed(frames, frame), d)
      BY <3>1, PushedKeepsQueue
    <3>b. \E d \in {0, 1} : After(frames', d)
      <4> HIDE DEF After
      <4> QED
        BY <2>3, <3>a
    <3>3. PICK d \in {0, 1} :
              /\ Len(frames') = Len(frames) - d + 1
              /\ frames'[Len(frames) - d + 1] = frame
              /\ \A k \in 1 .. (Len(frames) - d) :
                     frames'[k] = frames[k + d] /\ k + d \in 1 .. Len(frames)
      BY <3>b
    <3>4. Len(frames) \in Nat /\ Len(frames') \in Nat
          /\ \A k \in 1 .. Len(frames) : frames[k] \in 1 .. MaxFrames
      BY <3>1, <3>2, LenProperties, ElementOfSeq
    <3>5. \A k \in 1 .. Len(frames') :
              frames'[k] = frame
                  \/ (k \in 1 .. (Len(frames) - d) /\ frames'[k] = frames[k + d])
      <4>1. ASSUME NEW k \in 1 .. Len(frames')
            PROVE  k = Len(frames) - d + 1 \/ k \in 1 .. (Len(frames) - d)
        BY <3>3, <3>4
      <4>2. ASSUME NEW k \in 1 .. Len(frames')
            PROVE  frames'[k] = frame
                       \/ (k \in 1 .. (Len(frames) - d) /\ frames'[k] = frames[k + d])
        <5>1. CASE k = Len(frames) - d + 1
          BY <3>3, <5>1
        <5>2. CASE k \in 1 .. (Len(frames) - d)
          BY <3>3, <5>2
        <5> QED
          BY <4>1, <5>1, <5>2
      <4> QED
        BY <4>2
    <3>6. TypeOK' /\ NoReadAfterRelease'
      BY <2>1, <3>2 DEF CInv
    <3>7. NoWorkerBetween' /\ FreshInHand'
      BY <2>1 DEF CInv
    <3>8. NoFrameOfOldCamera'
      <4>1. SUFFICES ASSUME gui = "running", NEW k \in 1 .. Len(frames')
                     PROVE  frames'[k] > since
        BY <2>1, <3>2 DEF NoFrameOfOldCamera
      <4>2. \A l \in 1 .. Len(frames) : frames[l] > since
        BY <4>1, <3>1 DEF CInv, NoFrameOfOldCamera
      <4>3. frame > since
        BY <4>1, <2>1 DEF CInv
      <4> QED
        BY <3>3, <3>5, <4>2, <4>3
    <3>9. InOrder'
      <4>1. \A k \in 1 .. Len(frames) : shown < frames[k] /\ frames[k] < frame
        BY <2>1 DEF CInv
      <4>2. \A j, k \in 1 .. Len(frames) : j < k => frames[j] < frames[k]
        BY DEF CInv
      <4>3. shown < frame
        BY <2>1 DEF CInv
      <4>4. shown' <= frame' /\ worker' # "deliver"
        BY <2>1 DEF CInv
      <4>5. \A k \in 1 .. Len(frames') : shown' < frames'[k] /\ frames'[k] <= frame'
        <5>1. ASSUME NEW k \in 1 .. Len(frames')
              PROVE  shown' < frames'[k] /\ frames'[k] <= frame'
          <6>1. CASE frames'[k] = frame
            BY <2>1, <3>1, <4>3, <6>1
          <6>2. CASE k \in 1 .. (Len(frames) - d) /\ frames'[k] = frames[k + d]
            <7>1. k + d \in 1 .. Len(frames)
              BY <3>3, <6>2
            <7>2. shown < frames[k + d] /\ frames[k + d] < frame
              BY <4>1, <7>1
            <7> QED
              BY <2>1, <3>1, <3>4, <6>2, <7>1, <7>2
          <6> QED
            BY <3>5, <6>1, <6>2
        <5> QED
          BY <5>1
      <4>6. ASSUME NEW j \in 1 .. Len(frames'), NEW k \in 1 .. Len(frames'), j < k
            PROVE  frames'[j] < frames'[k]
        <5>1. j \in 1 .. (Len(frames) - d) /\ frames'[j] = frames[j + d]
              /\ j + d \in 1 .. Len(frames)
          BY <3>3, <3>4, <4>6
        <5>2. CASE k \in 1 .. (Len(frames) - d)
          BY <3>3, <3>4, <4>2, <4>6, <5>1, <5>2
        <5>3. CASE k = Len(frames) - d + 1
          BY <3>3, <4>1, <5>1, <5>3
        <5> QED
          BY <3>3, <3>4, <5>2, <5>3
      <4> QED
        BY <4>4, <4>5, <4>6
    <3> QED
      BY <3>6, <3>7, <3>8, <3>9 DEF CInv
  <2>4. frames' = Pushed(frames, frame) \/ frames' = frames
    BY <2>1
  <2> QED
    BY <2>2, <2>3, <2>4
<1>3. CASE Retry
  BY <1>3 DEF CInv, Retry, WorkerGoes, StopRequested, NoFrameOfOldCamera
<1>4. CASE Stopped
  BY <1>4 DEF CInv, Stopped, WorkerGoes, StopRequested, NoFrameOfOldCamera
<1> QED
  BY <1>1, <1>2, <1>3, <1>4 DEF Worker

\* Opening the next camera finds neither a worker nor a frame of the last one,
\* and showing a frame takes the oldest.
LEMMA GuiKeepsCInv ==
    ASSUME CInv, Gui \/ User
    PROVE  CInv'
<1> USE DEF TypeOK, NoReadAfterRelease, NoWorkerBetween, FreshInHand, InOrder,
            GuiStep, WorkerStep
<1>1. CASE Open
  <2>1. gui = "open" /\ worker = "none" /\ frames = <<>> /\ frames' = frames
    BY <1>1 DEF CInv, Open
  <2>2. DOMAIN frames' = {} /\ Len(frames') = 0
    BY <2>1
  <2>3. TypeOK' /\ NoReadAfterRelease' /\ NoWorkerBetween'
    BY <1>1, <2>1 DEF CInv, Open, GuiGoes, WorkerAfterOpen
  <2>4. NoFrameOfOldCamera'
    BY <2>2 DEF NoFrameOfOldCamera
  <2>5. FreshInHand' /\ InOrder'
    BY <1>1, <2>1, <2>2 DEF CInv, Open, GuiGoes, WorkerAfterOpen
  <2> QED
    BY <2>3, <2>4, <2>5 DEF CInv
<1>2. CASE Tick
  <2>1. /\ gui = "running" /\ frames # <<>> /\ gui' \in {"running", "exiting"}
        /\ shown' = frames[1] /\ frames' = Tail(frames) /\ frame' = frame
        /\ worker' = worker /\ stop' = stop /\ opened' = opened /\ since' = since
    BY <1>2 DEF Tick, GuiGoes
  <2>2. frames \in Seq(1 .. MaxFrames) /\ Len(frames) <= MaxSize
    BY DEF CInv
  <2>3. /\ Tail(frames) \in Seq(1 .. MaxFrames)
        /\ Len(Tail(frames)) = Len(frames) - 1
        /\ Len(frames) \in Nat \ {0}
        /\ \A k \in 1 .. Len(Tail(frames)) : Tail(frames)[k] = frames[k + 1]
    BY <2>1, <2>2, EmptySeq, HeadTailProperties
  <2>a. \A k \in 1 .. Len(frames) : frames[k] \in 1 .. MaxFrames
    BY <2>2, ElementOfSeq
  <2>4. \A k \in 1 .. Len(frames') :
            frames'[k] = frames[k + 1] /\ k + 1 \in 1 .. Len(frames)
    BY <2>1, <2>2, <2>3
  <2>5. TypeOK'
    BY <2>1, <2>2, <2>3, <2>a, MaxSizeAssumption DEF CInv
  <2>6. NoReadAfterRelease' /\ NoWorkerBetween' /\ FreshInHand'
    BY <2>1 DEF CInv
  <2>7. NoFrameOfOldCamera'
    <3>1. \A k \in 1 .. Len(frames) : frames[k] > since
      BY <2>1, <2>2 DEF CInv, NoFrameOfOldCamera
    <3>2. DOMAIN frames' = 1 .. Len(frames')
      BY <2>1, <2>3
    <3> QED
      BY <2>1, <2>4, <3>1, <3>2 DEF NoFrameOfOldCamera
  <2>8. InOrder'
    <3>1. /\ \A k \in 1 .. Len(frames) : frames[k] <= frame
          /\ \A j, k \in 1 .. Len(frames) : j < k => frames[j] < frames[k]
          /\ worker = "deliver" => \A k \in 1 .. Len(frames) : frames[k] < frame
      BY DEF CInv
    <3>2. 1 \in 1 .. Len(frames)
      BY <2>3
    <3>3. shown' <= frame' /\ (worker' = "deliver" => shown' < frame')
      BY <2>1, <3>1, <3>2
    <3>4. \A k \in 1 .. Len(frames') : shown' < frames'[k] /\ frames'[k] <= frame'
      <4>1. ASSUME NEW k \in 1 .. Len(frames')
            PROVE  shown' < frames'[k] /\ frames'[k] <= frame'
        <5>1. k + 1 \in 1 .. Len(frames) /\ 1 < k + 1 /\ frames'[k] = frames[k + 1]
          BY <2>1, <2>3, <2>4
        <5> QED
          BY <2>1, <3>1, <3>2, <5>1
      <4> QED
        BY <4>1
    <3>5. \A j, k \in 1 .. Len(frames') : j < k => frames'[j] < frames'[k]
      <4>1. ASSUME NEW j \in 1 .. Len(frames'), NEW k \in 1 .. Len(frames'), j < k
            PROVE  frames'[j] < frames'[k]
        <5>1. j + 1 \in 1 .. Len(frames) /\ k + 1 \in 1 .. Len(frames) /\ j + 1 < k + 1
          BY <2>1, <2>3, <2>4, <4>1
        <5> QED
          BY <2>4, <3>1, <5>1
      <4> QED
        BY <4>1
    <3>6. worker' = "deliver" => \A k \in 1 .. Len(frames') : frames'[k] < frame'
      BY <2>1, <2>4, <3>1
    <3> QED
      BY <3>3, <3>4, <3>5, <3>6
  <2> QED
    BY <2>5, <2>6, <2>7, <2>8 DEF CInv
<1>3. CASE Apply
  BY <1>3 DEF CInv, Apply, GuiGoes, NoFrameOfOldCamera
<1>4. CASE Quit
  BY <1>4 DEF CInv, Quit, GuiGoes, NoFrameOfOldCamera
<1>5. CASE Join
  BY <1>5 DEF CInv, Join, GuiGoes, Joined, WorkerAfterJoin, NoFrameOfOldCamera
<1>6. CASE Release
  BY <1>6 DEF CInv, Release, GuiGoes, NoFrameOfOldCamera
<1>7. CASE Discard
  BY <1>7, MaxSizeAssumption DEF CInv, Discard, GuiGoes, Discarded, NoFrameOfOldCamera
<1>8. CASE Arm
  BY <1>8 DEF CInv, Arm, GuiGoes, NoFrameOfOldCamera
<1>9. CASE StopToExit
  BY <1>9 DEF CInv, StopToExit, GuiGoes, NoFrameOfOldCamera
<1>10. CASE Exit
  BY <1>10 DEF CInv, Exit, GuiGoes, Joined, NoFrameOfOldCamera
<1> QED
  BY <1>1, <1>2, <1>3, <1>4, <1>5, <1>6, <1>7, <1>8, <1>9, <1>10 DEF Gui, User

LEMMA StutterKeepsCInv ==
    ASSUME CInv, UNCHANGED vars
    PROVE  CInv'
BY DEF CInv, vars, TypeOK, NoReadAfterRelease, NoWorkerBetween,
       NoFrameOfOldCamera, FreshInHand, InOrder

\* The two threads agree on the worker, the device and the queue, and frames
\* stay in the order they were read.
THEOREM ClientInvariant == Spec => []CInv
<1>1. CInv /\ [Next]_vars => CInv'
  BY WorkerKeepsCInv, GuiKeepsCInv, StutterKeepsCInv DEF Next
<1> QED
  BY <1>1, InitCInv, PTL DEF Spec

\* Every variable of the client keeps its type, and the queue its size.
THEOREM ClientTypeCorrect == Spec => []TypeOK
<1>1. CInv => TypeOK
  BY DEF CInv
<1> QED
  BY <1>1, ClientInvariant, PTL

\* The VideoCapture is never released under a worker that reads from it.
THEOREM NoReadAfterReleaseCorrect == Spec => []NoReadAfterRelease
<1>1. CInv => NoReadAfterRelease
  BY DEF CInv
<1> QED
  BY <1>1, ClientInvariant, PTL

\* Apply leaves no frame of the old resolution to show.
THEOREM NoFrameOfOldCameraCorrect == Spec => []NoFrameOfOldCamera
<1>1. CInv => NoFrameOfOldCamera
  BY DEF CInv
<1> QED
  BY <1>1, ClientInvariant, PTL

\* Frames are shown in the order they were read and none twice.
THEOREM ShownInOrderCorrect == Spec => ShownInOrder
<1>1. CInv /\ [Next]_vars => [shown' # shown => shown' > shown]_vars
  <2>1. SUFFICES ASSUME CInv, Next, shown' # shown
                 PROVE  shown' > shown
    BY DEF vars
  <2>2. CASE Tick
    <3>1. frames # <<>> /\ shown' = frames[1] /\ frames \in Seq(1 .. MaxFrames)
      BY <2>1, <2>2 DEF Tick, CInv, TypeOK
    <3>2. 1 \in 1 .. Len(frames)
      BY <3>1, EmptySeq
    <3>3. frames[1] \in 1 .. MaxFrames /\ shown \in Nat
      <4>1. frames[1] \in 1 .. MaxFrames
        BY <3>1, <3>2, ElementOfSeq
      <4>2. shown \in 0 .. MaxFrames
        BY <2>1 DEF CInv, TypeOK
      <4> QED
        BY <4>1, <4>2, MaxFramesAssumption
    <3> QED
      BY <2>1, <3>1, <3>2, <3>3, MaxFramesAssumption DEF CInv, InOrder
  <2>3. CASE ~Tick
    BY <2>1, <2>3
       DEF Next, Worker, Read, Deliver, Retry, Stopped, WorkerGoes, Gui, Open,
           Join, Release, Discard, Arm, StopToExit, Exit, User, Apply, Quit
  <2> QED
    BY <2>2, <2>3
<1> QED
  BY <1>1, ClientInvariant, PTL DEF Spec, ShownInOrder
=============================================================================
