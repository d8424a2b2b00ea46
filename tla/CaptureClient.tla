----------------------------- MODULE CaptureClient -----------------------------
(***************************************************************************)
(* The capture side of the face-detect client: the Camera worker thread,   *)
(* the FrameQueue it fills through FrameCapture, and the GUI thread, which *)
(* shows frames on a timer and on Apply closes the camera, arms the device *)
(* and opens it again.                                                     *)
(*                                                                         *)
(* A frame is the number of the read that produced it.  A step of either   *)
(* thread ends where the other can tell: a read of the device, a critical  *)
(* section of the queue, a look at the stop token, a join.                 *)
(***************************************************************************)
EXTENDS Naturals, Sequences

CONSTANTS
    MaxSize,        \* FrameQueue::kMaxSize
    MaxFrames       \* bound: frames the device delivers

ASSUME MaxSizeAssumption == MaxSize \in Nat \ {0}
ASSUME MaxFramesAssumption == MaxFrames \in Nat

VARIABLES
    gui,            \* the step of the GUI thread
    worker,         \* the step of the capture thread
    stop,           \* the worker's stop token
    opened,         \* the VideoCapture is open
    frame,          \* the frame the worker has read last
    frames,         \* frames_, the queue
    shown,          \* the frame on the screen
    since           \* the last frame read before this camera was opened

vars == <<gui, worker, stop, opened, frame, frames, shown, since>>

GuiStep == {"open", "running", "join", "release", "discard", "arm", "exiting",
            "exited"}

\* "none" before a thread is made and after it is joined.
WorkerStep == {"none", "look", "empty", "deliver", "ended"}

TypeOK ==
    /\ gui \in GuiStep /\ worker \in WorkerStep
    /\ stop \in BOOLEAN /\ opened \in BOOLEAN
    /\ frame \in 0 .. MaxFrames /\ shown \in 0 .. MaxFrames /\ since \in 0 .. MaxFrames
    /\ frames \in Seq(1 .. MaxFrames) /\ Len(frames) <= MaxSize

Init ==
    /\ gui = "open" /\ worker = "none"
    /\ stop = FALSE /\ opened = FALSE
    /\ frame = 0 /\ frames = <<>> /\ shown = 0 /\ since = 0

-----------------------------------------------------------------------------
(***************************************************************************)
(* FrameQueue.                                                             *)
(***************************************************************************)

\* Faulty variant: pushes where frames are popped.
PushedInFront(q, f) == <<f>> \o (IF Len(q) >= MaxSize THEN Tail(q) ELSE q)

\* Faulty variant: never makes room.
PushedUnbounded(q, f) == Append(q, f)

\* push: a full queue gives up its oldest frame.
Pushed(q, f) == Append(IF Len(q) >= MaxSize THEN Tail(q) ELSE q, f)

-----------------------------------------------------------------------------
(***************************************************************************)
(* The worker, Camera::captureLoop.                                        *)
(***************************************************************************)
WorkerGoes(step) ==
    /\ worker' = step
    /\ UNCHANGED <<gui, stop, opened, shown, since>>

StopRequested == stop

\* The next frame, an empty one, or an exception of OpenCV.
Read ==
    /\ worker = "look" /\ ~StopRequested
    /\ \/ frame < MaxFrames /\ frame' = frame + 1 /\ WorkerGoes("deliver")
       \/ UNCHANGED frame /\ (WorkerGoes("empty") \/ WorkerGoes("ended"))
    /\ UNCHANGED frames

\* onFrameCapture copies the frame and pushes the copy, or throws.
Deliver ==
    /\ worker = "deliver"
    /\ \/ frames' = Pushed(frames, frame) /\ WorkerGoes("look")
       \/ UNCHANGED frames /\ WorkerGoes("ended")
    /\ UNCHANGED frame

Retry ==
    /\ worker = "empty"
    /\ WorkerGoes(IF StopRequested THEN "ended" ELSE "look")
    /\ UNCHANGED <<frame, frames>>

Stopped ==
    /\ worker = "look" /\ StopRequested
    /\ WorkerGoes("ended")
    /\ UNCHANGED <<frame, frames>>

Worker == Read \/ Deliver \/ Retry \/ Stopped

-----------------------------------------------------------------------------
(***************************************************************************)
(* The GUI thread.                                                         *)
(***************************************************************************)
GuiGoes(step) == gui' = step /\ UNCHANGED frame

\* open starts no worker while one is joinable.
WorkerAfterOpen == IF worker = "none" THEN "look" ELSE worker

\* Camera::open of a new Camera: the device opens and a worker starts, or the
\* exception ends the program.
Open ==
    /\ gui = "open"
    /\ \/ /\ opened' = TRUE /\ worker' = WorkerAfterOpen /\ stop' = FALSE
          /\ since' = frame
          /\ GuiGoes("running")
       \/ GuiGoes("exiting") /\ UNCHANGED <<opened, worker, stop, since>>
    /\ UNCHANGED <<frames, shown>>

\* The timer: tryPop, count the faces, show.
Tick ==
    /\ gui = "running" /\ frames # <<>>
    /\ shown' = Head(frames) /\ frames' = Tail(frames)
    /\ GuiGoes("running") \/ GuiGoes("exiting")
    /\ UNCHANGED <<worker, stop, opened, since>>

\* Apply begins: Camera::stop.
Apply ==
    /\ gui = "running"
    /\ stop' = TRUE
    /\ GuiGoes("join")
    /\ UNCHANGED <<worker, opened, frames, shown, since>>

Quit ==
    /\ gui = "running"
    /\ GuiGoes("exiting")
    /\ UNCHANGED <<worker, stop, opened, frames, shown, since>>

\* Faulty variant: goes on without waiting for the worker.
JoinedUnwaited == TRUE

\* join returns at once when there is no thread to join.
Joined == worker \in {"none", "ended"}

\* Faulty variant: leaves a worker that ended by itself unjoined.
WorkerAfterJoinKept == worker

WorkerAfterJoin == IF worker = "ended" THEN "none" ELSE worker

Join ==
    /\ gui = "join" /\ Joined
    /\ worker' = WorkerAfterJoin
    /\ GuiGoes("release")
    /\ UNCHANGED <<stop, opened, frames, shown, since>>

\* close: the worker is gone, and the device is released.
Release ==
    /\ gui = "release"
    /\ opened' = FALSE
    /\ GuiGoes("discard")
    /\ UNCHANGED <<worker, stop, frames, shown, since>>

\* Faulty variant: leaves the frames of the old camera.
DiscardedNone(q) == q

Discarded(q) == <<>>

\* Nobody pushes any more, so popping until the queue is empty is one step.
Discard ==
    /\ gui = "discard"
    /\ frames' = Discarded(frames)
    /\ GuiGoes("arm")
    /\ UNCHANGED <<worker, stop, opened, shown, since>>

\* armLoopbackFormat, or an exception of it.
Arm ==
    /\ gui = "arm"
    /\ GuiGoes("open") \/ GuiGoes("exiting")
    /\ UNCHANGED <<worker, stop, opened, frames, shown, since>>

\* The end of app.exec, or of main by an exception: the camera stops and
\* joins, in the code or in its destructor, before the queue is destroyed.
StopToExit ==
    /\ gui = "exiting" /\ ~stop
    /\ stop' = TRUE
    /\ GuiGoes("exiting")
    /\ UNCHANGED <<worker, opened, frames, shown, since>>

Exit ==
    /\ gui = "exiting" /\ stop /\ Joined
    /\ worker' = "none" /\ opened' = FALSE
    /\ GuiGoes("exited")
    /\ UNCHANGED <<stop, frames, shown, since>>

\* The steps the GUI thread takes by itself, and those its user or the timer
\* asks for.
Gui == Open \/ Join \/ Release \/ Discard \/ Arm \/ StopToExit \/ Exit

User == Tick \/ Apply \/ Quit

Next == Worker \/ Gui \/ User

\* A read returns a frame or, after OpenCV's timeout, an empty one.
Spec == Init /\ [][Next]_vars /\ WF_vars(Worker) /\ WF_vars(Gui)

-----------------------------------------------------------------------------
(***************************************************************************)
(* Properties.                                                             *)
(***************************************************************************)

\* The VideoCapture is never released, or opened a second time, under a worker
\* that reads from it.
NoReadAfterRelease == worker \in {"look", "empty", "deliver"} => opened

\* While the window runs, what waits to be shown was read from the camera that
\* is open: Apply leaves no frame of the old resolution behind.
NoFrameOfOldCamera ==
    gui = "running" => \A k \in DOMAIN frames : frames[k] > since

\* Frames are shown in the order they were read and none twice, however many
\* the queue gives up in between.
ShownInOrder == [][shown' # shown => shown' > shown]_vars

\* Quit and Apply always get past their join, and Apply starts the capture
\* again, also when it had ended by an exception that nobody was told of.
CaptureResumes ==
    gui \in {"join", "exiting"} ~>
        gui = "exited" \/ (gui = "running" /\ worker = "look" /\ ~stop)
=============================================================================
