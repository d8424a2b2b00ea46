------------------------------- MODULE Loopback -------------------------------
(***************************************************************************)
(* The producer of ProducerSession and the face-detect client's Apply on   *)
(* one v4l2loopback device, with the time their sleeps and waits take.     *)
(*                                                                         *)
(* Nothing but time coordinates the two programs.  On Apply the client     *)
(* closes the device, pauses, sets the new format on the output side,      *)
(* pauses again and opens; meanwhile the producer has to notice that its   *)
(* consumer has left, stop the output, pause, read the format and stream   *)
(* again.  A set that comes too early is refused, an open that comes too   *)
(* early finds no capture device, and either ends the client.              *)
(*                                                                         *)
(* A call that does not wait takes no time, but for the three of Busy, and *)
(* every wait may last Jitter longer than it says.                         *)
(***************************************************************************)
EXTENDS ProducerSession

CONSTANTS
    TicksPerSecond,     \* resolution of the clock
    Jitter,             \* bound: how late a thread may run
    ShortestUse         \* bound: milliseconds from an open to a click on Apply

ASSUME ClockAssumption ==
    TicksPerSecond \in Nat \ {0} /\ Jitter \in Nat /\ ShortestUse \in Nat

VARIABLES
    producerDue,        \* time until the main thread goes on
    client,             \* where the client is in Apply, or why it ended
    clientDue,          \* time until it goes on
    request             \* the size and the rate of its last Apply

clockVars == <<producerDue, clientDue>>
loopbackVars == <<vars, clockVars, client, request>>

NoRequest == [size |-> NoSize, rate |-> DefaultRate]

-----------------------------------------------------------------------------
(***************************************************************************)
(* Times, in ticks.                                                        *)
(***************************************************************************)
Milliseconds(n) == (n * TicksPerSecond) \div 1000

\* ChessboardProducer::getFrame sleeps until its next frame is due, unless
\* that is beyond the timeout of pump's caller.
FrameInterval(rate) == (TicksPerSecond + rate - 1) \div rate

SourceTimeout == Milliseconds(100)

SourceWait(rate) ==
    IF FrameInterval(rate) < SourceTimeout THEN FrameInterval(rate) ELSE SourceTimeout

\* Faulty variant: pauses for as long as the client does before it arms.
YieldPauseShort == Milliseconds(60)

YieldPause == Milliseconds(400)

\* Faulty variant: arms the device at once.
ClosePauseNone == Milliseconds(0)

ClosePause == Milliseconds(100)

\* Faulty variant: opens before the producer can have restarted.
ArmPauseShort == Milliseconds(300)

ArmPause == Milliseconds(500)

\* Scaling and queueing a frame, STREAMOFF with the release of the buffers,
\* and S_FMT with the request of new ones.
Busy == {"push", "yield", "setFormat"}

From(shortest) == shortest .. (shortest + Jitter)

\* How long the main thread may stay at a step.
Delays(step, rate) ==
    CASE step = "source" -> 0 .. (SourceWait(rate) + Jitter)
      [] step = "waitEvent" -> From(Milliseconds(20))
      [] step = "idle" -> From(Milliseconds(100))
      [] step = "sleep" -> From(YieldPause)
      [] step \in Busy -> From(0)
      [] OTHER -> {0}

LoopbackInit ==
    /\ Init
    /\ producerDue = 0 /\ clientDue = 0
    /\ client = "starting" /\ request = NoRequest

-----------------------------------------------------------------------------
\* An event ends a wait for one.
Woken == pc \in {"idle", "waitEvent"} /\ events # <<>>

Ready == producerDue = 0 \/ Woken

Producer ==
    /\ Ready
    /\ Main
    /\ producerDue' \in Delays(pc', producerRate')
    /\ UNCHANGED <<client, clientDue, request>>

-----------------------------------------------------------------------------
(***************************************************************************)
(* The client.                                                             *)
(***************************************************************************)
ClientGoes(step, pauses) ==
    /\ client' = step
    /\ clientDue' \in pauses
    /\ UNCHANGED producerDue

ClientAt(step) == client = step /\ clientDue = 0

\* The first open, without Apply, of a producer that is there.
Open ==
    /\ ClientAt("starting")
    /\ Attach
    /\ ClientGoes("capturing", {Milliseconds(ShortestUse)})
    /\ UNCHANGED request

\* Apply, as far as Camera::close: bounded by the opens that are left.
Apply(size, rate) ==
    /\ ClientAt("capturing") /\ attaches < MaxAttaches
    /\ Detach
    /\ request' = [size |-> size, rate |-> rate]
    /\ ClientGoes("closed", From(ClosePause))

\* armLoopbackFormat: S_FMT of the output, refused while the output streams,
\* and S_PARM.
ArmSize ==
    /\ ClientAt("closed")
    /\ IF streaming THEN UNCHANGED vars /\ ClientGoes("refused", {0})
                    ELSE ArmFormat(request.size) /\ ClientGoes("arming", {0})
    /\ UNCHANGED request

ArmInterval ==
    /\ ClientAt("arming")
    /\ ArmRate(request.rate)
    /\ ClientGoes("armed", From(ArmPause))
    /\ UNCHANGED request

\* With exclusive_caps the device captures only while its output streams.
Reopen ==
    /\ ClientAt("armed")
    /\ IF streaming THEN Attach /\ ClientGoes("capturing", {Milliseconds(ShortestUse)})
                    ELSE UNCHANGED vars /\ ClientGoes("unopened", {0})
    /\ UNCHANGED request

Client ==
    \/ Open \/ ArmSize \/ ArmInterval \/ Reopen
    \/ \E size \in Sizes, rate \in Rates : Apply(size, rate)

-----------------------------------------------------------------------------
\* Time passes when nobody has anything to do now.
Pausing == client \in {"closed", "arming", "armed"}

Tick ==
    /\ ~Ready
    /\ Pausing => clientDue > 0
    /\ producerDue' = producerDue - 1
    /\ clientDue' = IF clientDue > 0 THEN clientDue - 1 ELSE 0
    /\ UNCHANGED <<vars, client, request>>

LoopbackNext == Producer \/ Client \/ Tick

\* Both threads run, and time does not stand still; whether Apply is clicked
\* is left to the user.
LoopbackSpec ==
    /\ LoopbackInit /\ [][LoopbackNext]_loopbackVars
    /\ WF_loopbackVars(Producer) /\ WF_loopbackVars(Tick)
    /\ WF_loopbackVars(ArmSize \/ ArmInterval \/ Reopen)

-----------------------------------------------------------------------------
(***************************************************************************)
(* Properties.                                                             *)
(***************************************************************************)

\* "On apply the client closes capture, arms the new format on the loopback
\* device, then reopens" (README): neither the arming nor the reopening comes
\* at a moment when the producer makes it fail.
ApplySucceeds == client \notin {"refused", "unopened"}

\* What the client gets after Apply is what it asked for: each frame of the
\* session that follows is in the requested size and is paced at the requested
\* rate.
ServedAsRequested ==
    client = "capturing" /\ request # NoRequest /\ pc \in {"source", "push"} =>
        /\ config = Bgr24(request.size) /\ scaler = config
        /\ producerRate = request.rate

\* Every Apply leads to a session that serves it.
ApplyServed == client = "closed" ~> client = "capturing" /\ InSession
=============================================================================
