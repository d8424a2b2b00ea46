---------------------------- MODULE ProducerSession ----------------------------
(***************************************************************************)
(* The chessboard producer's main thread, following the consumers of a     *)
(* v4l2loopback device: V4l2LoopbackSession's CLIENT_USAGE events, the     *)
(* FramePipeline it pumps while a consumer is attached, and the            *)
(* reconfiguration from G_FMT and G_PARM after the last one has left.      *)
(*                                                                         *)
(* The sink appears here as what main sees of it: whether it streams and   *)
(* its configuration (V4l2Sink.tla has the rest).  A step of the main      *)
(* thread ends at each call that another process can come between; the     *)
(* sleeps have no length, so a consumer may do anything during any step.   *)
(***************************************************************************)
EXTENDS Naturals, Sequences

CONSTANTS
    Sizes,          \* frame dimensions
    NoSize,         \* the dimensions of a device nobody has configured
    DefaultSize,    \* Options::sinkWidth and sinkHeight
    Rates,          \* frame rates; 0 is one that rounds to no frame per second
    OptionRates,    \* Options::fps, any number the command line gives
    DefaultRate,    \* the 30 that stands in for a rate of none
    EventDepth,     \* events the kernel keeps; a newer one drops the oldest
    InitialClients, \* consumers capturing when the producer starts
    MaxClients,     \* bound: consumers at a time
    MaxAttaches,    \* bound: how often a consumer attaches
    Failures,       \* the kinds of calls that may fail; a driver that answers
                    \* S_FMT with another format is one, "adjust"
    MaxFailures     \* bound: how many calls fail

FailureKind == {"event", "start", "stream", "reset", "adjust"}

ASSUME SizesAssumption == DefaultSize \in Sizes /\ NoSize \notin Sizes
ASSUME RatesAssumption ==
    Rates \subseteq Nat /\ DefaultRate \in Rates \ {0} /\ OptionRates \subseteq Rates
ASSUME BoundsAssumption ==
    /\ EventDepth \in Nat \ {0} /\ MaxClients \in Nat
    /\ InitialClients \subseteq 0 .. MaxClients
    /\ MaxAttaches \in Nat /\ MaxFailures \in Nat
ASSUME KindsAssumption == Failures \subseteq FailureKind

VARIABLES
    pc, phase,      \* the step, and the attempt at starting it belongs to
    quit,           \* set by the input thread
    clientCount,    \* the clientCount of the loop that is running
    held,           \* pump holds an acquired frame
    wanted, fps,    \* sinkWidth and sinkHeight, fps of main
    scaler,         \* the scaler's output format
    config,         \* the sink's configuration
    streaming,      \* the sink streams
    producerRate,   \* producer.frameRate()
    device,         \* the format and the rate the driver would answer with
    clients,        \* consumers that capture (STREAMON)
    events,         \* CLIENT_USAGE events not yet dequeued, oldest first
    armed,          \* the last format a consumer set, and whether main can see it
    stale,          \* frames queued since the last consumer left
    attaches,
    failures,
    regular         \* nobody captured at first, and no call but a start has failed

mainVars == <<pc, phase, clientCount, held, wanted, fps, scaler, config,
              streaming, producerRate>>
clientVars == <<clients, armed, attaches>>
faults == <<failures, regular>>
vars == <<mainVars, quit, device, clientVars, events, stale, faults>>

Format == [size : Sizes, pixel : {"bgr24", "other"}]

NoArm == [size |-> NoSize, seen |-> FALSE]

Step == {"subscribe", "discard", "configure", "setFormat", "streamOn", "apply",
         "setParm", "idle", "drain", "recycle", "restream", "session",
         "sessionDrain", "getParm", "acquire", "source", "push", "waitEvent",
         "ended", "yield", "sleep", "getFormat", "getRate", "recover", "shutdown", "exited"}

Phase == {"boot", "reconfigure", "recover"}

TypeOK ==
    /\ pc \in Step /\ phase \in Phase
    /\ quit \in BOOLEAN /\ held \in BOOLEAN /\ streaming \in BOOLEAN
    /\ clientCount \in 0 .. MaxClients /\ clients \in 0 .. MaxClients
    /\ wanted \in Sizes /\ fps \in Rates /\ producerRate \in Rates \ {0}
    /\ scaler \in Format /\ config \in Format
    /\ device \in [size : Sizes \cup {NoSize}, pixel : {"bgr24", "other"}, rate : Rates]
    /\ events \in Seq(0 .. MaxClients) /\ Len(events) <= EventDepth
    /\ armed \in [size : Sizes \cup {NoSize}, seen : BOOLEAN]
    /\ stale \in 0 .. 2
    /\ attaches \in 0 .. MaxAttaches /\ failures \in 0 .. MaxFailures
    /\ regular \in BOOLEAN

Bgr24(size) == [size |-> size, pixel |-> "bgr24"]

\* setFrameRate and setStreamParm: a rate of none is replaced.
FrameRate(rate) == IF rate > 0 THEN rate ELSE DefaultRate

Init ==
    /\ pc = "subscribe" /\ phase = "boot"
    /\ quit = FALSE /\ clientCount = 0 /\ held = FALSE
    /\ wanted = DefaultSize /\ fps \in OptionRates
    /\ scaler = Bgr24(DefaultSize) /\ config = Bgr24(DefaultSize)
    /\ streaming = FALSE /\ producerRate = FrameRate(fps)
    /\ device \in [size : {NoSize, DefaultSize}, pixel : {"bgr24"}, rate : {DefaultRate}]
    /\ clients \in InitialClients
    /\ events = <<>> /\ armed = NoArm /\ stale = 0
    /\ attaches = 0 /\ failures = 0 /\ regular = (clients = 0)

-----------------------------------------------------------------------------
(***************************************************************************)
(* The device, as the producer and its consumers use it.                   *)
(***************************************************************************)

\* A change of the usage count is queued, the oldest event giving way.
Enqueue(evs, count) ==
    IF Len(evs) < EventDepth THEN Append(evs, count) ELSE Append(Tail(evs), count)

Subscribed == pc \notin {"subscribe", "exited"}

Notify(count) ==
    /\ clients' = count
    /\ stale' = 0
    /\ events' = IF Subscribed THEN Enqueue(events, count) ELSE events

\* Capturing needs an output that streams, but survives its end.
Attach ==
    /\ streaming /\ clients < MaxClients /\ attaches < MaxAttaches
    /\ Notify(clients + 1)
    /\ attaches' = attaches + 1
    /\ UNCHANGED <<mainVars, quit, device, armed, faults>>

Detach ==
    /\ clients > 0
    /\ Notify(clients - 1)
    /\ UNCHANGED <<mainVars, quit, device, armed, attaches, faults>>

\* armLoopbackFormat: S_FMT is refused while the output streams; the producer
\* sees the new format if it has yet to ask for it.  What counts is a format
\* set between sessions, with nobody capturing: the first start is in the
\* default format by design.
ArmFormat(size) ==
    /\ ~streaming
    /\ device' = [device EXCEPT !.size = size, !.pixel = "bgr24"]
    /\ armed' = IF phase = "boot" \/ clients > 0 THEN NoArm
                ELSE [size |-> size, seen |-> pc \in {"sleep", "getFormat"}]
    /\ UNCHANGED <<mainVars, quit, clients, attaches, events, stale, faults>>

ArmRate(rate) ==
    /\ device' = [device EXCEPT !.rate = rate]
    /\ UNCHANGED <<mainVars, quit, clientVars, events, stale, faults>>

\* The input thread reads 'q'.
Quit ==
    /\ pc \notin {"subscribe", "discard", "exited"} /\ ~quit
    /\ quit' = TRUE
    /\ UNCHANGED <<mainVars, device, clientVars, events, stale, faults>>

-----------------------------------------------------------------------------
MayFail(kind) ==
    /\ kind \in Failures /\ failures < MaxFailures
    /\ failures' = failures + 1
    /\ regular' = (regular /\ kind = "start")

\* Where an exception of a start goes: out of main at first, then to the
\* recovery, and out of main again if that fails too.
OnException == IF phase = "reconfigure" THEN "recover" ELSE "shutdown"

\* pollClientUsage, when an event is there.
Poll ==
    /\ events # <<>>
    /\ clientCount' = Head(events)
    /\ events' = Tail(events)

\* What waitClientUsage leaves in the caller's count.
Wait(otherwise) ==
    IF events = <<>> THEN clientCount' = otherwise /\ UNCHANGED events ELSE Poll

Goto(step) == pc' = step /\ UNCHANGED phase

KeepStream == UNCHANGED <<wanted, fps, scaler, config, streaming, producerRate>>
KeepOthers == UNCHANGED <<quit, clientVars>>

-----------------------------------------------------------------------------
(***************************************************************************)
(* The beginning of main: subscribe, with the current count as the first   *)
(* event, and discard every event there is.                                *)
(***************************************************************************)
Subscribe ==
    /\ pc = "subscribe"
    /\ events' = <<clients>>
    /\ Goto("discard")
    /\ UNCHANGED <<clientCount, held, device, stale, faults>>
    /\ KeepStream /\ KeepOthers

Discard ==
    /\ pc = "discard"
    /\ IF events = <<>> THEN Goto("configure") /\ UNCHANGED events
                        ELSE events' = Tail(events) /\ UNCHANGED <<pc, phase>>
    /\ UNCHANGED <<clientCount, held, device, stale, faults>>
    /\ KeepStream /\ KeepOthers

-----------------------------------------------------------------------------
(***************************************************************************)
(* configurePipeline, sink.start, applyNegotiatedSinkFormat, and but for a *)
(* recovery setStreamParm.                                                 *)
(***************************************************************************)
ConfigurePipeline ==
    /\ pc = "configure"
    /\ scaler' = Bgr24(wanted) /\ config' = Bgr24(wanted)
    /\ producerRate' = FrameRate(fps)
    /\ Goto("setFormat")
    /\ UNCHANGED <<clientCount, held, wanted, fps, streaming, device, events,
                   stale, faults>>
    /\ KeepOthers

SetFormat(f) ==
    /\ pc = "setFormat"
    /\ IF f = config THEN UNCHANGED faults ELSE MayFail("adjust")
    /\ config' = f
    /\ device' = [device EXCEPT !.size = f.size, !.pixel = f.pixel]
    /\ Goto("streamOn")
    /\ UNCHANGED <<clientCount, held, wanted, fps, scaler, streaming,
                   producerRate, events, stale>>
    /\ KeepOthers

StreamOn ==
    /\ pc = "streamOn"
    /\ streaming' = TRUE
    /\ Goto("apply")
    /\ UNCHANGED <<clientCount, held, wanted, fps, scaler, config, producerRate,
                   device, events, stale, faults>>
    /\ KeepOthers

StartFails ==
    /\ pc \in {"setFormat", "streamOn", "setParm"} /\ MayFail("start")
    /\ Goto(OnException)
    /\ UNCHANGED <<clientCount, held, device, events, stale>>
    /\ KeepStream /\ KeepOthers

\* Faulty variant: the scaler keeps the format that was asked for.
NegotiatedScalerKept(requested, negotiated) == requested

NegotiatedScaler(requested, negotiated) == negotiated

ApplyNegotiatedSinkFormat ==
    /\ pc = "apply"
    /\ IF config.pixel = "bgr24"
       THEN /\ wanted' = config.size
            /\ scaler' = NegotiatedScaler(scaler, config)
            /\ Goto(IF phase = "recover" THEN "idle" ELSE "setParm")
       ELSE /\ Goto(OnException)
            /\ UNCHANGED <<wanted, scaler>>
    /\ UNCHANGED <<clientCount, held, fps, config, streaming, producerRate,
                   device, events, stale, faults>>
    /\ KeepOthers

SetStreamParm(rate) ==
    /\ pc = "setParm"
    /\ IF rate = FrameRate(fps) THEN UNCHANGED faults ELSE MayFail("adjust")
    /\ device' = [device EXCEPT !.rate = rate]
    /\ Goto("idle")
    /\ UNCHANGED <<clientCount, held, events, stale>>
    /\ KeepStream /\ KeepOthers

-----------------------------------------------------------------------------
(***************************************************************************)
(* Idle: wait for an event, then take all there are; the last one counts.  *)
(***************************************************************************)
Idle ==
    /\ pc = "idle"
    /\ IF quit THEN Goto("shutdown") /\ UNCHANGED <<clientCount, events>>
               ELSE Goto("drain") /\ Wait(0)
    /\ UNCHANGED <<held, device, stale, faults>>
    /\ KeepStream /\ KeepOthers

\* Faulty variant: takes one consumer for none.
AttachedBeyondOne(count) == count > 1

Attached(count) == count > 0

Drain ==
    /\ pc = "drain"
    /\ IF events # <<>>
       THEN Poll /\ UNCHANGED <<pc, phase>>
       ELSE /\ UNCHANGED <<clientCount, events>>
            /\ Goto(IF quit THEN "shutdown"
                    ELSE IF Attached(clientCount) THEN "recycle" ELSE "idle")
    /\ UNCHANGED <<held, device, stale, faults>>
    /\ KeepStream /\ KeepOthers

\* "event wait": the loop starts over, and the count is gone.
EventFails ==
    /\ pc \in {"idle", "drain"} /\ MayFail("event")
    /\ pc = "idle" => ~quit
    /\ clientCount' = 0
    /\ Goto("idle")
    /\ UNCHANGED <<held, device, events, stale>>
    /\ KeepStream /\ KeepOthers

\* recycleBuffers: STREAMOFF, then STREAMON.
RecycleBuffers ==
    /\ pc = "recycle"
    /\ streaming' = FALSE
    /\ Goto("restream")
    /\ UNCHANGED <<clientCount, held, wanted, fps, scaler, config, producerRate,
                   device, events, stale, faults>>
    /\ KeepOthers

\* streamUntilIdle starts from a count of one.
Restream ==
    /\ pc = "restream"
    /\ streaming' = TRUE
    /\ clientCount' = 1
    /\ Goto("session")
    /\ UNCHANGED <<held, wanted, fps, scaler, config, producerRate, device,
                   events, stale, faults>>
    /\ KeepOthers

-----------------------------------------------------------------------------
(***************************************************************************)
(* streamUntilIdle and FramePipeline::pump.                                *)
(***************************************************************************)

\* Faulty variant: does not look at quit.
SessionGoesOnUntilIdle(count) == count > 0

SessionGoesOn(count) == ~quit /\ count > 0

Session ==
    /\ pc = "session"
    /\ Goto(IF SessionGoesOn(clientCount) THEN "sessionDrain" ELSE "ended")
    /\ UNCHANGED <<clientCount, held, device, events, stale, faults>>
    /\ KeepStream /\ KeepOthers

\* Faulty variant: leaves the events for when the pipeline stalls.
EventPendingUnread(evs) == FALSE

EventPending(evs) == evs # <<>>

SessionDrain ==
    /\ pc = "sessionDrain"
    /\ IF EventPending(events)
       THEN Poll /\ UNCHANGED <<pc, phase>>
       ELSE /\ UNCHANGED <<clientCount, events>>
            /\ Goto(IF clientCount = 0 THEN "ended" ELSE "getParm")
    /\ UNCHANGED <<held, device, stale, faults>>
    /\ KeepStream /\ KeepOthers

\* Faulty variant: takes a rate that rounds to no frame per second.
ResolveFpsUnchecked(rate, fallback) == rate

ResolveFps(rate, fallback) == IF rate > 0 THEN rate ELSE FrameRate(fallback)

GetParm ==
    /\ pc = "getParm"
    /\ producerRate' = ResolveFps(device.rate, producerRate)
    /\ Goto("acquire")
    /\ UNCHANGED <<clientCount, held, wanted, fps, scaler, config, streaming,
                   device, events, stale, faults>>
    /\ KeepOthers

\* acquireFrame finds a buffer, or pump reports backpressure.
Acquire ==
    /\ pc = "acquire"
    /\ \/ held' = TRUE /\ Goto("source")
       \/ UNCHANGED held /\ Goto("waitEvent")
    /\ UNCHANGED <<clientCount, device, events, stale, faults>>
    /\ KeepStream /\ KeepOthers

\* getFrame and scale, or a source timeout, and the acquired frame is dropped.
Source ==
    /\ pc = "source"
    /\ \/ UNCHANGED held /\ Goto("push")
       \/ held' = FALSE /\ Goto("waitEvent")
    /\ UNCHANGED <<clientCount, device, events, stale, faults>>
    /\ KeepStream /\ KeepOthers

\* pushFrame takes the frame, queued or refused.  Two stale frames are many.
Push ==
    /\ pc = "push"
    /\ held' = FALSE
    /\ \/ /\ stale' = IF clients = 0 /\ stale < 2 THEN stale + 1 ELSE stale
          /\ Goto("session")
       \/ UNCHANGED stale /\ Goto("waitEvent")
    /\ UNCHANGED <<clientCount, device, events, faults>>
    /\ KeepStream /\ KeepOthers

\* Faulty variant: takes a wait that timed out for the last consumer leaving.
CountWithoutEventZero(count) == 0

CountWithoutEvent(count) == count

WaitEvent ==
    /\ pc = "waitEvent"
    /\ Wait(CountWithoutEvent(clientCount))
    /\ Goto("session")
    /\ UNCHANGED <<held, device, stale, faults>>
    /\ KeepStream /\ KeepOthers

\* "stream error": whatever throws ends the session, and pump's frames with it.
StreamFails ==
    /\ pc \in {"getParm", "acquire", "source", "push", "waitEvent"}
    /\ MayFail(IF pc = "waitEvent" THEN "event" ELSE "stream")
    /\ held' = FALSE
    /\ Goto("ended")
    /\ UNCHANGED <<clientCount, device, events, stale>>
    /\ KeepStream /\ KeepOthers

-----------------------------------------------------------------------------
(***************************************************************************)
(* After a session: yield, a pause for consumers to set a format, G_FMT,   *)
(* G_PARM, and a start from the beginning.                                 *)
(***************************************************************************)
Ended ==
    /\ pc = "ended"
    /\ IF quit THEN Goto("shutdown")
               ELSE pc' = "yield" /\ phase' = "reconfigure"
    /\ UNCHANGED <<clientCount, held, device, events, stale, faults>>
    /\ KeepStream /\ KeepOthers

Yield ==
    /\ pc = "yield"
    /\ streaming' = FALSE
    /\ Goto(IF phase = "recover" THEN "configure" ELSE "sleep")
    /\ UNCHANGED <<clientCount, held, wanted, fps, scaler, config, producerRate,
                   device, events, stale, faults>>
    /\ KeepOthers

Sleep ==
    /\ pc = "sleep"
    /\ Goto(IF quit THEN "shutdown" ELSE "getFormat")
    /\ UNCHANGED <<clientCount, held, device, events, stale, faults>>
    /\ KeepStream /\ KeepOthers

\* Faulty variant: keeps the dimensions it had.
SizeToRestartKept(current, answer) == current

SizeToRestart(current, answer) == IF answer = NoSize THEN current ELSE answer

GetFormat ==
    /\ pc = "getFormat"
    /\ wanted' = SizeToRestart(wanted, device.size)
    /\ Goto("getRate")
    /\ UNCHANGED <<clientCount, held, fps, scaler, config, streaming,
                   producerRate, device, events, stale, faults>>
    /\ KeepOthers

GetRate ==
    /\ pc = "getRate"
    /\ fps' = ResolveFps(device.rate, fps)
    /\ Goto("configure")
    /\ UNCHANGED <<clientCount, held, wanted, scaler, config, streaming,
                   producerRate, device, events, stale, faults>>
    /\ KeepOthers

\* STREAMOFF fails, or REQBUFS(0) after it; G_FMT or G_PARM; recycleBuffers,
\* which main does not catch.
ResetFails ==
    /\ pc \in {"recycle", "restream", "yield", "getFormat", "getRate"}
    /\ MayFail("reset")
    /\ streaming' \in IF pc = "yield" THEN {FALSE, streaming} ELSE {streaming}
    /\ Goto(IF pc \in {"recycle", "restream"} THEN "shutdown" ELSE OnException)
    /\ UNCHANGED <<clientCount, held, wanted, fps, scaler, config, producerRate,
                   device, events, stale>>
    /\ KeepOthers

\* An exception of pollClientUsage in streamUntilIdle is not caught there.
PollFails ==
    /\ pc \in {"subscribe", "discard", "sessionDrain"} /\ MayFail("event")
    /\ Goto("shutdown")
    /\ UNCHANGED <<clientCount, held, device, events, stale>>
    /\ KeepStream /\ KeepOthers

Recover ==
    /\ pc = "recover"
    /\ phase' = "recover"
    /\ pc' = IF streaming THEN "yield" ELSE "configure"
    /\ UNCHANGED <<clientCount, held, device, events, stale, faults>>
    /\ KeepStream /\ KeepOthers

\* The end of main: stop, or only the destructors.
Shutdown ==
    /\ pc = "shutdown"
    /\ streaming' = FALSE
    /\ Goto("exited")
    /\ UNCHANGED <<clientCount, held, wanted, fps, scaler, config, producerRate,
                   device, events, stale, faults>>
    /\ KeepOthers

-----------------------------------------------------------------------------
Boot == Subscribe \/ Discard

Start ==
    \/ ConfigurePipeline
    \/ \E f \in Format : SetFormat(f)
    \/ StreamOn \/ StartFails \/ ApplyNegotiatedSinkFormat
    \/ \E rate \in Rates : SetStreamParm(rate)

Waiting == Idle \/ Drain \/ EventFails \/ RecycleBuffers \/ Restream

StreamUntilIdle ==
    \/ Session \/ SessionDrain \/ GetParm \/ Acquire \/ Source \/ Push
    \/ WaitEvent \/ StreamFails

Reconfigure ==
    \/ Ended \/ Yield \/ Sleep \/ GetFormat \/ GetRate \/ ResetFails \/ Recover

Main ==
    \/ Boot \/ Start \/ Waiting \/ StreamUntilIdle \/ PollFails
    \/ Reconfigure \/ Shutdown

Consumer ==
    \/ Attach \/ Detach
    \/ \E size \in Sizes : ArmFormat(size)
    \/ \E rate \in Rates : ArmRate(rate)

Next == Main \/ Consumer \/ Quit

\* Every call the main thread makes returns: the descriptor is non-blocking,
\* poll has a timeout, the sleeps are finite.
Spec == Init /\ [][Next]_vars /\ WF_vars(Main)

-----------------------------------------------------------------------------
(***************************************************************************)
(* Properties.                                                             *)
(***************************************************************************)
InSession == pc \in {"session", "sessionDrain", "getParm", "acquire", "source",
                     "push", "waitEvent"}

\* When no event is waiting, streamUntilIdle is right about whether anyone
\* captures, however events were coalesced, dropped or read in the pump's wait.
CountIsCurrent ==
    InSession /\ events = <<>> => (clientCount > 0 <=> clients > 0)

\* "do not fill the v4l2loopback queue while idle" (main): after the last
\* consumer has left, at most the frame in the pump is still queued.
FewStaleFrames == stale <= 1

\* Frames are scaled to the format of the sink that is streaming: through
\* every start, failed reconfiguration and recovery, the two agree.
ScalerMatchesSink ==
    pc \in {"acquire", "source", "push"} =>
        streaming /\ scaler = config /\ config = Bgr24(wanted)

\* A format that a consumer sets in the pause after yield is the format of
\* the next session.
ArmHonoured == regular /\ pc = "acquire" /\ armed.seen => config.size = armed.size

\* "Follows consumer G_FMT/G_PARM on reconnect" (printUsage): a session is
\* in the format its consumer has set.
ArmedFormatServed == pc = "acquire" /\ armed # NoArm => config.size = armed.size

\* The count of an idle producer is zero because nobody captures.
IdleHasNoClient == pc = "idle" /\ events = <<>> => clients = 0

\* A consumer that stays is streamed to.
ClientServed == clients > 0 ~> ~regular \/ InSession \/ clients = 0 \/ pc = "exited"

\* 'q' ends the program from every state, whatever else fails.
QuitExits == quit ~> pc = "exited"
=============================================================================
