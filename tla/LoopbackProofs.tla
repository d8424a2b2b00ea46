---------------------------- MODULE LoopbackProofs ----------------------------
(***************************************************************************)
(* Why Apply works: as long as no call has failed, no arming is refused    *)
(* and no open comes too early, and what is served is what was asked for.  *)
(* All it takes is InTime, a bound on the frame interval and the jitter,   *)
(* and a user who does not click before the producer has seen the client.  *)
(*                                                                         *)
(* Nothing but time keeps the two programs apart, so the invariant follows *)
(* two races, whose stakes are the times that are left to either side: the *)
(* producer must yield before the client arms and stay asleep until it     *)
(* has, and it must stream again before the client opens.                  *)
(***************************************************************************)
EXTENDS Loopback, ProducerSessionProofs

\* From the client's close the producer may still wait for a frame, push it
\* and yield, each with its jitter, and must be done before the client arms.
InTime == \A rate \in Rates \ {0} : SourceWait(rate) + 3 * Jitter < ClosePause

\* Nobody else captures, and Apply is not clicked in the instant of the open.
OneClient == InitialClients = {0} /\ Milliseconds(ShortestUse) > 0

ClientStep == {"starting", "capturing", "closed", "arming", "armed", "refused", "unopened"}

ClockTypeOK ==
    /\ producerDue \in Nat /\ clientDue \in Nat
    /\ client \in ClientStep
    /\ request \in [size : Sizes \cup {NoSize}, rate : Rates]
    /\ client \notin {"starting", "capturing"} => request.size \in Sizes

\* No step of the producer has more time left than it was given.
DueInv ==
    /\ pc = "source" => producerDue <= SourceWait(producerRate) + Jitter
    /\ pc \in Busy => producerDue <= Jitter
    /\ pc = "sleep" => producerDue <= YieldPause + Jitter
    /\ pc \notin {"source", "waitEvent", "idle", "sleep"} \cup Busy => producerDue = 0

\* Where the sink streams.
Streams == InSession \/ pc \in {"apply", "setParm", "idle", "drain", "recycle", "ended", "yield"}

\* A producer of which no call has failed: it is not recovering, and the sink
\* has the format it was given.
CalmInv ==
    /\ ~quit /\ phase # "recover" /\ pc \notin {"recover", "shutdown", "exited"}
    /\ config.pixel = "bgr24"
    /\ streaming <=> Streams

\* The only notices there are, each on its own: the client came, or it left.
Arrival == <<1>>

Departure == <<0>>

\* Before the first open the producer starts and idles.
StartingInv ==
    /\ clients = 0 /\ request = NoRequest
    /\ pc \in {"subscribe", "discard", "configure", "setFormat", "streamOn",
               "apply", "setParm", "idle", "drain"}
    /\ IF pc = "discard" THEN events = Departure \/ events = <<>> ELSE events = <<>>
    /\ pc = "drain" => clientCount = 0

\* The client's event is there until it has been counted; that takes no time,
\* and after it the producer stays in the session.
CapturingInv ==
    /\ clients = 1
    /\ \/ pc \in {"apply", "setParm", "idle", "drain"} /\ events = Arrival
       \/ pc = "drain" /\ events = <<>> /\ clientCount = 1
       \/ pc \in {"recycle", "restream"} /\ events = <<>>
       \/ InSession /\ events = <<>> /\ clientCount = 1
    /\ InSession \/ clientDue = Milliseconds(ShortestUse)

\* After the close: the event waits for the end of the round, then the session
\* ends, and each step leaves enough of the client's pause for those to come;
\* the pause of the producer outlasts what then is left of the client's.
ClosedInv ==
    /\ clients = 0
    /\ clientDue <= ClosePause + Jitter
    /\ \/ /\ events = Departure /\ clientCount = 1
          /\ \/ pc \in {"getParm", "acquire"} /\ ClosePause <= clientDue
             \/ pc = "source" /\ producerDue + 2 * Jitter < clientDue
             \/ pc = "push" /\ producerDue + Jitter < clientDue
             \/ pc \in {"waitEvent", "session", "sessionDrain"} /\ Jitter < clientDue
       \/ /\ events = <<>> /\ clientCount = 0
          /\ pc \in {"session", "sessionDrain"} /\ Jitter < clientDue
       \/ pc = "ended" /\ events = <<>> /\ Jitter < clientDue
       \/ pc = "yield" /\ events = <<>> /\ producerDue < clientDue
       \/ pc = "sleep" /\ events = <<>> /\ clientDue < producerDue

\* Between the two calls of the arming the producer sleeps.
ArmingInv ==
    /\ clients = 0 /\ events = <<>> /\ clientDue = 0
    /\ pc = "sleep" /\ producerDue > 0
    /\ device.size = request.size

\* After the arming the producer wakes, starts and idles, each step leaving
\* enough of the client's pause for those to come.
ArmedInv ==
    /\ clients = 0 /\ events = <<>>
    /\ \/ pc = "sleep" /\ producerDue + Jitter < clientDue
       \/ pc \in {"getFormat", "getRate", "configure"} /\ Jitter < clientDue
       \/ pc = "setFormat" /\ producerDue < clientDue
       \/ pc = "streamOn" /\ 0 < clientDue
       \/ pc \in {"apply", "setParm", "idle"}
       \/ pc = "drain" /\ clientCount = 0

\* What the client has armed is taken over by the producer, step by step, and
\* nothing else comes in between.
ServedInv ==
    client \in {"armed", "capturing"} /\ request # NoRequest /\ request.rate > 0 =>
        /\ device.size = request.size /\ device.rate = request.rate
        /\ pc \notin {"sleep", "getFormat"} => wanted = request.size
        /\ pc \notin {"sleep", "getFormat", "getRate"} => fps = request.rate
        /\ pc \notin {"sleep", "getFormat", "getRate", "configure"} =>
               /\ config = Bgr24(request.size) /\ scaler = config
               /\ producerRate = request.rate

TurnInv ==
    /\ client = "starting" => StartingInv
    /\ client = "capturing" => CapturingInv
    /\ client = "closed" => ClosedInv
    /\ client = "arming" => ArmingInv
    /\ client = "armed" => ArmedInv
    /\ ApplySucceeds

LInv ==
    /\ PInv /\ ClockTypeOK /\ DueInv
    /\ failures = 0 => CalmInv /\ TurnInv /\ ServedInv

-----------------------------------------------------------------------------
(***************************************************************************)
(* The times, and the events of a single client.                           *)
(***************************************************************************)

\* A wait for a frame has a length.
LEMMA SourceWaits ==
  ASSUME NEW rate \in Rates \ {0} PROVE SourceWait(rate) \in Nat
  <1>1. TicksPerSecond \in Nat \ {0} /\ rate \in Nat \ {0}
    BY ClockAssumption, RatesAssumption
  <1>2. FrameInterval(rate) \in Nat
    <2> DEFINE n == TicksPerSecond + rate - 1
    <2>1. n \in Nat
      BY <1>1
    <2>2. FrameInterval(rate) = n \div rate
      BY DEF FrameInterval
    <2> HIDE DEF n
    <2> QED
      BY <1>1, <2>1, <2>2
  <1>3. SourceTimeout \in Nat
    BY <1>1 DEF SourceTimeout, Milliseconds
  <1> QED
    BY <1>2, <1>3 DEF SourceWait

\* The pauses of the two programs leave the room that InTime leaves before the
\* arming: the producer sleeps for longer than the client waits to arm, and
\* the client waits for longer than the producer sleeps and starts.
LEMMA Pauses ==
  ASSUME InTime
  PROVE  /\ Jitter \in Nat
         /\ ClosePause \in Nat /\ YieldPause \in Nat /\ ArmPause \in Nat
         /\ 3 * Jitter < ClosePause
         /\ ClosePause + Jitter < YieldPause
         /\ YieldPause + 2 * Jitter < ArmPause
  <1>1. TicksPerSecond \in Nat /\ Jitter \in Nat
    BY ClockAssumption
  <1>2. ClosePause \in Nat /\ YieldPause \in Nat /\ ArmPause \in Nat
    BY <1>1 DEF ClosePause, YieldPause, ArmPause, Milliseconds
  <1>3. 2 * ClosePause <= YieldPause /\ YieldPause + ClosePause <= ArmPause
    BY <1>1 DEF ClosePause, YieldPause, ArmPause, Milliseconds
  <1>4. 3 * Jitter < ClosePause
    <2>1. SourceWait(DefaultRate) \in Nat
      BY SourceWaits, RatesAssumption
    <2>2. SourceWait(DefaultRate) + 3 * Jitter < ClosePause
      BY RatesAssumption DEF InTime
    <2> QED
      BY <1>1, <1>2, <2>1, <2>2
  <1> QED
    BY <1>1, <1>2, <1>3, <1>4

\* The time a step of the producer is given.
LEMMA DelayBounds ==
  ASSUME NEW step \in Step, NEW rate \in Rates \ {0}, NEW due \in Delays(step, rate)
  PROVE  /\ due \in Nat
         /\ step = "source" => due <= SourceWait(rate) + Jitter
         /\ step \in Busy => due <= Jitter
         /\ step = "sleep" => YieldPause <= due /\ due <= YieldPause + Jitter
         /\ step \notin {"source", "waitEvent", "idle", "sleep"} \cup Busy => due = 0
  <1>1. Jitter \in Nat /\ SourceWait(rate) \in Nat
    BY SourceWaits, ClockAssumption
  <1>2. \A n \in Nat : Milliseconds(n) \in Nat
    BY ClockAssumption DEF Milliseconds
  <1>3. YieldPause \in Nat /\ Milliseconds(20) \in Nat /\ Milliseconds(100) \in Nat
    BY <1>2 DEF YieldPause
  <1>4. CASE step = "source"
    BY <1>1, <1>4 DEF Delays, Busy
  <1>5. CASE step \in {"waitEvent", "idle"}
    BY <1>1, <1>3, <1>5 DEF Delays, From, Busy
  <1>6. CASE step = "sleep"
    BY <1>1, <1>3, <1>6 DEF Delays, From, Busy
  <1>7. CASE step \in Busy
    BY <1>1, <1>7 DEF Delays, From, Busy
  <1>8. CASE step \notin {"source", "waitEvent", "idle", "sleep"} \cup Busy
    BY <1>8 DEF Delays, Busy
  <1> QED
    BY <1>4, <1>5, <1>6, <1>7, <1>8

\* One event at a time.
LEMMA OneEvent ==
  ASSUME NEW n \in Nat
  PROVE  /\ Enqueue(<<>>, n) = <<n>> /\ <<n>> # <<>>
         /\ Head(<<n>>) = n /\ Tail(<<n>>) = <<>>
  BY BoundsAssumption DEF Enqueue

-----------------------------------------------------------------------------
(***************************************************************************)
(* Types and times.                                                        *)
(***************************************************************************)

\* What happens on the device is a step of ProducerSession; time is none.
LEMMA LoopbackSteps ==
  ASSUME ClockTypeOK, LoopbackNext PROVE [Next]_vars
  <1>1. CASE Producer
    BY <1>1 DEF Producer, Next
  <1>2. CASE Open \/ Reopen
    BY <1>2 DEF Open, Reopen, Next, Consumer
  <1>3. CASE \E size \in Sizes, rate \in Rates : Apply(size, rate)
    BY <1>3 DEF Apply, Next, Consumer
  <1>4. CASE ArmSize \/ ArmInterval
    <2>1. vars' = vars \/ ArmFormat(request.size) \/ ArmRate(request.rate)
      BY <1>4 DEF ArmSize, ArmInterval
    <2>2. request.size \in Sizes /\ request.rate \in Rates
      BY <1>4 DEF ArmSize, ArmInterval, ClientAt, ClockTypeOK
    <2> QED
      BY <2>1, <2>2 DEF Next, Consumer
  <1>5. CASE Tick
    BY <1>5 DEF Tick
  <1> QED
    BY <1>1, <1>2, <1>3, <1>4, <1>5 DEF LoopbackNext, Client

\* The invariant of the producer holds with a clock as it does without.
LEMMA StillFollowing ==
  ASSUME PInv, ClockTypeOK, [LoopbackNext]_loopbackVars PROVE PInv'
  <1>1. [Next]_vars
    BY LoopbackSteps DEF loopbackVars
  <1> QED
    BY <1>1, NextTypeOK, NextCountInv, NextStaleInv, NextScalerInv, NextArmInv DEF PInv

\* A step of the producer ends with a delay of the step it has come to.
LEMMA ProducerDelays ==
  ASSUME PInv, Producer, PInv'
  PROVE  /\ producerDue' \in Nat /\ DueInv'
         /\ pc' = "sleep" => YieldPause <= producerDue'
  <1>1. /\ producerDue' \in Delays(pc', producerRate')
        /\ pc' \in Step /\ producerRate' \in Rates \ {0}
    BY DEF Producer, PInv, TypeOK
  <1> QED
    BY <1>1, DelayBounds DEF DueInv

\* Every step keeps the types of the clock, of Apply's place and its request.
LEMMA NextClockTypeOK ==
  ASSUME ClockTypeOK, PInv, PInv', [LoopbackNext]_loopbackVars PROVE ClockTypeOK'
  <1>a. \A n \in Nat : Milliseconds(n) \in Nat
    BY ClockAssumption DEF Milliseconds
  <1>b. /\ Milliseconds(ShortestUse) \in Nat
        /\ From(ClosePause) \subseteq Nat /\ From(ArmPause) \subseteq Nat
    BY <1>a, ClockAssumption DEF ClosePause, ArmPause, From
  <1> USE <1>b DEF ClockTypeOK, ClientStep
  <1>1. CASE Producer
    BY <1>1, ProducerDelays DEF Producer
  <1>2. CASE Open
    BY <1>2 DEF Open, ClientGoes
  <1>3. CASE \E size \in Sizes, rate \in Rates : Apply(size, rate)
    BY <1>3 DEF Apply, ClientGoes
  <1>4. CASE ArmSize
    BY <1>4 DEF ArmSize, ClientGoes, ClientAt
  <1>5. CASE ArmInterval
    BY <1>5 DEF ArmInterval, ClientGoes, ClientAt
  <1>6. CASE Reopen
    BY <1>6 DEF Reopen, ClientGoes, ClientAt
  <1>7. CASE Tick
    BY <1>7 DEF Tick, Ready
  <1>8. CASE UNCHANGED loopbackVars
    BY <1>8 DEF loopbackVars, clockVars
  <1> QED
    BY <1>1, <1>2, <1>3, <1>4, <1>5, <1>6, <1>7, <1>8 DEF LoopbackNext, Client

\* No step has more time left than it was given: the client does not touch the
\* producer's clock, and a tick only takes from it.
LEMMA NextDueInv ==
  ASSUME ClockTypeOK, DueInv, PInv, PInv', [LoopbackNext]_loopbackVars PROVE DueInv'
  <1>1. CASE Producer
    BY <1>1, ProducerDelays
  <1>2. CASE Client
    <2>1. UNCHANGED <<pc, producerRate, producerDue>>
      BY <1>2 DEF Client, Open, Apply, ArmSize, ArmInterval, Reopen, ClientGoes,
         Attach, Detach, ArmFormat, ArmRate, vars, mainVars
    <2> QED
      BY <2>1 DEF DueInv
  <1>3. CASE Tick
    <2>1. UNCHANGED <<pc, producerRate>> /\ producerDue > 0 /\ producerDue' = producerDue - 1
      BY <1>3 DEF Tick, Ready, vars, mainVars, ClockTypeOK
    <2>2. pc = "source" => SourceWait(producerRate) \in Nat
      BY SourceWaits DEF PInv, TypeOK
    <2>3. Jitter \in Nat /\ YieldPause \in Nat /\ producerDue \in Nat
      BY ClockAssumption DEF YieldPause, Milliseconds, ClockTypeOK
    <2> QED
      BY <2>1, <2>2, <2>3 DEF DueInv
  <1>4. CASE UNCHANGED loopbackVars
    BY <1>4 DEF DueInv, loopbackVars, clockVars, vars, mainVars
  <1> QED
    BY <1>1, <1>2, <1>3, <1>4 DEF LoopbackNext

-----------------------------------------------------------------------------
(***************************************************************************)
(* A producer of which no call fails.                                      *)
(***************************************************************************)
CalmMain ==
    \/ Subscribe \/ Discard
    \/ ConfigurePipeline \/ SetFormat(config) \/ StreamOn
    \/ ApplyNegotiatedSinkFormat \/ SetStreamParm(FrameRate(fps))
    \/ Idle \/ Drain \/ RecycleBuffers \/ Restream
    \/ Session \/ SessionDrain \/ GetParm \/ Acquire \/ Source \/ Push \/ WaitEvent
    \/ Ended \/ Yield \/ Sleep \/ GetFormat \/ GetRate

\* What a step does when nothing fails in it; the driver then takes the format
\* and the interval it is given.
LEMMA NothingFails ==
  ASSUME PInv, CalmInv, failures = 0, failures' = 0, Main PROVE CalmMain
  <1> USE DEF CalmMain
  <1>1. ~MayFail("start") /\ ~MayFail("adjust") /\ ~MayFail("event")
        /\ ~MayFail("stream") /\ ~MayFail("reset")
    BY DEF MayFail
  <1>2. CASE Boot
    BY <1>2 DEF Boot
  <1>3. CASE Start
    <2>1. ASSUME NEW f \in Format, SetFormat(f) PROVE CalmMain
      BY <1>1, <2>1 DEF SetFormat
    <2>2. ASSUME NEW rate \in Rates, SetStreamParm(rate) PROVE CalmMain
      BY <1>1, <2>2 DEF SetStreamParm
    <2> QED
      BY <1>1, <1>3, <2>1, <2>2 DEF Start, StartFails
  <1>4. CASE Waiting
    BY <1>1, <1>4 DEF Waiting, EventFails
  <1>5. CASE StreamUntilIdle
    BY <1>1, <1>5 DEF StreamUntilIdle, StreamFails
  <1>6. CASE PollFails
    BY <1>1, <1>6 DEF PollFails
  <1>7. CASE Reconfigure
    BY <1>1, <1>7 DEF Reconfigure, ResetFails, Recover, CalmInv
  <1>8. CASE Shutdown
    BY <1>8 DEF Shutdown, CalmInv
  <1> QED
    BY <1>2, <1>3, <1>4, <1>5, <1>6, <1>7, <1>8 DEF Main

\* It neither recovers nor ends, and streams where the steps say it does.
LEMMA CalmMainStaysCalm ==
  ASSUME PInv, CalmInv, CalmMain PROVE CalmInv'
  <1> USE DEF CalmInv, Streams, InSession, Goto, KeepStream, KeepOthers, Bgr24
  <1>1. CASE Subscribe
    BY <1>1 DEF Subscribe
  <1>2. CASE Discard
    BY <1>2 DEF Discard
  <1>3. CASE ConfigurePipeline
    BY <1>3 DEF ConfigurePipeline
  <1>4. CASE SetFormat(config)
    BY <1>4 DEF SetFormat
  <1>5. CASE StreamOn
    BY <1>5 DEF StreamOn
  <1>6. CASE ApplyNegotiatedSinkFormat
    BY <1>6 DEF ApplyNegotiatedSinkFormat, NegotiatedScaler
  <1>7. CASE SetStreamParm(FrameRate(fps))
    BY <1>7 DEF SetStreamParm
  <1>8. CASE Idle
    BY <1>8 DEF Idle, Wait, Poll
  <1>9. CASE Drain
    BY <1>9 DEF Drain, Poll, Attached
  <1>10. CASE RecycleBuffers
    BY <1>10 DEF RecycleBuffers
  <1>11. CASE Restream
    BY <1>11 DEF Restream
  <1>12. CASE Session
    BY <1>12 DEF Session, SessionGoesOn
  <1>13. CASE SessionDrain
    BY <1>13 DEF SessionDrain, EventPending, Poll
  <1>14. CASE GetParm
    BY <1>14 DEF GetParm, ResolveFps, FrameRate
  <1>15. CASE Acquire
    BY <1>15 DEF Acquire
  <1>16. CASE Source
    BY <1>16 DEF Source
  <1>17. CASE Push
    BY <1>17 DEF Push
  <1>18. CASE WaitEvent
    BY <1>18 DEF WaitEvent, Wait, Poll, CountWithoutEvent
  <1>19. CASE Ended
    BY <1>19 DEF Ended
  <1>20. CASE Yield
    BY <1>20 DEF Yield
  <1>21. CASE Sleep
    BY <1>21 DEF Sleep
  <1>22. CASE GetFormat
    BY <1>22 DEF GetFormat, SizeToRestart
  <1>23. CASE GetRate
    BY <1>23 DEF GetRate, ResolveFps, FrameRate
  <1> QED
    BY <1>1, <1>2, <1>3, <1>4, <1>5, <1>6, <1>7, <1>8, <1>9, <1>10, <1>11,
       <1>12, <1>13, <1>14, <1>15, <1>16, <1>17, <1>18, <1>19, <1>20, <1>21,
       <1>22, <1>23 DEF CalmMain

\* No step of the producer loses a race: each takes no longer than the part of
\* the client's pause that is left for it.
LEMMA CalmMainKeepsTurns ==
  ASSUME InTime, PInv, ClockTypeOK, DueInv, CalmInv, TurnInv,
         Ready, CalmMain, UNCHANGED <<client, clientDue, request>>,
         PInv', DueInv', producerDue' \in Nat,
         pc' = "sleep" => YieldPause <= producerDue'
  PROVE  TurnInv'
  <1>a. /\ Jitter \in Nat /\ producerDue \in Nat /\ clientDue \in Nat
        /\ ClosePause \in Nat /\ YieldPause \in Nat /\ 3 * Jitter < ClosePause
        /\ ClosePause + Jitter < YieldPause
    BY Pauses DEF ClockTypeOK
  <1>b. /\ SourceWait(producerRate') \in Nat
        /\ SourceWait(producerRate') + 3 * Jitter < ClosePause
    BY SourceWaits DEF InTime, PInv, TypeOK
  <1>c. /\ Departure # <<>> /\ Head(Departure) = 0 /\ Tail(Departure) = <<>>
        /\ Arrival # <<>> /\ Head(Arrival) = 1 /\ Tail(Arrival) = <<>>
    BY OneEvent DEF Departure, Arrival
  <1> USE <1>a, <1>b DEF TurnInv, StartingInv, CapturingInv, ClosedInv,
      ArmingInv, ArmedInv, ApplySucceeds, CalmInv, DueInv, Ready, Woken, Busy, InSession,
      Goto, KeepStream, KeepOthers, clientVars
  <1>1. CASE Subscribe
    BY <1>1, <1>c DEF Subscribe, Departure
  <1>2. CASE Discard
    BY <1>2, <1>c DEF Discard
  <1>3. CASE ConfigurePipeline
    BY <1>3 DEF ConfigurePipeline
  <1>4. CASE SetFormat(config)
    BY <1>4 DEF SetFormat
  <1>5. CASE StreamOn
    BY <1>5 DEF StreamOn
  <1>6. CASE ApplyNegotiatedSinkFormat
    BY <1>6 DEF ApplyNegotiatedSinkFormat, NegotiatedScaler
  <1>7. CASE SetStreamParm(FrameRate(fps))
    BY <1>7 DEF SetStreamParm
  <1>8. CASE Idle
    BY <1>8, <1>c DEF Idle, Wait, Poll
  <1>9. CASE Drain
    <2>1. /\ pc = "drain" /\ UNCHANGED <<clients, device>>
          /\ IF events = <<>>
             THEN /\ UNCHANGED <<events, clientCount>>
                  /\ pc' = IF clientCount > 0 THEN "recycle" ELSE "idle"
             ELSE pc' = pc /\ clientCount' = Head(events) /\ events' = Tail(events)
      BY <1>9 DEF Drain, Poll, Attached
    <2> HIDE DEF Goto, KeepStream, KeepOthers, clientVars, TurnInv, StartingInv,
           CapturingInv, ClosedInv, ArmingInv, ArmedInv, ApplySucceeds, CalmInv,
           DueInv, Ready, Woken, Busy, InSession
    <2>2. ASSUME client = "capturing" PROVE CapturingInv'
      <3>1. /\ clients = 1 /\ clientDue = Milliseconds(ShortestUse)
            /\ events = Arrival \/ (events = <<>> /\ clientCount = 1)
        BY <1>c, <2>1, <2>2 DEF TurnInv, CapturingInv, InSession
      <3>2. IF events = <<>>
            THEN pc' = "recycle" /\ events' = <<>>
            ELSE pc' = "drain" /\ clientCount' = 1 /\ events' = <<>>
        <4>1. CASE events = <<>>
          BY <1>c, <2>1, <3>1, <4>1
        <4>2. CASE events # <<>>
          BY <1>c, <2>1, <3>1, <4>2, Zenon
        <4> QED
          BY <4>1, <4>2
      <3> QED
        BY <2>1, <3>1, <3>2 DEF CapturingInv
    <2>3. client = "starting" => StartingInv'
      BY <1>c, <2>1 DEF TurnInv, StartingInv
    <2>4. client = "armed" => ArmedInv'
      BY <1>c, <2>1 DEF TurnInv, ArmedInv
    <2>5. client \notin {"arming", "closed"}
      BY <2>1 DEF TurnInv, ArmingInv, ClosedInv
    <2> QED
      BY <2>2, <2>3, <2>4, <2>5 DEF TurnInv, ApplySucceeds
  <1>10. CASE RecycleBuffers
    BY <1>10 DEF RecycleBuffers
  <1>11. CASE Restream
    BY <1>11 DEF Restream
  <1>12. CASE Session
    BY <1>12 DEF Session, SessionGoesOn
  <1>13. CASE SessionDrain
    <2>1. /\ pc = "sessionDrain" /\ UNCHANGED <<clients, device>>
          /\ IF events = <<>>
             THEN /\ UNCHANGED <<events, clientCount>>
                  /\ pc' = IF clientCount = 0 THEN "ended" ELSE "getParm"
             ELSE pc' = pc /\ clientCount' = Head(events) /\ events' = Tail(events)
      BY <1>13 DEF SessionDrain, EventPending, Poll
    <2> HIDE DEF Goto, KeepStream, KeepOthers, clientVars, TurnInv, StartingInv,
           CapturingInv, ClosedInv, ArmingInv, ArmedInv, ApplySucceeds, CalmInv,
           DueInv, Ready, Woken, Busy, InSession
    <2>2. client = "capturing" => CapturingInv'
      BY <1>c, <2>1 DEF TurnInv, CapturingInv, InSession
    <2>3. client = "closed" => ClosedInv'
      BY <1>c, <2>1 DEF TurnInv, ClosedInv
    <2>4. client \notin {"starting", "arming", "armed"}
      BY <2>1 DEF TurnInv, StartingInv, ArmingInv, ArmedInv
    <2> QED
      BY <2>2, <2>3, <2>4 DEF TurnInv, ApplySucceeds
  <1>14. CASE GetParm
    BY <1>14 DEF GetParm, ResolveFps, FrameRate
  <1>15. CASE Acquire
    <2>1. /\ pc = "acquire" /\ pc' \in {"source", "waitEvent"}
          /\ UNCHANGED <<clients, events, clientCount, device>>
      BY <1>15 DEF Acquire
    <2> HIDE DEF Goto, KeepStream, KeepOthers, clientVars, TurnInv, StartingInv,
           CapturingInv, ClosedInv, ArmingInv, ArmedInv, ApplySucceeds, CalmInv,
           DueInv, Ready, Woken, Busy, InSession
    <2>2. client = "capturing" => CapturingInv'
      BY <2>1 DEF TurnInv, CapturingInv, InSession
    <2>3. ASSUME client = "closed" PROVE ClosedInv'
      <3>1. /\ clients = 0 /\ clientDue <= ClosePause + Jitter
            /\ events = Departure /\ clientCount = 1 /\ ClosePause <= clientDue
        BY <2>1, <2>3 DEF TurnInv, ClosedInv
      <3>2. pc' = "source" => producerDue' + 2 * Jitter < clientDue
        <4>1. pc' = "source" => producerDue' <= SourceWait(producerRate') + Jitter
          BY DEF DueInv
        <4>2. ASSUME NEW wait \in Nat, wait + 3 * Jitter < ClosePause,
                     NEW due \in Nat, due <= wait + Jitter
              PROVE  due + 2 * Jitter < clientDue
          BY <3>1, <4>2
        <4> QED
          BY <4>1, <4>2
      <3>3. pc' = "waitEvent" => Jitter < clientDue
        BY <3>1
      <3> QED
        BY <2>1, <3>1, <3>2, <3>3 DEF ClosedInv
    <2>4. client \notin {"starting", "arming", "armed"}
      BY <2>1 DEF TurnInv, StartingInv, ArmingInv, ArmedInv
    <2> QED
      BY <2>2, <2>3, <2>4 DEF TurnInv, ApplySucceeds
  <1>16. CASE Source
    <2>1. /\ pc = "source" /\ pc' \in {"push", "waitEvent"} /\ producerDue = 0
          /\ UNCHANGED <<clients, events, clientCount, device>>
      BY <1>16 DEF Source
    <2> HIDE DEF Goto, KeepStream, KeepOthers, clientVars, TurnInv, StartingInv,
           CapturingInv, ClosedInv, ArmingInv, ArmedInv, ApplySucceeds, CalmInv,
           DueInv, Ready, Woken, Busy, InSession
    <2>2. client = "capturing" => CapturingInv'
      BY <2>1 DEF TurnInv, CapturingInv, InSession
    <2>3. ASSUME client = "closed" PROVE ClosedInv'
      <3>1. /\ clients = 0 /\ clientDue <= ClosePause + Jitter
            /\ events = Departure /\ clientCount = 1 /\ 2 * Jitter < clientDue
        BY <2>1, <2>3 DEF TurnInv, ClosedInv
      <3>2. pc' = "push" => producerDue' + Jitter < clientDue
        <4>1. pc' = "push" => producerDue' <= Jitter
          BY DEF DueInv, Busy
        <4>2. ASSUME NEW due \in Nat, due <= Jitter PROVE due + Jitter < clientDue
          BY <3>1, <4>2
        <4> QED
          BY <4>1, <4>2
      <3>3. pc' = "waitEvent" => Jitter < clientDue
        BY <3>1
      <3> QED
        BY <2>1, <3>1, <3>2, <3>3 DEF ClosedInv
    <2>4. client \notin {"starting", "arming", "armed"}
      BY <2>1 DEF TurnInv, StartingInv, ArmingInv, ArmedInv
    <2> QED
      BY <2>2, <2>3, <2>4 DEF TurnInv, ApplySucceeds
  <1>17. CASE Push
    <2>1. /\ pc = "push" /\ pc' \in {"session", "waitEvent"} /\ producerDue = 0
          /\ UNCHANGED <<clients, events, clientCount, device>>
      BY <1>17 DEF Push
    <2> HIDE DEF Goto, KeepStream, KeepOthers, clientVars, TurnInv, StartingInv,
           CapturingInv, ClosedInv, ArmingInv, ArmedInv, ApplySucceeds, CalmInv,
           DueInv, Ready, Woken, Busy, InSession
    <2>2. client = "capturing" => CapturingInv'
      BY <2>1 DEF TurnInv, CapturingInv, InSession
    <2>3. ASSUME client = "closed" PROVE ClosedInv'
      <3>1. /\ clients = 0 /\ clientDue <= ClosePause + Jitter
            /\ events = Departure /\ clientCount = 1 /\ Jitter < clientDue
        BY <2>1, <2>3 DEF TurnInv, ClosedInv
      <3> QED
        BY <2>1, <3>1 DEF ClosedInv
    <2>4. client \notin {"starting", "arming", "armed"}
      BY <2>1 DEF TurnInv, StartingInv, ArmingInv, ArmedInv
    <2> QED
      BY <2>2, <2>3, <2>4 DEF TurnInv, ApplySucceeds
  <1>18. CASE WaitEvent
    BY <1>18, <1>c DEF WaitEvent, Wait, Poll, CountWithoutEvent
  <1>19. CASE Ended
    BY <1>19 DEF Ended
  <1>20. CASE Yield
    <2>1. /\ pc = "yield" /\ pc' = "sleep"
          /\ UNCHANGED <<clients, events, clientCount, device>>
      BY <1>20 DEF Yield
    <2> HIDE DEF Goto, KeepStream, KeepOthers, clientVars, TurnInv, StartingInv,
           CapturingInv, ClosedInv, ArmingInv, ArmedInv, ApplySucceeds, CalmInv,
           DueInv, Ready, Woken, Busy, InSession
    <2>2. client = "capturing" => CapturingInv'
      BY <2>1 DEF TurnInv, CapturingInv, InSession
    <2>3. client = "closed" => ClosedInv'
      BY <2>1 DEF TurnInv, ClosedInv
    <2>4. client \notin {"starting", "arming", "armed"}
      BY <2>1 DEF TurnInv, StartingInv, ArmingInv, ArmedInv
    <2> QED
      BY <2>2, <2>3, <2>4 DEF TurnInv, ApplySucceeds
  <1>21. CASE Sleep
    BY <1>21 DEF Sleep
  <1>22. CASE GetFormat
    BY <1>22 DEF GetFormat, SizeToRestart
  <1>23. CASE GetRate
    BY <1>23 DEF GetRate, ResolveFps, FrameRate
  <1> QED
    BY <1>1, <1>2, <1>3, <1>4, <1>5, <1>6, <1>7, <1>8, <1>9, <1>10, <1>11,
       <1>12, <1>13, <1>14, <1>15, <1>16, <1>17, <1>18, <1>19, <1>20, <1>21,
       <1>22, <1>23 DEF CalmMain

\* No step of the producer leaves what the client has armed.
LEMMA CalmMainServes ==
  ASSUME PInv, ClockTypeOK, CalmInv, TurnInv, ServedInv, CalmMain,
         UNCHANGED <<client, clientDue, request>>
  PROVE  ServedInv'
  <1>a. client = "armed" => request.size # NoSize
    BY SizesAssumption DEF ClockTypeOK
  <1>b. client = "capturing" => pc # "getFormat"
    BY DEF TurnInv, CapturingInv, InSession
  <1>c. device \in [size : Sizes \cup {NoSize}, pixel : {"bgr24", "other"}, rate : Rates]
    BY DEF PInv, TypeOK
  <1>d. request.rate > 0 => FrameRate(request.rate) = request.rate
    BY DEF FrameRate
  <1> USE <1>a, <1>b, <1>c, <1>d DEF ServedInv, Bgr24, Goto, KeepStream, KeepOthers
  <1>1. CASE Subscribe
    BY <1>1 DEF Subscribe
  <1>2. CASE Discard
    BY <1>2 DEF Discard
  <1>3. CASE ConfigurePipeline
    BY <1>3 DEF ConfigurePipeline
  <1>4. CASE SetFormat(config)
    BY <1>4 DEF SetFormat
  <1>5. CASE StreamOn
    BY <1>5 DEF StreamOn
  <1>6. CASE ApplyNegotiatedSinkFormat
    BY <1>6 DEF ApplyNegotiatedSinkFormat, NegotiatedScaler
  <1>7. CASE SetStreamParm(FrameRate(fps))
    BY <1>7 DEF SetStreamParm
  <1>8. CASE Idle
    BY <1>8 DEF Idle, Wait, Poll
  <1>9. CASE Drain
    BY <1>9 DEF Drain, Poll, Attached
  <1>10. CASE RecycleBuffers
    BY <1>10 DEF RecycleBuffers
  <1>11. CASE Restream
    BY <1>11 DEF Restream
  <1>12. CASE Session
    BY <1>12 DEF Session, SessionGoesOn
  <1>13. CASE SessionDrain
    BY <1>13 DEF SessionDrain, EventPending, Poll
  <1>14. CASE GetParm
    BY <1>14 DEF GetParm, ResolveFps, FrameRate
  <1>15. CASE Acquire
    BY <1>15 DEF Acquire
  <1>16. CASE Source
    BY <1>16 DEF Source
  <1>17. CASE Push
    BY <1>17 DEF Push
  <1>18. CASE WaitEvent
    BY <1>18 DEF WaitEvent, Wait, Poll, CountWithoutEvent
  <1>19. CASE Ended
    BY <1>19 DEF Ended
  <1>20. CASE Yield
    BY <1>20 DEF Yield
  <1>21. CASE Sleep
    BY <1>21 DEF Sleep, CalmInv
  <1>22. CASE GetFormat
    BY <1>22 DEF GetFormat, SizeToRestart
  <1>23. CASE GetRate
    BY <1>23 DEF GetRate, ResolveFps, FrameRate
  <1> QED
    BY <1>1, <1>2, <1>3, <1>4, <1>5, <1>6, <1>7, <1>8, <1>9, <1>10, <1>11,
       <1>12, <1>13, <1>14, <1>15, <1>16, <1>17, <1>18, <1>19, <1>20, <1>21,
       <1>22, <1>23 DEF CalmMain

-----------------------------------------------------------------------------
(***************************************************************************)
(* The client's steps, and time.                                           *)
(***************************************************************************)

\* The client changes nothing that the producer runs on.
LEMMA ClientKeepsCalm ==
  ASSUME CalmInv, Client PROVE CalmInv'
  <1>1. UNCHANGED <<pc, phase, quit, config, streaming>>
    BY DEF Client, Open, Apply, ArmSize, ArmInterval, Reopen, Attach, Detach,
       ArmFormat, ArmRate, vars, mainVars
  <1> QED
    BY <1>1 DEF CalmInv, Streams, InSession

\* The first open finds a producer that has yet to look for events.
LEMMA OpenKeepsTurns ==
  ASSUME PInv, CalmInv, TurnInv, Open PROVE TurnInv' /\ ServedInv'
  <1>1. /\ client = "starting" /\ client' = "capturing" /\ streaming
        /\ clientDue' = Milliseconds(ShortestUse) /\ UNCHANGED <<pc, request>>
        /\ clients' = clients + 1
        /\ events' = IF Subscribed THEN Enqueue(events, clients + 1) ELSE events
    BY DEF Open, ClientAt, ClientGoes, Attach, Notify, mainVars
  <1>2. StartingInv
    BY <1>1 DEF TurnInv
  <1>3. pc \in {"apply", "setParm", "idle", "drain"} /\ clients = 0 /\ events = <<>>
    BY <1>1, <1>2 DEF StartingInv, CalmInv, Streams, InSession
  <1>4. events' = Arrival /\ clients' = 1
    BY <1>1, <1>3, OneEvent DEF Subscribed, Arrival
  <1>5. CapturingInv'
    BY <1>1, <1>3, <1>4 DEF CapturingInv
  <1>6. request' = NoRequest
    BY <1>1, <1>2 DEF StartingInv
  <1> QED
    BY <1>1, <1>5, <1>6 DEF TurnInv, ApplySucceeds, ServedInv, NoRequest

\* Apply comes in a session, whose producer has the time of InTime to leave.
LEMMA ApplyKeepsTurns ==
  ASSUME InTime, OneClient, PInv, ClockTypeOK, DueInv, TurnInv,
         NEW size \in Sizes, NEW rate \in Rates, Apply(size, rate)
  PROVE  TurnInv' /\ ServedInv'
  <1>1. /\ client = "capturing" /\ clientDue = 0 /\ client' = "closed"
        /\ clientDue' \in From(ClosePause)
        /\ UNCHANGED <<pc, clientCount, producerRate, producerDue>>
        /\ clients' = clients - 1
        /\ events' = IF Subscribed THEN Enqueue(events, clients - 1) ELSE events
    BY DEF Apply, ClientAt, ClientGoes, Detach, Notify, mainVars
  <1>2. InSession /\ clients = 1 /\ events = <<>> /\ clientCount = 1
    BY <1>1, OneEvent DEF TurnInv, CapturingInv, OneClient, InSession
  <1>3. events' = Departure /\ clients' = 0
    BY <1>1, <1>2, OneEvent DEF Subscribed, Departure, InSession
  <1>4. /\ ClosePause \in Nat /\ Jitter \in Nat /\ 3 * Jitter < ClosePause
    BY Pauses
  <1>5. clientDue' \in Nat /\ ClosePause <= clientDue' /\ clientDue' <= ClosePause + Jitter
    BY <1>1, <1>4 DEF From
  <1>6. pc = "source" => producerDue + 2 * Jitter < clientDue'
    <2>1. ASSUME pc = "source"
          PROVE  /\ SourceWait(producerRate) \in Nat /\ producerDue \in Nat
                 /\ SourceWait(producerRate) + 3 * Jitter < ClosePause
                 /\ producerDue <= SourceWait(producerRate) + Jitter
      BY <2>1, SourceWaits DEF InTime, PInv, TypeOK, DueInv, ClockTypeOK
    <2>2. ASSUME NEW wait \in Nat, wait + 3 * Jitter < ClosePause,
                 NEW due \in Nat, due <= wait + Jitter,
                 NEW left \in Nat, ClosePause <= left
          PROVE  due + 2 * Jitter < left
      BY <1>4, <2>2
    <2> QED
      BY <1>5, <2>1, <2>2
  <1>7. pc = "push" => producerDue + Jitter < clientDue'
    <2>1. pc = "push" => producerDue \in Nat /\ producerDue <= Jitter
      BY DEF DueInv, Busy, ClockTypeOK
    <2>2. ASSUME NEW due \in Nat, due <= Jitter, NEW left \in Nat, ClosePause <= left
          PROVE  due + Jitter < left
      BY <1>4, <2>2
    <2> QED
      BY <1>5, <2>1, <2>2
  <1>8. Jitter < clientDue'
    <2>1. ASSUME NEW left \in Nat, ClosePause <= left PROVE Jitter < left
      BY <1>4, <2>1
    <2> QED
      BY <1>5, <2>1
  <1>9. ClosedInv'
    BY <1>1, <1>2, <1>3, <1>5, <1>6, <1>7, <1>8 DEF ClosedInv, InSession
  <1> QED
    BY <1>1, <1>9 DEF TurnInv, ApplySucceeds, ServedInv

\* The producer has stopped by the time the format is set, and still sleeps.
LEMMA ArmSizeKeepsTurns ==
  ASSUME InTime, PInv, ClockTypeOK, DueInv, CalmInv, TurnInv, ArmSize
  PROVE  TurnInv' /\ ServedInv'
  <1>1. client = "closed" /\ clientDue = 0
    BY DEF ArmSize, ClientAt
  <1>2. ClosedInv
    BY <1>1 DEF TurnInv
  <1>3. /\ clients = 0 /\ events = <<>>
        /\ pc = "sleep" /\ 0 < producerDue
    <2>1. ASSUME NEW due \in Nat, NEW j \in Nat PROVE ~(j < 0) /\ ~(due + j < 0) /\ ~(due < 0)
      BY <2>1
    <2>2. /\ producerDue \in Nat /\ Jitter \in Nat /\ 2 * Jitter \in Nat
          /\ ~(Jitter < 0) /\ ~(producerDue + Jitter < 0) /\ ~(producerDue + 2 * Jitter < 0)
          /\ ~(producerDue < 0)
      BY <2>1, ClockAssumption DEF ClockTypeOK
    <2>3. pc \notin {"getParm", "acquire"}
      <3>1. ClosePause \in Nat /\ ClosePause # 0
        BY Pauses
      <3> QED
        BY <1>1, <1>2, <3>1 DEF ClosedInv
    <2> QED
      BY <1>1, <1>2, <2>2, <2>3 DEF ClosedInv
  <1>4. ~streaming
    BY <1>3 DEF CalmInv, Streams, InSession
  <1>5. /\ client' = "arming" /\ clientDue' = 0
        /\ UNCHANGED <<pc, producerDue, clients, events, request>>
        /\ device' = [device EXCEPT !.size = request.size, !.pixel = "bgr24"]
    BY <1>4 DEF ArmSize, ArmFormat, ClientGoes, mainVars
  <1>6. device'.size = request.size
    BY <1>5 DEF PInv, TypeOK
  <1>7. ArmingInv'
    BY <1>3, <1>5, <1>6 DEF ArmingInv
  <1> QED
    BY <1>5, <1>7 DEF TurnInv, ApplySucceeds, ServedInv

\* The interval follows at once, and the client waits for longer than the
\* producer will sleep and start.
LEMMA ArmIntervalKeepsTurns ==
  ASSUME InTime, PInv, ClockTypeOK, DueInv, TurnInv, ArmInterval
  PROVE  TurnInv' /\ ServedInv'
  <1>1. /\ client = "arming" /\ client' = "armed" /\ clientDue' \in From(ArmPause)
        /\ UNCHANGED <<pc, producerDue, clients, events, request>>
        /\ device' = [device EXCEPT !.rate = request.rate]
    BY DEF ArmInterval, ClientAt, ArmRate, ClientGoes, mainVars, clientVars
  <1>2. ArmingInv
    BY <1>1 DEF TurnInv
  <1>3. /\ ArmPause \in Nat /\ YieldPause \in Nat /\ Jitter \in Nat
        /\ YieldPause + 2 * Jitter < ArmPause
    BY Pauses
  <1>4. clientDue' \in Nat /\ ArmPause <= clientDue'
    BY <1>1, <1>3 DEF From
  <1>5. producerDue + Jitter < clientDue'
    <2>1. producerDue \in Nat /\ producerDue <= YieldPause + Jitter
      BY <1>2 DEF ArmingInv, DueInv, ClockTypeOK
    <2>2. ASSUME NEW due \in Nat, due <= YieldPause + Jitter, NEW left \in Nat, ArmPause <= left
          PROVE  due + Jitter < left
      BY <1>3, <2>2
    <2> QED
      BY <1>4, <2>1, <2>2
  <1>6. ArmedInv'
    BY <1>1, <1>2, <1>5 DEF ArmingInv, ArmedInv
  <1>7. device'.size = request.size /\ device'.rate = request.rate
    BY <1>1, <1>2 DEF ArmingInv, PInv, TypeOK
  <1>8. ServedInv'
    BY <1>1, <1>2, <1>7 DEF ArmingInv, ServedInv
  <1> QED
    BY <1>1, <1>6, <1>8 DEF TurnInv, ApplySucceeds

\* The producer streams again by the time the client opens.
LEMMA ReopenKeepsTurns ==
  ASSUME PInv, ClockTypeOK, CalmInv, TurnInv, ServedInv, Reopen
  PROVE  TurnInv' /\ ServedInv'
  <1>1. client = "armed" /\ clientDue = 0
    BY DEF Reopen, ClientAt
  <1>2. ArmedInv
    BY <1>1 DEF TurnInv
  <1>3. /\ clients = 0 /\ events = <<>>
        /\ pc \in {"apply", "setParm", "idle", "drain"}
    <2>1. ASSUME NEW due \in Nat, NEW j \in Nat PROVE ~(j < 0) /\ ~(due + j < 0) /\ ~(due < 0)
      BY <2>1
    <2>2. ~(Jitter < 0) /\ ~(producerDue + Jitter < 0) /\ ~(producerDue < 0)
      BY <2>1, ClockAssumption DEF ClockTypeOK
    <2> QED
      BY <1>1, <1>2, <2>2 DEF ArmedInv
  <1>4. streaming
    BY <1>3 DEF CalmInv, Streams
  <1>5. /\ client' = "capturing" /\ clientDue' = Milliseconds(ShortestUse)
        /\ UNCHANGED mainVars /\ UNCHANGED <<device, request>>
        /\ clients' = clients + 1
        /\ events' = IF Subscribed THEN Enqueue(events, clients + 1) ELSE events
    BY <1>4 DEF Reopen, ClientGoes, Attach, Notify
  <1>6. events' = Arrival /\ clients' = 1
    BY <1>3, <1>5, OneEvent DEF Subscribed, Arrival
  <1>7. CapturingInv'
    BY <1>3, <1>5, <1>6 DEF CapturingInv, mainVars
  <1>8. ServedInv'
    BY <1>1, <1>5 DEF ServedInv, mainVars
  <1> QED
    BY <1>5, <1>7, <1>8 DEF TurnInv, ApplySucceeds

\* A tick takes from both, and leaves what is between them.
LEMMA TickSpends ==
  ASSUME NEW due \in Nat \ {0}, NEW left \in Nat \ {0}, NEW more \in Nat
  PROVE  /\ due + more < left => (due - 1) + more < left - 1
         /\ due < left => due - 1 < left - 1
         /\ left < due => left - 1 < due - 1
  OBVIOUS

\* Time runs down on both sides alike; it stands still while the producer has
\* a step to take at once, as while the client's event waits to be seen.
LEMMA TickKeepsTurns ==
  ASSUME OneClient, PInv, ClockTypeOK, DueInv, CalmInv, TurnInv, ServedInv, Tick
  PROVE  CalmInv' /\ TurnInv' /\ ServedInv'
  <1>1. /\ producerDue > 0 /\ producerDue' = producerDue - 1
        /\ pc \in {"idle", "waitEvent"} => events = <<>>
        /\ Pausing => clientDue > 0
        /\ clientDue' = IF clientDue > 0 THEN clientDue - 1 ELSE 0
        /\ UNCHANGED <<vars, client, request>>
    BY DEF Tick, Ready, Woken, ClockTypeOK
  <1>2. CalmInv' /\ ServedInv'
    BY <1>1 DEF CalmInv, Streams, InSession, ServedInv, vars, mainVars
  <1>3. pc \in {"source", "waitEvent", "idle", "sleep"} \cup Busy
    BY <1>1 DEF DueInv
  <1>4. UNCHANGED <<pc, clientCount, clients, events, device>>
    BY <1>1 DEF vars, mainVars, clientVars
  <1>5. client = "starting" => StartingInv'
    BY <1>1, <1>4 DEF TurnInv, StartingInv
  <1>a. Arrival # <<>> /\ Departure # <<>>
    BY OneEvent DEF Arrival, Departure
  <1>b. /\ producerDue \in Nat \ {0} /\ Jitter \in Nat /\ 2 * Jitter \in Nat
        /\ clientDue \in Nat /\ ClosePause + Jitter \in Nat
    BY <1>1, ClockAssumption DEF ClockTypeOK, ClosePause, Milliseconds
  <1>c. Pausing =>
          /\ clientDue' \in Nat
          /\ clientDue <= ClosePause + Jitter => clientDue' <= ClosePause + Jitter
          /\ producerDue + 2 * Jitter < clientDue => producerDue' + 2 * Jitter < clientDue'
          /\ producerDue + Jitter < clientDue => producerDue' + Jitter < clientDue'
          /\ producerDue < clientDue => producerDue' < clientDue'
          /\ clientDue < producerDue => clientDue' < producerDue'
    <2>1. ASSUME Pausing PROVE clientDue \in Nat \ {0} /\ clientDue' = clientDue - 1
      BY <1>1, <1>b, <2>1
    <2>2. ASSUME NEW left \in Nat \ {0}, NEW most \in Nat
          PROVE  left - 1 \in Nat /\ (left <= most => left - 1 <= most)
      BY <2>2
    <2> QED
      BY <1>1, <1>b, <2>1, <2>2, TickSpends
  <1>6. client = "capturing" => CapturingInv'
    BY <1>1, <1>3, <1>4, <1>a DEF TurnInv, CapturingInv, InSession, Busy
  <1>7. client = "closed" => ClosedInv'
    BY <1>1, <1>3, <1>4, <1>a, <1>c DEF TurnInv, ClosedInv, Busy, Pausing
  <1>8. client # "arming"
    BY <1>1 DEF TurnInv, ArmingInv, Pausing
  <1>9. client = "armed" => ArmedInv'
    BY <1>3, <1>4, <1>c DEF TurnInv, ArmedInv, Busy, Pausing
  <1> QED
    BY <1>1, <1>2, <1>5, <1>6, <1>7, <1>8, <1>9 DEF TurnInv, ApplySucceeds

-----------------------------------------------------------------------------
(***************************************************************************)
(* The invariant, and what follows from it.                                *)
(***************************************************************************)

\* A call that has failed stays one.
LEMMA FailuresStay ==
  ASSUME PInv, failures # 0, [LoopbackNext]_loopbackVars PROVE failures' # 0
  <1>1. failures \in Nat
    BY BoundsAssumption DEF PInv, TypeOK
  <1>2. ASSUME Main PROVE UNCHANGED failures \/ failures' = failures + 1
    <2> USE DEF faults, MayFail
    <2>1. CASE Boot \/ Start
      BY <2>1 DEF Boot, Start, Subscribe, Discard, ConfigurePipeline, SetFormat,
         StreamOn, StartFails, ApplyNegotiatedSinkFormat, SetStreamParm
    <2>2. CASE Waiting
      BY <2>2 DEF Waiting, Idle, Drain, EventFails, RecycleBuffers, Restream
    <2>3. CASE StreamUntilIdle
      BY <2>3 DEF StreamUntilIdle, Session, SessionDrain, GetParm, Acquire, Source,
         Push, WaitEvent, StreamFails
    <2>4. CASE PollFails \/ Shutdown
      BY <2>4 DEF PollFails, Shutdown
    <2>5. CASE Reconfigure
      BY <2>5 DEF Reconfigure, Ended, Yield, Sleep, GetFormat, GetRate, ResetFails, Recover
    <2> QED
      BY <1>2, <2>1, <2>2, <2>3, <2>4, <2>5 DEF Main
  <1>3. CASE Producer
    BY <1>1, <1>2, <1>3 DEF Producer
  <1>4. CASE Client
    BY <1>4 DEF Client, Open, Apply, ArmSize, ArmInterval, Reopen, Attach, Detach,
       ArmFormat, ArmRate, vars, faults
  <1>5. CASE Tick \/ UNCHANGED loopbackVars
    BY <1>5 DEF Tick, loopbackVars, vars, faults
  <1> QED
    BY <1>3, <1>4, <1>5 DEF LoopbackNext

\* The producer subscribes and starts, and the client has yet to open.
LEMMA InitLInv ==
  ASSUME OneClient, LoopbackInit PROVE LInv
  <1>1. PInv
    BY InitPInv DEF LoopbackInit
  <1>2. ClockTypeOK
    BY SizesAssumption, RatesAssumption DEF LoopbackInit, ClockTypeOK, ClientStep, NoRequest
  <1>3. DueInv
    BY DEF LoopbackInit, Init, DueInv, Busy
  <1>4. CalmInv
    BY DEF LoopbackInit, Init, CalmInv, Streams, InSession, Bgr24
  <1>5. TurnInv
    BY DEF LoopbackInit, Init, OneClient, TurnInv, StartingInv, ApplySucceeds
  <1>6. ServedInv
    BY DEF LoopbackInit, ServedInv
  <1> QED
    BY <1>1, <1>2, <1>3, <1>4, <1>5, <1>6 DEF LInv

\* Every step of either program, and the time between them, keeps LInv.
LEMMA NextLInv ==
  ASSUME InTime, OneClient, LInv, [LoopbackNext]_loopbackVars PROVE LInv'
  <1>1. PInv /\ ClockTypeOK /\ DueInv
    BY DEF LInv
  <1>2. PInv' /\ ClockTypeOK' /\ DueInv'
    BY <1>1, StillFollowing, NextClockTypeOK, NextDueInv
  <1>3. ASSUME failures' = 0 PROVE CalmInv' /\ TurnInv' /\ ServedInv'
    <2>1. failures = 0 /\ CalmInv /\ TurnInv /\ ServedInv
      BY <1>1, <1>3, FailuresStay DEF LInv
    <2>2. CASE Producer
      <3>1. Ready /\ CalmMain /\ UNCHANGED <<client, clientDue, request>>
        BY <1>1, <1>3, <2>1, <2>2, NothingFails DEF Producer
      <3>2. producerDue' \in Nat /\ (pc' = "sleep" => YieldPause <= producerDue')
        BY <1>1, <1>2, <2>2, ProducerDelays
      <3> QED
        BY <1>1, <1>2, <2>1, <3>1, <3>2, CalmMainStaysCalm, CalmMainKeepsTurns,
           CalmMainServes
    <2>3. CASE Client
      <3>1. CalmInv'
        BY <2>1, <2>3, ClientKeepsCalm
      <3>2. TurnInv' /\ ServedInv'
        BY <1>1, <2>1, <2>3, OpenKeepsTurns, ApplyKeepsTurns, ArmSizeKeepsTurns,
           ArmIntervalKeepsTurns, ReopenKeepsTurns DEF Client
      <3> QED
        BY <3>1, <3>2
    <2>4. CASE Tick
      BY <1>1, <2>1, <2>4, TickKeepsTurns
    <2>5. CASE UNCHANGED loopbackVars
      BY <2>1, <2>5 DEF CalmInv, Streams, InSession, TurnInv, StartingInv, CapturingInv,
         ClosedInv, ArmingInv, ArmedInv, ApplySucceeds, ServedInv, loopbackVars,
         clockVars, vars, mainVars, clientVars
    <2> QED
      BY <2>2, <2>3, <2>4, <2>5 DEF LoopbackNext
  <1> QED
    BY <1>2, <1>3 DEF LInv

\* With a clock the producer does nothing it would not do without: what
\* ProducerSessionProofs shows of each behaviour, and each step, holds of the
\* two programs whatever their times.
THEOREM TimedProducer == LoopbackSpec => Init /\ [][Next]_vars
  <1>1. LoopbackInit => Init /\ PInv /\ ClockTypeOK
    <2>1. LoopbackInit => ClockTypeOK
      BY SizesAssumption, RatesAssumption DEF LoopbackInit, ClockTypeOK, ClientStep,
         NoRequest
    <2> QED
      BY <2>1, InitPInv DEF LoopbackInit
  <1>2. PInv /\ ClockTypeOK /\ [LoopbackNext]_loopbackVars => PInv' /\ ClockTypeOK'
    BY StillFollowing, NextClockTypeOK
  <1>3. ClockTypeOK /\ [LoopbackNext]_loopbackVars => [Next]_vars
    BY LoopbackSteps DEF loopbackVars
  <1> QED
    BY <1>1, <1>2, <1>3, PTL DEF LoopbackSpec

\* LInv holds of the two programs whenever the times fit.
THEOREM InTurn ==
  ASSUME InTime, OneClient PROVE LoopbackSpec => []LInv
  <1>1. LoopbackInit => LInv
    BY InitLInv
  <1>2. LInv /\ [LoopbackNext]_loopbackVars => LInv'
    BY NextLInv
  <1> QED
    BY <1>1, <1>2, PTL DEF LoopbackSpec

\* No arming comes while the output streams and no open while it does not, as
\* long as no call has failed: for any jitter that InTime leaves room for, the
\* pauses of the code are long enough.
THEOREM ApplyIsNotRefused ==
  ASSUME InTime, OneClient
  PROVE  LoopbackSpec => [](failures = 0 => ApplySucceeds)
  <1>1. LInv => (failures = 0 => ApplySucceeds)
    BY DEF LInv, TurnInv
  <1> QED
    BY <1>1, InTurn, PTL

\* The session after an Apply is in the size and at the rate that were asked
\* for, as long as no call has failed; the client asks for one frame a second
\* at least.
THEOREM ApplyIsServed ==
  ASSUME InTime, OneClient, 0 \notin Rates
  PROVE  LoopbackSpec => [](failures = 0 => ServedAsRequested)
  <1>1. LInv => (failures = 0 => ServedAsRequested)
    <2>1. ASSUME ClockTypeOK PROVE request.rate > 0
      <3>1. request.rate \in Rates
        BY <2>1 DEF ClockTypeOK
      <3>2. request.rate \in Nat \ {0}
        BY <3>1, RatesAssumption
      <3> QED
        BY <3>2
    <2> QED
      BY <2>1 DEF LInv, ServedInv, ServedAsRequested
  <1> QED
    BY <1>1, InTurn, PTL

=============================================================================
