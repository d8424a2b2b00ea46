-------------------------- MODULE ProducerSessionProofs --------------------------
(***************************************************************************)
(* The safety properties of ProducerSession, for any number of consumers,  *)
(* any depth of the event queue and any of its calls failing.              *)
(***************************************************************************)
EXTENDS ProducerSession, SequenceTheorems, TLAPS

\* The newest event, dropped by nobody, carries the count of now; where none
\* is waiting, what main has made of the last one is right.
CountInv ==
    /\ pc = "subscribe" => events = <<>>
    /\ Subscribed /\ events # <<>> => events[Len(events)] = clients
    /\ pc \in {"recycle", "restream"} => clientCount > 0
    /\ events = <<>> =>
           /\ pc = "drain" /\ clientCount > 0 => clients > 0
           /\ pc \in {"recycle", "restream"} => clients > 0
           /\ InSession => (clientCount > 0 <=> clients > 0)

\* A stale frame is queued in the last round of a session, and nobody captures.
StaleInv ==
    /\ stale <= 1
    /\ stale > 0 => clients = 0
    /\ pc \in {"getParm", "acquire", "source", "push", "waitEvent"} => stale = 0

Settled == InSession \/ pc \in {"setParm", "idle", "drain", "recycle", "restream"}

\* Once applyNegotiatedSinkFormat has run, scaler, sink and main agree, and
\* but for the moment inside recycleBuffers the sink streams.
ScalerInv ==
    /\ Settled => scaler = config /\ config = Bgr24(wanted)
    /\ Settled \/ pc = "apply" => streaming \/ pc = "restream"

\* A format that G_FMT could see is what it answers, then what main wants,
\* then what the sink is configured with.
ArmInv ==
    regular /\ armed.seen =>
        /\ armed.size \in Sizes /\ device.size = armed.size
        /\ pc \notin {"sleep", "getFormat", "shutdown", "exited"} => wanted = armed.size
        /\ Settled \/ pc \in {"setFormat", "streamOn", "apply"} =>
               config.size = armed.size

\* Until a call fails outside a start, whoever captures is in a session, has an
\* event in the queue, or has just been counted, or the program is ending.
IdleInv ==
    regular =>
        /\ pc \in {"subscribe", "discard"} => clients = 0 /\ ~streaming
        /\ events = <<>> /\ ~InSession =>
               \/ clients = 0
               \/ pc \in {"drain", "recycle", "restream"} /\ clientCount > 0
               \/ pc = "ended" /\ quit
               \/ pc \in {"shutdown", "exited"}

PInv == TypeOK /\ CountInv /\ StaleInv /\ ScalerInv /\ ArmInv

\* How a step treats the events: none, the oldest taken, the first one of a
\* subscription, a newer one for a count that changed, or a change nobody sees.
EventsMove ==
    \/ UNCHANGED <<events, clients>> /\ (Subscribed' => Subscribed \/ events = <<>>)
    \/ events # <<>> /\ events' = Tail(events) /\ UNCHANGED clients /\ Subscribed
    \/ events' = <<clients>> /\ UNCHANGED clients
    \/ clients' \in 0 .. MaxClients /\ events' = Enqueue(events, clients')
    \/ ~Subscribed /\ ~Subscribed' /\ clients' \in 0 .. MaxClients /\ UNCHANGED events
    \/ ~Subscribed /\ events = <<>> /\ clients' \in 0 .. MaxClients /\ UNCHANGED events

\* Enqueue keeps the queue within its depth and ends it with the count.
LEMMA EnqueuedIsNewest ==
    ASSUME NEW S, NEW evs \in Seq(S), NEW count \in S, Len(evs) <= EventDepth
    PROVE  /\ Enqueue(evs, count) \in Seq(S)
           /\ Len(Enqueue(evs, count)) \in 1 .. EventDepth
           /\ Enqueue(evs, count)[Len(Enqueue(evs, count))] = count
<1>1. CASE Len(evs) < EventDepth
  BY <1>1, BoundsAssumption DEF Enqueue
<1>2. CASE ~ (Len(evs) < EventDepth)
  <2>1. evs # <<>> /\ Len(evs) = EventDepth
    BY <1>2, BoundsAssumption
  <2>2. Tail(evs) \in Seq(S) /\ Len(Tail(evs)) = EventDepth - 1
    BY <2>1, HeadTailProperties
  <2> DEFINE t == Tail(evs)
  <2>3. /\ Append(t, count) \in Seq(S) /\ Len(Append(t, count)) = EventDepth
        /\ Append(t, count)[EventDepth] = count
    <3> HIDE DEF t
    <3> QED
      BY <2>2, BoundsAssumption DEF t
  <2> QED
    BY <1>2, <2>3, BoundsAssumption DEF Enqueue
<1> QED
  BY <1>1, <1>2

\* Every step is one of EventsMove.
LEMMA StepMovesEvents ==
    ASSUME TypeOK, pc = "subscribe" => events = <<>>, [Next]_vars PROVE EventsMove
<1> USE TypeOK DEF Goto, KeepStream, KeepOthers, mainVars, clientVars, faults,
   TypeOK, EventsMove, Subscribed
<1>1. CASE Subscribe
  BY <1>1 DEF Subscribe
<1>2. CASE Discard
  BY <1>2 DEF Discard
<1>3. CASE ConfigurePipeline
  BY <1>3 DEF ConfigurePipeline, Bgr24, FrameRate
<1>4. CASE \E f \in Format : SetFormat(f)
  BY <1>4 DEF SetFormat, MayFail
<1>5. CASE StreamOn
  BY <1>5 DEF StreamOn
<1>6. CASE StartFails
  BY <1>6 DEF StartFails, MayFail, OnException, FailureKind
<1>7. CASE ApplyNegotiatedSinkFormat
  BY <1>7 DEF ApplyNegotiatedSinkFormat, NegotiatedScaler, OnException
<1>8. CASE \E rate \in Rates : SetStreamParm(rate)
  BY <1>8 DEF SetStreamParm, MayFail, FrameRate
<1>9. CASE Idle
  BY <1>9 DEF Idle, Wait, Poll
<1>10. CASE Drain
  BY <1>10 DEF Drain, Poll, Attached
<1>11. CASE EventFails
  BY <1>11 DEF EventFails, MayFail
<1>12. CASE RecycleBuffers
  BY <1>12 DEF RecycleBuffers
<1>13. CASE Restream
  BY <1>13 DEF Restream
<1>14. CASE Session
  BY <1>14 DEF Session, SessionGoesOn
<1>15. CASE SessionDrain
  BY <1>15 DEF SessionDrain, EventPending, Poll
<1>16. CASE GetParm
  BY <1>16 DEF GetParm, ResolveFps, FrameRate
<1>17. CASE Acquire
  BY <1>17 DEF Acquire
<1>18. CASE Source
  BY <1>18 DEF Source
<1>19. CASE Push
  BY <1>19 DEF Push
<1>20. CASE WaitEvent
  BY <1>20 DEF WaitEvent, Wait, Poll, CountWithoutEvent
<1>21. CASE StreamFails
  BY <1>21 DEF StreamFails, MayFail
<1>22. CASE Ended
  BY <1>22 DEF Ended
<1>23. CASE Yield
  BY <1>23 DEF Yield
<1>24. CASE Sleep
  BY <1>24 DEF Sleep
<1>25. CASE GetFormat
  BY <1>25 DEF GetFormat, SizeToRestart
<1>26. CASE GetRate
  BY <1>26 DEF GetRate, ResolveFps, FrameRate
<1>27. CASE ResetFails
  BY <1>27 DEF ResetFails, MayFail, OnException
<1>28. CASE Recover
  BY <1>28 DEF Recover
<1>29. CASE PollFails
  BY <1>29 DEF PollFails, MayFail
<1>30. CASE Shutdown
  BY <1>30 DEF Shutdown
<1>31. CASE Attach
  <2>1. clients \in Nat /\ MaxClients \in Nat /\ clients <= MaxClients
    BY BoundsAssumption DEF TypeOK
  <2>2. /\ clients' \in 0 .. MaxClients /\ UNCHANGED pc
        /\ events' = IF Subscribed THEN Enqueue(events, clients') ELSE events
    BY <1>31, <2>1 DEF Attach, Notify, mainVars
  <2> QED
    BY <2>2 DEF EventsMove, Subscribed
<1>32. CASE Detach
  <2>1. clients \in Nat /\ MaxClients \in Nat /\ clients <= MaxClients
    BY BoundsAssumption DEF TypeOK
  <2>2. /\ clients' \in 0 .. MaxClients /\ UNCHANGED pc
        /\ events' = IF Subscribed THEN Enqueue(events, clients') ELSE events
    BY <1>32, <2>1 DEF Detach, Notify, mainVars
  <2> QED
    BY <2>2 DEF EventsMove, Subscribed
<1>33. CASE \E size \in Sizes : ArmFormat(size)
  BY <1>33 DEF ArmFormat, NoArm
<1>34. CASE \E rate \in Rates : ArmRate(rate)
  BY <1>34 DEF ArmRate
<1>35. CASE Quit
  BY <1>35 DEF Quit
<1>36. CASE UNCHANGED vars
  BY <1>36 DEF vars
<1> QED
  BY <1>1, <1>2, <1>3, <1>4, <1>5, <1>6, <1>7, <1>8, <1>9, <1>10, <1>11, <1>12,
     <1>13, <1>14, <1>15, <1>16, <1>17, <1>18, <1>19, <1>20, <1>21, <1>22, <1>23,
     <1>24, <1>25, <1>26, <1>27, <1>28, <1>29, <1>30, <1>31, <1>32, <1>33, <1>34,
     <1>35, <1>36 DEF Next, Main, Boot, Start, Waiting, StreamUntilIdle,
     Reconfigure, Consumer

\* The queue stays a queue of counts within its depth, and its newest event
\* the count of now.
LEMMA NewestEvent ==
    ASSUME TypeOK, CountInv, [Next]_vars
    PROVE  /\ events' \in Seq(0 .. MaxClients) /\ Len(events') <= EventDepth
           /\ clients' \in 0 .. MaxClients
           /\ Subscribed' /\ events' # <<>> => events'[Len(events')] = clients'
<1>1. EventsMove
  BY StepMovesEvents DEF CountInv
<1>2. /\ events \in Seq(0 .. MaxClients) /\ Len(events) <= EventDepth
      /\ clients \in 0 .. MaxClients
      /\ Subscribed /\ events # <<>> => events[Len(events)] = clients
  BY DEF TypeOK, CountInv
<1>3. CASE UNCHANGED <<events, clients>> /\ (Subscribed' => Subscribed \/ events = <<>>)
  BY <1>2, <1>3
<1>4. CASE events # <<>> /\ events' = Tail(events) /\ UNCHANGED clients /\ Subscribed
  <2>1. /\ events' \in Seq(0 .. MaxClients) /\ Len(events') = Len(events) - 1
        /\ \A i \in 1 .. Len(events') : events'[i] = events[i + 1]
    BY <1>2, <1>4, HeadTailProperties
  <2>2. ASSUME events' # <<>> PROVE events'[Len(events')] = events[Len(events)]
    <3>1. Len(events') \in 1 .. Len(events') /\ Len(events') + 1 = Len(events)
      BY <1>2, <1>4, <2>1, <2>2, EmptySeq, LenProperties
    <3> QED
      BY <2>1, <3>1
  <2>3. Len(events) \in Nat
    BY <1>2, LenProperties
  <2>4. Len(events') <= EventDepth
    BY <1>2, <2>1, <2>3, BoundsAssumption
  <2> QED
    BY <1>2, <1>4, <2>1, <2>2, <2>4
<1>5. CASE events' = <<clients>> /\ UNCHANGED clients
  BY <1>2, <1>5, BoundsAssumption
<1>6. CASE clients' \in 0 .. MaxClients /\ events' = Enqueue(events, clients')
  <2> DEFINE q == Enqueue(events, clients')
  <2>1. /\ q \in Seq(0 .. MaxClients) /\ Len(q) \in 1 .. EventDepth
        /\ q[Len(q)] = clients'
    <3> DEFINE Counts == 0 .. MaxClients
    <3>1. events \in Seq(Counts) /\ Len(events) <= EventDepth /\ clients' \in Counts
      BY <1>2, <1>6
    <3> HIDE DEF Counts
    <3>2. /\ q \in Seq(Counts) /\ Len(q) \in 1 .. EventDepth
          /\ q[Len(q)] = clients'
      BY <3>1, EnqueuedIsNewest
    <3> QED
      BY <3>2 DEF Counts
  <2> HIDE DEF q
  <2>2. events' = q
    BY <1>6 DEF q
  <2> QED
    BY <1>6, <2>1, <2>2, BoundsAssumption
<1>7. CASE /\ ~Subscribed /\ clients' \in 0 .. MaxClients /\ UNCHANGED events
           /\ ~Subscribed' \/ events = <<>>
  BY <1>2, <1>7
<1> QED
  BY <1>1, <1>3, <1>4, <1>5, <1>6, <1>7 DEF EventsMove

\* Every step keeps the types: the counts within what is attached, the rates
\* something to divide by, the sizes ones a session can have.
LEMMA NextTypeOK ==
    ASSUME PInv, [Next]_vars PROVE TypeOK'
<1>a. /\ events' \in Seq(0 .. MaxClients) /\ Len(events') <= EventDepth
      /\ clients' \in 0 .. MaxClients
  BY NewestEvent DEF PInv
<1> USE <1>a, SizesAssumption, RatesAssumption, BoundsAssumption DEF Goto,
   KeepStream, KeepOthers, mainVars, clientVars, faults, PInv, TypeOK, CountInv,
   StaleInv, InSession, Step, Phase, Format
<1>1. CASE Subscribe
  BY <1>1 DEF Subscribe
<1>2. CASE Discard
  BY <1>2 DEF Discard
<1>3. CASE ConfigurePipeline
  BY <1>3 DEF ConfigurePipeline, Bgr24, FrameRate
<1>4. CASE \E f \in Format : SetFormat(f)
  <2>1. quit' \in BOOLEAN /\ held' \in BOOLEAN
    BY <1>4 DEF SetFormat, MayFail
  <2>2. streaming' \in BOOLEAN
    BY <1>4 DEF SetFormat, MayFail
  <2>3. regular' \in BOOLEAN
    BY <1>4 DEF SetFormat, MayFail
  <2>4. device' \in [size : Sizes \cup {NoSize}, pixel : {"bgr24", "other"},
     rate : Rates]
    <3>1. PICK f \in Format : SetFormat(f)
      BY <1>4
    <3>2. f.size \in Sizes /\ f.pixel \in {"bgr24", "other"}
      BY <3>1
    <3>3. device' = [device EXCEPT !.size = f.size, !.pixel = f.pixel]
      BY <3>1 DEF SetFormat
    <3> QED
      BY <3>2, <3>3
  <2>5. pc' \in Step /\ phase' \in Phase
    BY <1>4 DEF SetFormat, MayFail
  <2>6. /\ wanted' \in Sizes /\ fps' \in Rates /\ producerRate' \in Rates \ {0}
        /\ scaler' \in Format /\ config' \in Format
    BY <1>4 DEF SetFormat, MayFail
  <2>7. /\ armed' \in [size : Sizes \cup {NoSize}, seen : BOOLEAN]
        /\ clientCount' \in 0 .. MaxClients
    BY <1>4 DEF SetFormat, MayFail
  <2>8. /\ stale' \in 0 .. 2 /\ attaches' \in 0 .. MaxAttaches
        /\ failures' \in 0 .. MaxFailures
    BY <1>4 DEF SetFormat, MayFail
  <2> QED
    BY <1>a, <2>1, <2>2, <2>3, <2>4, <2>5, <2>6, <2>7, <2>8 DEF TypeOK
<1>5. CASE StreamOn
  BY <1>5 DEF StreamOn
<1>6. CASE StartFails
  BY <1>6 DEF StartFails, MayFail, OnException, FailureKind
<1>7. CASE ApplyNegotiatedSinkFormat
  BY <1>7 DEF ApplyNegotiatedSinkFormat, NegotiatedScaler, OnException
<1>8. CASE \E rate \in Rates : SetStreamParm(rate)
  <2>1. quit' \in BOOLEAN /\ held' \in BOOLEAN
    BY <1>8 DEF SetStreamParm, MayFail, FrameRate
  <2>2. streaming' \in BOOLEAN
    BY <1>8 DEF SetStreamParm, MayFail, FrameRate
  <2>3. regular' \in BOOLEAN
    BY <1>8 DEF SetStreamParm, MayFail, FrameRate
  <2>4. device' \in [size : Sizes \cup {NoSize}, pixel : {"bgr24", "other"},
     rate : Rates]
    <3>1. PICK rate \in Rates : device' = [device EXCEPT !.rate = rate]
      BY <1>8 DEF SetStreamParm
    <3> QED
      BY <3>1
  <2>5. pc' \in Step /\ phase' \in Phase
    BY <1>8 DEF SetStreamParm, MayFail, FrameRate
  <2>6. /\ wanted' \in Sizes /\ fps' \in Rates /\ producerRate' \in Rates \ {0}
        /\ scaler' \in Format /\ config' \in Format
    BY <1>8 DEF SetStreamParm, MayFail, FrameRate
  <2>7. /\ armed' \in [size : Sizes \cup {NoSize}, seen : BOOLEAN]
        /\ clientCount' \in 0 .. MaxClients
    BY <1>8 DEF SetStreamParm, MayFail, FrameRate
  <2>8. /\ stale' \in 0 .. 2 /\ attaches' \in 0 .. MaxAttaches
        /\ failures' \in 0 .. MaxFailures
    BY <1>8 DEF SetStreamParm, MayFail, FrameRate
  <2> QED
    BY <1>a, <2>1, <2>2, <2>3, <2>4, <2>5, <2>6, <2>7, <2>8 DEF TypeOK
<1>9. CASE Idle
  BY <1>9 DEF Idle, Wait, Poll
<1>10. CASE Drain
  BY <1>10 DEF Drain, Poll, Attached
<1>11. CASE EventFails
  BY <1>11 DEF EventFails, MayFail
<1>12. CASE RecycleBuffers
  <2>1. /\ streaming' = FALSE /\ pc' \in Step /\ UNCHANGED <<phase, quit, held, clientCount>>
        /\ UNCHANGED <<wanted, fps, scaler, config, producerRate, device>>
        /\ UNCHANGED <<clients, armed, attaches, events, stale, failures, regular>>
    BY <1>12 DEF RecycleBuffers
  <2> HIDE DEF CountInv, StaleInv, InSession, Step, Phase
  <2> QED
    BY <2>1
<1>13. CASE Restream
  BY <1>13 DEF Restream
<1>14. CASE Session
  BY <1>14 DEF Session, SessionGoesOn
<1>15. CASE SessionDrain
  BY <1>15 DEF SessionDrain, EventPending, Poll
<1>16. CASE GetParm
  BY <1>16 DEF GetParm, ResolveFps, FrameRate
<1>17. CASE Acquire
  <2>1. quit' \in BOOLEAN /\ held' \in BOOLEAN
    BY <1>17 DEF Acquire
  <2>2. streaming' \in BOOLEAN
    BY <1>17 DEF Acquire
  <2>3. regular' \in BOOLEAN
    BY <1>17 DEF Acquire
  <2>4. device' \in [size : Sizes \cup {NoSize}, pixel : {"bgr24", "other"},
     rate : Rates]
    BY <1>17 DEF Acquire
  <2>5. pc' \in Step /\ phase' \in Phase
    BY <1>17 DEF Acquire
  <2>6. /\ wanted' \in Sizes /\ fps' \in Rates /\ producerRate' \in Rates \ {0}
        /\ scaler' \in Format /\ config' \in Format
    BY <1>17 DEF Acquire
  <2>7. /\ armed' \in [size : Sizes \cup {NoSize}, seen : BOOLEAN]
        /\ clientCount' \in 0 .. MaxClients
    BY <1>17 DEF Acquire
  <2>8. /\ stale' \in 0 .. 2 /\ attaches' \in 0 .. MaxAttaches
        /\ failures' \in 0 .. MaxFailures
    BY <1>17 DEF Acquire
  <2> QED
    BY <1>a, <2>1, <2>2, <2>3, <2>4, <2>5, <2>6, <2>7, <2>8 DEF TypeOK
<1>18. CASE Source
  <2>1. quit' \in BOOLEAN /\ held' \in BOOLEAN
    BY <1>18 DEF Source
  <2>2. streaming' \in BOOLEAN
    BY <1>18 DEF Source
  <2>3. regular' \in BOOLEAN
    BY <1>18 DEF Source
  <2>4. device' \in [size : Sizes \cup {NoSize}, pixel : {"bgr24", "other"},
     rate : Rates]
    BY <1>18 DEF Source
  <2>5. pc' \in Step /\ phase' \in Phase
    BY <1>18 DEF Source
  <2>6. /\ wanted' \in Sizes /\ fps' \in Rates /\ producerRate' \in Rates \ {0}
        /\ scaler' \in Format /\ config' \in Format
    BY <1>18 DEF Source
  <2>7. /\ armed' \in [size : Sizes \cup {NoSize}, seen : BOOLEAN]
        /\ clientCount' \in 0 .. MaxClients
    BY <1>18 DEF Source
  <2>8. /\ stale' \in 0 .. 2 /\ attaches' \in 0 .. MaxAttaches
        /\ failures' \in 0 .. MaxFailures
    BY <1>18 DEF Source
  <2> QED
    BY <1>a, <2>1, <2>2, <2>3, <2>4, <2>5, <2>6, <2>7, <2>8 DEF TypeOK
<1>19. CASE Push
  <2>1. quit' \in BOOLEAN /\ held' \in BOOLEAN
    BY <1>19 DEF Push
  <2>2. streaming' \in BOOLEAN
    BY <1>19 DEF Push
  <2>3. regular' \in BOOLEAN
    BY <1>19 DEF Push
  <2>4. device' \in [size : Sizes \cup {NoSize}, pixel : {"bgr24", "other"},
     rate : Rates]
    BY <1>19 DEF Push
  <2>5. pc' \in Step /\ phase' \in Phase
    BY <1>19 DEF Push
  <2>6. /\ wanted' \in Sizes /\ fps' \in Rates /\ producerRate' \in Rates \ {0}
        /\ scaler' \in Format /\ config' \in Format
    BY <1>19 DEF Push
  <2>7. /\ armed' \in [size : Sizes \cup {NoSize}, seen : BOOLEAN]
        /\ clientCount' \in 0 .. MaxClients
    BY <1>19 DEF Push
  <2>8. /\ stale' \in 0 .. 2 /\ attaches' \in 0 .. MaxAttaches
        /\ failures' \in 0 .. MaxFailures
    BY <1>19 DEF Push
  <2> QED
    BY <1>a, <2>1, <2>2, <2>3, <2>4, <2>5, <2>6, <2>7, <2>8 DEF TypeOK
<1>20. CASE WaitEvent
  BY <1>20 DEF WaitEvent, Wait, Poll, CountWithoutEvent
<1>21. CASE StreamFails
  <2>1. quit' \in BOOLEAN /\ held' \in BOOLEAN
    BY <1>21 DEF StreamFails, MayFail
  <2>2. streaming' \in BOOLEAN
    BY <1>21 DEF StreamFails, MayFail
  <2>3. regular' \in BOOLEAN
    BY <1>21 DEF StreamFails, MayFail
  <2>4. device' \in [size : Sizes \cup {NoSize}, pixel : {"bgr24", "other"},
     rate : Rates]
    BY <1>21 DEF StreamFails, MayFail
  <2>5. pc' \in Step /\ phase' \in Phase
    BY <1>21 DEF StreamFails, MayFail
  <2>6. /\ wanted' \in Sizes /\ fps' \in Rates /\ producerRate' \in Rates \ {0}
        /\ scaler' \in Format /\ config' \in Format
    BY <1>21 DEF StreamFails, MayFail
  <2>7. /\ armed' \in [size : Sizes \cup {NoSize}, seen : BOOLEAN]
        /\ clientCount' \in 0 .. MaxClients
    BY <1>21 DEF StreamFails, MayFail
  <2>8. /\ stale' \in 0 .. 2 /\ attaches' \in 0 .. MaxAttaches
        /\ failures' \in 0 .. MaxFailures
    BY <1>21 DEF StreamFails, MayFail
  <2> QED
    BY <1>a, <2>1, <2>2, <2>3, <2>4, <2>5, <2>6, <2>7, <2>8 DEF TypeOK
<1>22. CASE Ended
  BY <1>22 DEF Ended
<1>23. CASE Yield
  <2>1. /\ streaming' = FALSE /\ pc' \in Step /\ UNCHANGED <<phase, quit, held, clientCount>>
        /\ UNCHANGED <<wanted, fps, scaler, config, producerRate, device>>
        /\ UNCHANGED <<clients, armed, attaches, events, stale, failures, regular>>
    BY <1>23 DEF Yield
  <2> HIDE DEF CountInv, StaleInv, InSession, Step, Phase
  <2> QED
    BY <2>1
<1>24. CASE Sleep
  BY <1>24 DEF Sleep
<1>25. CASE GetFormat
  BY <1>25 DEF GetFormat, SizeToRestart
<1>26. CASE GetRate
  BY <1>26 DEF GetRate, ResolveFps, FrameRate
<1>27. CASE ResetFails
  <2>1. quit' \in BOOLEAN /\ held' \in BOOLEAN
    BY <1>27 DEF ResetFails, MayFail, OnException
  <2>2. streaming' \in BOOLEAN
    BY <1>27 DEF ResetFails, MayFail, OnException
  <2>3. regular' \in BOOLEAN
    BY <1>27 DEF ResetFails, MayFail, OnException
  <2>4. device' \in [size : Sizes \cup {NoSize}, pixel : {"bgr24", "other"},
     rate : Rates]
    BY <1>27 DEF ResetFails, MayFail, OnException
  <2>5. pc' \in Step /\ phase' \in Phase
    BY <1>27 DEF ResetFails, MayFail, OnException
  <2>6. /\ wanted' \in Sizes /\ fps' \in Rates /\ producerRate' \in Rates \ {0}
        /\ scaler' \in Format /\ config' \in Format
    BY <1>27 DEF ResetFails, MayFail, OnException
  <2>7. /\ armed' \in [size : Sizes \cup {NoSize}, seen : BOOLEAN]
        /\ clientCount' \in 0 .. MaxClients
    BY <1>27 DEF ResetFails, MayFail, OnException
  <2>8. /\ stale' \in 0 .. 2 /\ attaches' \in 0 .. MaxAttaches
        /\ failures' \in 0 .. MaxFailures
    BY <1>27 DEF ResetFails, MayFail, OnException
  <2> QED
    BY <1>a, <2>1, <2>2, <2>3, <2>4, <2>5, <2>6, <2>7, <2>8 DEF TypeOK
<1>28. CASE Recover
  BY <1>28 DEF Recover
<1>29. CASE PollFails
  BY <1>29 DEF PollFails, MayFail
<1>30. CASE Shutdown
  <2>1. /\ streaming' = FALSE /\ pc' \in Step /\ UNCHANGED <<phase, quit, held, clientCount>>
        /\ UNCHANGED <<wanted, fps, scaler, config, producerRate, device>>
        /\ UNCHANGED <<clients, armed, attaches, events, stale, failures, regular>>
    BY <1>30 DEF Shutdown
  <2> HIDE DEF CountInv, StaleInv, InSession, Step, Phase
  <2> QED
    BY <2>1
<1>31. CASE Attach
  BY <1>31 DEF Attach, Notify, Subscribed
<1>32. CASE Detach
  BY <1>32 DEF Detach, Notify, Subscribed
<1>33. CASE \E size \in Sizes : ArmFormat(size)
  <2>1. quit' \in BOOLEAN /\ held' \in BOOLEAN
    BY <1>33 DEF ArmFormat, NoArm
  <2>2. streaming' \in BOOLEAN
    BY <1>33 DEF ArmFormat, NoArm
  <2>3. regular' \in BOOLEAN
    BY <1>33 DEF ArmFormat, NoArm
  <2>4. device' \in [size : Sizes \cup {NoSize}, pixel : {"bgr24", "other"},
     rate : Rates]
    <3>1. PICK size \in Sizes : device' = [device EXCEPT !.size = size, !.pixel = "bgr24"]
      BY <1>33 DEF ArmFormat
    <3> QED
      BY <3>1
  <2>5. pc' \in Step /\ phase' \in Phase
    BY <1>33 DEF ArmFormat, NoArm
  <2>6. /\ wanted' \in Sizes /\ fps' \in Rates /\ producerRate' \in Rates \ {0}
        /\ scaler' \in Format /\ config' \in Format
    BY <1>33 DEF ArmFormat, NoArm
  <2>7. /\ armed' \in [size : Sizes \cup {NoSize}, seen : BOOLEAN]
        /\ clientCount' \in 0 .. MaxClients
    BY <1>33 DEF ArmFormat, NoArm
  <2>8. /\ stale' \in 0 .. 2 /\ attaches' \in 0 .. MaxAttaches
        /\ failures' \in 0 .. MaxFailures
    BY <1>33 DEF ArmFormat, NoArm
  <2> QED
    BY <1>a, <2>1, <2>2, <2>3, <2>4, <2>5, <2>6, <2>7, <2>8 DEF TypeOK
<1>34. CASE \E rate \in Rates : ArmRate(rate)
  <2>1. quit' \in BOOLEAN /\ held' \in BOOLEAN
    BY <1>34 DEF ArmRate
  <2>2. streaming' \in BOOLEAN
    BY <1>34 DEF ArmRate
  <2>3. regular' \in BOOLEAN
    BY <1>34 DEF ArmRate
  <2>4. device' \in [size : Sizes \cup {NoSize}, pixel : {"bgr24", "other"},
     rate : Rates]
    <3>1. PICK rate \in Rates : device' = [device EXCEPT !.rate = rate]
      BY <1>34 DEF ArmRate
    <3> QED
      BY <3>1
  <2>5. pc' \in Step /\ phase' \in Phase
    BY <1>34 DEF ArmRate
  <2>6. /\ wanted' \in Sizes /\ fps' \in Rates /\ producerRate' \in Rates \ {0}
        /\ scaler' \in Format /\ config' \in Format
    BY <1>34 DEF ArmRate
  <2>7. /\ armed' \in [size : Sizes \cup {NoSize}, seen : BOOLEAN]
        /\ clientCount' \in 0 .. MaxClients
    BY <1>34 DEF ArmRate
  <2>8. /\ stale' \in 0 .. 2 /\ attaches' \in 0 .. MaxAttaches
        /\ failures' \in 0 .. MaxFailures
    BY <1>34 DEF ArmRate
  <2> QED
    BY <1>a, <2>1, <2>2, <2>3, <2>4, <2>5, <2>6, <2>7, <2>8 DEF TypeOK
<1>35. CASE Quit
  BY <1>35 DEF Quit
<1>36. CASE UNCHANGED vars
  BY <1>36 DEF vars
<1> QED
  BY <1>1, <1>2, <1>3, <1>4, <1>5, <1>6, <1>7, <1>8, <1>9, <1>10, <1>11, <1>12,
     <1>13, <1>14, <1>15, <1>16, <1>17, <1>18, <1>19, <1>20, <1>21, <1>22, <1>23,
     <1>24, <1>25, <1>26, <1>27, <1>28, <1>29, <1>30, <1>31, <1>32, <1>33, <1>34,
     <1>35, <1>36 DEF Next, Main, Boot, Start, Waiting, StreamUntilIdle,
     Reconfigure, Consumer

\* Every step keeps what main knows of the count.
LEMMA NextCountInv ==
    ASSUME PInv, [Next]_vars PROVE CountInv'
<1>a. Subscribed' /\ events' # <<>> => events'[Len(events')] = clients'
  BY NewestEvent DEF PInv
<1>b. /\ CountInv /\ clientCount \in Nat /\ clients \in Nat
      /\ events \in Seq(0 .. MaxClients) /\ Len(events) <= EventDepth
      /\ events # <<>> => Head(events) = events[1]
      /\ events # <<>> /\ Tail(events) = <<>> => Len(events) = 1
  <2>1. clients \in Nat /\ clientCount \in Nat
    BY BoundsAssumption DEF PInv, TypeOK
  <2>2. ASSUME events # <<>>, Tail(events) = <<>> PROVE Len(events) = 1
    <3>1. events \in Seq(0 .. MaxClients) /\ Len(<<>>) = 0
      BY EmptySeq DEF PInv, TypeOK
    <3>2. Len(Tail(events)) = Len(events) - 1 /\ Len(events) \in Nat
      BY <2>2, <3>1, HeadTailProperties, LenProperties
    <3> DEFINE t == Tail(events)
    <3>3. t = <<>> => Len(t) = Len(<<>>)
      OBVIOUS
    <3> HIDE DEF t
    <3>4. Len(t) = 0 /\ Len(t) = Len(events) - 1
      BY <2>2, <3>1, <3>2, <3>3 DEF t
    <3> QED
      BY <3>2, <3>4
  <2> QED
    BY <2>1, <2>2 DEF PInv, TypeOK
<1>c. ASSUME NEW c \in 0 .. MaxClients PROVE Enqueue(events, c) # <<>>
  <2>1. Len(Enqueue(events, c)) \in 1 .. EventDepth /\ Len(<<>>) = 0
    BY <1>b, EnqueuedIsNewest, EmptySeq
  <2> QED
    BY <2>1, BoundsAssumption
<1> USE <1>a, <1>b, SizesAssumption, RatesAssumption, BoundsAssumption DEF Goto,
   KeepStream, KeepOthers, mainVars, clientVars, faults, CountInv, InSession,
   Subscribed
<1>1. CASE Subscribe
  BY <1>1 DEF Subscribe
<1>2. CASE Discard
  BY <1>2 DEF Discard
<1>3. CASE ConfigurePipeline
  BY <1>3 DEF ConfigurePipeline, Bgr24, FrameRate
<1>4. CASE \E f \in Format : SetFormat(f)
  BY <1>4 DEF SetFormat, MayFail
<1>5. CASE StreamOn
  BY <1>5 DEF StreamOn
<1>6. CASE StartFails
  BY <1>6 DEF StartFails, MayFail, OnException, FailureKind
<1>7. CASE ApplyNegotiatedSinkFormat
  BY <1>7 DEF ApplyNegotiatedSinkFormat, NegotiatedScaler, OnException
<1>8. CASE \E rate \in Rates : SetStreamParm(rate)
  BY <1>8 DEF SetStreamParm, MayFail, FrameRate
<1>9. CASE Idle
  <2>1. CASE quit
    BY <1>9, <2>1 DEF Idle
  <2>2. CASE ~quit /\ events = <<>>
    BY <1>9, <2>2 DEF Idle, Wait
  <2>3. CASE ~quit /\ events # <<>>
    BY <1>9, <2>3 DEF Idle, Wait, Poll
  <2> QED
    BY <2>1, <2>2, <2>3
<1>10. CASE Drain
  BY <1>10 DEF Drain, Poll, Attached
<1>11. CASE EventFails
  BY <1>11 DEF EventFails, MayFail
<1>12. CASE RecycleBuffers
  BY <1>12 DEF RecycleBuffers
<1>13. CASE Restream
  BY <1>13 DEF Restream
<1>14. CASE Session
  BY <1>14 DEF Session, SessionGoesOn
<1>15. CASE SessionDrain
  BY <1>15 DEF SessionDrain, EventPending, Poll
<1>16. CASE GetParm
  BY <1>16 DEF GetParm, ResolveFps, FrameRate
<1>17. CASE Acquire
  BY <1>17 DEF Acquire
<1>18. CASE Source
  BY <1>18 DEF Source
<1>19. CASE Push
  BY <1>19 DEF Push
<1>20. CASE WaitEvent
  BY <1>20 DEF WaitEvent, Wait, Poll, CountWithoutEvent
<1>21. CASE StreamFails
  BY <1>21 DEF StreamFails, MayFail
<1>22. CASE Ended
  BY <1>22 DEF Ended
<1>23. CASE Yield
  BY <1>23 DEF Yield
<1>24. CASE Sleep
  BY <1>24 DEF Sleep
<1>25. CASE GetFormat
  BY <1>25 DEF GetFormat, SizeToRestart
<1>26. CASE GetRate
  BY <1>26 DEF GetRate, ResolveFps, FrameRate
<1>27. CASE ResetFails
  BY <1>27 DEF ResetFails, MayFail, OnException
<1>28. CASE Recover
  BY <1>28 DEF Recover
<1>29. CASE PollFails
  BY <1>29 DEF PollFails, MayFail
<1>30. CASE Shutdown
  BY <1>30 DEF Shutdown
<1>31. CASE Attach
  <2>1. /\ clients' \in 0 .. MaxClients /\ UNCHANGED <<pc, clientCount>>
        /\ events' = IF Subscribed THEN Enqueue(events, clients') ELSE events
    BY <1>31, NewestEvent DEF PInv, Attach, Notify, mainVars
  <2>2. Subscribed => events' # <<>>
    BY <1>c, <2>1
  <2> QED
    BY <1>a, <1>b, <2>1, <2>2 DEF CountInv, InSession, Subscribed
<1>32. CASE Detach
  <2>1. /\ clients' \in 0 .. MaxClients /\ UNCHANGED <<pc, clientCount>>
        /\ events' = IF Subscribed THEN Enqueue(events, clients') ELSE events
    BY <1>32, NewestEvent DEF PInv, Detach, Notify, mainVars
  <2>2. Subscribed => events' # <<>>
    BY <1>c, <2>1
  <2> QED
    BY <1>a, <1>b, <2>1, <2>2 DEF CountInv, InSession, Subscribed
<1>33. CASE \E size \in Sizes : ArmFormat(size)
  BY <1>33 DEF ArmFormat, NoArm
<1>34. CASE \E rate \in Rates : ArmRate(rate)
  BY <1>34 DEF ArmRate
<1>35. CASE Quit
  BY <1>35 DEF Quit
<1>36. CASE UNCHANGED vars
  BY <1>36 DEF vars
<1> QED
  BY <1>1, <1>2, <1>3, <1>4, <1>5, <1>6, <1>7, <1>8, <1>9, <1>10, <1>11, <1>12,
     <1>13, <1>14, <1>15, <1>16, <1>17, <1>18, <1>19, <1>20, <1>21, <1>22, <1>23,
     <1>24, <1>25, <1>26, <1>27, <1>28, <1>29, <1>30, <1>31, <1>32, <1>33, <1>34,
     <1>35, <1>36 DEF Next, Main, Boot, Start, Waiting, StreamUntilIdle,
     Reconfigure, Consumer

\* Every step keeps the stale frames to the one of the last round.
LEMMA NextStaleInv ==
    ASSUME PInv, [Next]_vars PROVE StaleInv'
<1> USE TypeOK DEF Goto, KeepStream, KeepOthers, mainVars, clientVars, faults,
   PInv, StaleInv, CountInv, InSession
<1>1. CASE Subscribe
  BY <1>1 DEF Subscribe
<1>2. CASE Discard
  BY <1>2 DEF Discard
<1>3. CASE ConfigurePipeline
  BY <1>3 DEF ConfigurePipeline, Bgr24, FrameRate
<1>4. CASE \E f \in Format : SetFormat(f)
  BY <1>4 DEF SetFormat, MayFail
<1>5. CASE StreamOn
  BY <1>5 DEF StreamOn
<1>6. CASE StartFails
  BY <1>6 DEF StartFails, MayFail, OnException, FailureKind
<1>7. CASE ApplyNegotiatedSinkFormat
  BY <1>7 DEF ApplyNegotiatedSinkFormat, NegotiatedScaler, OnException
<1>8. CASE \E rate \in Rates : SetStreamParm(rate)
  BY <1>8 DEF SetStreamParm, MayFail, FrameRate
<1>9. CASE Idle
  BY <1>9 DEF Idle, Wait, Poll
<1>10. CASE Drain
  BY <1>10 DEF Drain, Poll, Attached
<1>11. CASE EventFails
  BY <1>11 DEF EventFails, MayFail
<1>12. CASE RecycleBuffers
  BY <1>12 DEF RecycleBuffers
<1>13. CASE Restream
  BY <1>13 DEF Restream
<1>14. CASE Session
  BY <1>14 DEF Session, SessionGoesOn
<1>15. CASE SessionDrain
  <2>1. clientCount \in Nat /\ clients \in Nat /\ stale \in Nat
    BY BoundsAssumption DEF TypeOK
  <2>2. UNCHANGED <<stale, clients>>
    BY <1>15 DEF SessionDrain, KeepOthers, clientVars
  <2>3. pc' \in {"sessionDrain",
     "ended"} \/ (pc' = "getParm" /\ events = <<>> /\ clientCount # 0)
    BY <1>15 DEF SessionDrain, EventPending, Goto
  <2> QED
    BY <1>15, <2>1, <2>2, <2>3 DEF SessionDrain, StaleInv, CountInv, InSession
<1>16. CASE GetParm
  BY <1>16 DEF GetParm, ResolveFps, FrameRate
<1>17. CASE Acquire
  BY <1>17 DEF Acquire
<1>18. CASE Source
  BY <1>18 DEF Source
<1>19. CASE Push
  BY <1>19 DEF Push
<1>20. CASE WaitEvent
  BY <1>20 DEF WaitEvent, Wait, Poll, CountWithoutEvent
<1>21. CASE StreamFails
  BY <1>21 DEF StreamFails, MayFail
<1>22. CASE Ended
  BY <1>22 DEF Ended
<1>23. CASE Yield
  BY <1>23 DEF Yield
<1>24. CASE Sleep
  BY <1>24 DEF Sleep
<1>25. CASE GetFormat
  BY <1>25 DEF GetFormat, SizeToRestart
<1>26. CASE GetRate
  BY <1>26 DEF GetRate, ResolveFps, FrameRate
<1>27. CASE ResetFails
  BY <1>27 DEF ResetFails, MayFail, OnException
<1>28. CASE Recover
  BY <1>28 DEF Recover
<1>29. CASE PollFails
  BY <1>29 DEF PollFails, MayFail
<1>30. CASE Shutdown
  BY <1>30 DEF Shutdown
<1>31. CASE Attach
  BY <1>31 DEF Attach, Notify, Subscribed
<1>32. CASE Detach
  BY <1>32 DEF Detach, Notify, Subscribed
<1>33. CASE \E size \in Sizes : ArmFormat(size)
  BY <1>33 DEF ArmFormat, NoArm
<1>34. CASE \E rate \in Rates : ArmRate(rate)
  BY <1>34 DEF ArmRate
<1>35. CASE Quit
  BY <1>35 DEF Quit
<1>36. CASE UNCHANGED vars
  BY <1>36 DEF vars
<1> QED
  BY <1>1, <1>2, <1>3, <1>4, <1>5, <1>6, <1>7, <1>8, <1>9, <1>10, <1>11, <1>12,
     <1>13, <1>14, <1>15, <1>16, <1>17, <1>18, <1>19, <1>20, <1>21, <1>22, <1>23,
     <1>24, <1>25, <1>26, <1>27, <1>28, <1>29, <1>30, <1>31, <1>32, <1>33, <1>34,
     <1>35, <1>36 DEF Next, Main, Boot, Start, Waiting, StreamUntilIdle,
     Reconfigure, Consumer

\* Every step keeps scaler, sink and main together.
LEMMA NextScalerInv ==
    ASSUME PInv, [Next]_vars PROVE ScalerInv'
<1> USE TypeOK DEF Goto, KeepStream, KeepOthers, mainVars, clientVars, faults,
   PInv, TypeOK, ScalerInv, Settled, InSession, Bgr24, Format
<1>1. CASE Subscribe
  BY <1>1 DEF Subscribe
<1>2. CASE Discard
  BY <1>2 DEF Discard
<1>3. CASE ConfigurePipeline
  BY <1>3 DEF ConfigurePipeline, FrameRate
<1>4. CASE \E f \in Format : SetFormat(f)
  BY <1>4 DEF SetFormat, MayFail
<1>5. CASE StreamOn
  BY <1>5 DEF StreamOn
<1>6. CASE StartFails
  BY <1>6 DEF StartFails, MayFail, OnException, FailureKind
<1>7. CASE ApplyNegotiatedSinkFormat
  BY <1>7 DEF ApplyNegotiatedSinkFormat, NegotiatedScaler, OnException
<1>8. CASE \E rate \in Rates : SetStreamParm(rate)
  BY <1>8 DEF SetStreamParm, MayFail, FrameRate
<1>9. CASE Idle
  BY <1>9 DEF Idle, Wait, Poll
<1>10. CASE Drain
  BY <1>10 DEF Drain, Poll, Attached
<1>11. CASE EventFails
  BY <1>11 DEF EventFails, MayFail
<1>12. CASE RecycleBuffers
  BY <1>12 DEF RecycleBuffers
<1>13. CASE Restream
  BY <1>13 DEF Restream
<1>14. CASE Session
  BY <1>14 DEF Session, SessionGoesOn
<1>15. CASE SessionDrain
  BY <1>15 DEF SessionDrain, EventPending, Poll
<1>16. CASE GetParm
  BY <1>16 DEF GetParm, ResolveFps, FrameRate
<1>17. CASE Acquire
  BY <1>17 DEF Acquire
<1>18. CASE Source
  BY <1>18 DEF Source
<1>19. CASE Push
  BY <1>19 DEF Push
<1>20. CASE WaitEvent
  BY <1>20 DEF WaitEvent, Wait, Poll, CountWithoutEvent
<1>21. CASE StreamFails
  BY <1>21 DEF StreamFails, MayFail
<1>22. CASE Ended
  BY <1>22 DEF Ended
<1>23. CASE Yield
  BY <1>23 DEF Yield
<1>24. CASE Sleep
  BY <1>24 DEF Sleep
<1>25. CASE GetFormat
  BY <1>25 DEF GetFormat, SizeToRestart
<1>26. CASE GetRate
  BY <1>26 DEF GetRate, ResolveFps, FrameRate
<1>27. CASE ResetFails
  BY <1>27 DEF ResetFails, MayFail, OnException
<1>28. CASE Recover
  BY <1>28 DEF Recover
<1>29. CASE PollFails
  BY <1>29 DEF PollFails, MayFail
<1>30. CASE Shutdown
  BY <1>30 DEF Shutdown
<1>31. CASE Attach
  BY <1>31 DEF Attach, Notify, Subscribed
<1>32. CASE Detach
  BY <1>32 DEF Detach, Notify, Subscribed
<1>33. CASE \E size \in Sizes : ArmFormat(size)
  BY <1>33 DEF ArmFormat, NoArm
<1>34. CASE \E rate \in Rates : ArmRate(rate)
  BY <1>34 DEF ArmRate
<1>35. CASE Quit
  BY <1>35 DEF Quit
<1>36. CASE UNCHANGED vars
  BY <1>36 DEF vars
<1> QED
  BY <1>1, <1>2, <1>3, <1>4, <1>5, <1>6, <1>7, <1>8, <1>9, <1>10, <1>11, <1>12,
     <1>13, <1>14, <1>15, <1>16, <1>17, <1>18, <1>19, <1>20, <1>21, <1>22, <1>23,
     <1>24, <1>25, <1>26, <1>27, <1>28, <1>29, <1>30, <1>31, <1>32, <1>33, <1>34,
     <1>35, <1>36 DEF Next, Main, Boot, Start, Waiting, StreamUntilIdle,
     Reconfigure, Consumer

\* Every step keeps the format that a consumer has set in sight.
LEMMA NextArmInv ==
    ASSUME PInv, [Next]_vars PROVE ArmInv'
<1> USE SizesAssumption DEF Goto, KeepStream, KeepOthers, mainVars, clientVars,
   faults, PInv, TypeOK, ArmInv, Settled, InSession, Bgr24, Format
<1>1. CASE Subscribe
  BY <1>1 DEF Subscribe
<1>2. CASE Discard
  BY <1>2 DEF Discard
<1>3. CASE ConfigurePipeline
  BY <1>3 DEF ConfigurePipeline, FrameRate
<1>4. CASE \E f \in Format : SetFormat(f)
  <2>1. PICK f \in Format : SetFormat(f)
    BY <1>4
  <2>2. /\ pc = "setFormat" /\ pc' = "streamOn" /\ UNCHANGED <<phase, wanted, armed>>
        /\ config' = f /\ device' = [device EXCEPT !.size = f.size, !.pixel = f.pixel]
    BY <2>1 DEF SetFormat
  <2>3. regular' => regular /\ f = config
    BY <2>1 DEF SetFormat, MayFail
  <2>4. regular' => device'.size = config'.size /\ config'.size = config.size
    BY <2>2, <2>3
  <2> QED
    BY <2>2, <2>3, <2>4
<1>5. CASE StreamOn
  BY <1>5 DEF StreamOn
<1>6. CASE StartFails
  BY <1>6 DEF StartFails, MayFail, OnException, FailureKind
<1>7. CASE ApplyNegotiatedSinkFormat
  BY <1>7 DEF ApplyNegotiatedSinkFormat, NegotiatedScaler, OnException
<1>8. CASE \E rate \in Rates : SetStreamParm(rate)
  BY <1>8 DEF SetStreamParm, MayFail, FrameRate
<1>9. CASE Idle
  BY <1>9 DEF Idle, Wait, Poll
<1>10. CASE Drain
  BY <1>10 DEF Drain, Poll, Attached
<1>11. CASE EventFails
  BY <1>11 DEF EventFails, MayFail
<1>12. CASE RecycleBuffers
  BY <1>12 DEF RecycleBuffers
<1>13. CASE Restream
  BY <1>13 DEF Restream
<1>14. CASE Session
  BY <1>14 DEF Session, SessionGoesOn
<1>15. CASE SessionDrain
  BY <1>15 DEF SessionDrain, EventPending, Poll
<1>16. CASE GetParm
  BY <1>16 DEF GetParm, ResolveFps, FrameRate
<1>17. CASE Acquire
  BY <1>17 DEF Acquire
<1>18. CASE Source
  BY <1>18 DEF Source
<1>19. CASE Push
  BY <1>19 DEF Push
<1>20. CASE WaitEvent
  BY <1>20 DEF WaitEvent, Wait, Poll, CountWithoutEvent
<1>21. CASE StreamFails
  BY <1>21 DEF StreamFails, MayFail
<1>22. CASE Ended
  BY <1>22 DEF Ended
<1>23. CASE Yield
  BY <1>23 DEF Yield
<1>24. CASE Sleep
  BY <1>24 DEF Sleep
<1>25. CASE GetFormat
  BY <1>25 DEF GetFormat, SizeToRestart
<1>26. CASE GetRate
  BY <1>26 DEF GetRate, ResolveFps, FrameRate
<1>27. CASE ResetFails
  BY <1>27 DEF ResetFails, MayFail, OnException
<1>28. CASE Recover
  BY <1>28 DEF Recover
<1>29. CASE PollFails
  BY <1>29 DEF PollFails, MayFail
<1>30. CASE Shutdown
  BY <1>30 DEF Shutdown
<1>31. CASE Attach
  BY <1>31 DEF Attach, Notify, Subscribed
<1>32. CASE Detach
  BY <1>32 DEF Detach, Notify, Subscribed
<1>33. CASE \E size \in Sizes : ArmFormat(size)
  BY <1>33 DEF ArmFormat, NoArm
<1>34. CASE \E rate \in Rates : ArmRate(rate)
  BY <1>34 DEF ArmRate
<1>35. CASE Quit
  BY <1>35 DEF Quit
<1>36. CASE UNCHANGED vars
  BY <1>36 DEF vars
<1> QED
  BY <1>1, <1>2, <1>3, <1>4, <1>5, <1>6, <1>7, <1>8, <1>9, <1>10, <1>11, <1>12,
     <1>13, <1>14, <1>15, <1>16, <1>17, <1>18, <1>19, <1>20, <1>21, <1>22, <1>23,
     <1>24, <1>25, <1>26, <1>27, <1>28, <1>29, <1>30, <1>31, <1>32, <1>33, <1>34,
     <1>35, <1>36 DEF Next, Main, Boot, Start, Waiting, StreamUntilIdle,
     Reconfigure, Consumer

\* Every step keeps where a consumer can be waiting for main.
LEMMA NextIdleInv ==
    ASSUME PInv, IdleInv, [Next]_vars PROVE IdleInv'
<1>b. /\ CountInv /\ IdleInv /\ clientCount \in Nat /\ clients \in Nat
      /\ events \in Seq(0 .. MaxClients) /\ Len(events) <= EventDepth
      /\ events # <<>> => Head(events) = events[1]
      /\ events # <<>> /\ Tail(events) = <<>> => Len(events) = 1
  <2>1. clients \in Nat /\ clientCount \in Nat
    BY BoundsAssumption DEF PInv, TypeOK
  <2>2. ASSUME events # <<>>, Tail(events) = <<>> PROVE Len(events) = 1
    <3>1. events \in Seq(0 .. MaxClients) /\ Len(<<>>) = 0
      BY EmptySeq DEF PInv, TypeOK
    <3>2. Len(Tail(events)) = Len(events) - 1 /\ Len(events) \in Nat
      BY <2>2, <3>1, HeadTailProperties, LenProperties
    <3> DEFINE t == Tail(events)
    <3>3. t = <<>> => Len(t) = Len(<<>>)
      OBVIOUS
    <3> HIDE DEF t
    <3>4. Len(t) = 0 /\ Len(t) = Len(events) - 1
      BY <2>2, <3>1, <3>2, <3>3 DEF t
    <3> QED
      BY <3>2, <3>4
  <2> QED
    BY <2>1, <2>2 DEF PInv, TypeOK
<1>c. ASSUME NEW c \in 0 .. MaxClients PROVE Enqueue(events, c) # <<>>
  <2>1. Len(Enqueue(events, c)) \in 1 .. EventDepth /\ Len(<<>>) = 0
    BY <1>b, EnqueuedIsNewest, EmptySeq
  <2> QED
    BY <2>1, BoundsAssumption
<1> USE <1>b, BoundsAssumption DEF Goto,
   KeepStream, KeepOthers, mainVars, clientVars, faults, CountInv, IdleInv, InSession,
   Subscribed
<1>1. CASE Subscribe
  BY <1>1 DEF Subscribe
<1>2. CASE Discard
  BY <1>2 DEF Discard
<1>3. CASE ConfigurePipeline
  BY <1>3 DEF ConfigurePipeline, Bgr24, FrameRate
<1>4. CASE \E f \in Format : SetFormat(f)
  BY <1>4 DEF SetFormat, MayFail
<1>5. CASE StreamOn
  BY <1>5 DEF StreamOn
<1>6. CASE StartFails
  BY <1>6 DEF StartFails, MayFail, OnException, FailureKind
<1>7. CASE ApplyNegotiatedSinkFormat
  BY <1>7 DEF ApplyNegotiatedSinkFormat, NegotiatedScaler, OnException
<1>8. CASE \E rate \in Rates : SetStreamParm(rate)
  BY <1>8 DEF SetStreamParm, MayFail, FrameRate
<1>9. CASE Idle
  <2>1. CASE quit
    BY <1>9, <2>1 DEF Idle
  <2>2. CASE ~quit /\ events = <<>>
    BY <1>9, <2>2 DEF Idle, Wait
  <2>3. CASE ~quit /\ events # <<>>
    BY <1>9, <2>3 DEF Idle, Wait, Poll
  <2> QED
    BY <2>1, <2>2, <2>3
<1>10. CASE Drain
  BY <1>10 DEF Drain, Poll, Attached
<1>11. CASE EventFails
  BY <1>11 DEF EventFails, MayFail
<1>12. CASE RecycleBuffers
  BY <1>12 DEF RecycleBuffers
<1>13. CASE Restream
  BY <1>13 DEF Restream
<1>14. CASE Session
  BY <1>14 DEF Session, SessionGoesOn
<1>15. CASE SessionDrain
  BY <1>15 DEF SessionDrain, EventPending, Poll
<1>16. CASE GetParm
  BY <1>16 DEF GetParm, ResolveFps, FrameRate
<1>17. CASE Acquire
  BY <1>17 DEF Acquire
<1>18. CASE Source
  BY <1>18 DEF Source
<1>19. CASE Push
  BY <1>19 DEF Push
<1>20. CASE WaitEvent
  BY <1>20 DEF WaitEvent, Wait, Poll, CountWithoutEvent
<1>21. CASE StreamFails
  BY <1>21 DEF StreamFails, MayFail
<1>22. CASE Ended
  BY <1>22 DEF Ended
<1>23. CASE Yield
  BY <1>23 DEF Yield
<1>24. CASE Sleep
  BY <1>24 DEF Sleep
<1>25. CASE GetFormat
  BY <1>25 DEF GetFormat, SizeToRestart
<1>26. CASE GetRate
  BY <1>26 DEF GetRate, ResolveFps, FrameRate
<1>27. CASE ResetFails
  BY <1>27 DEF ResetFails, MayFail, OnException
<1>28. CASE Recover
  BY <1>28 DEF Recover
<1>29. CASE PollFails
  BY <1>29 DEF PollFails, MayFail
<1>30. CASE Shutdown
  BY <1>30 DEF Shutdown
<1>31. CASE Attach
  <2>1. /\ clients' \in 0 .. MaxClients /\ UNCHANGED <<pc, clientCount>>
        /\ events' = IF Subscribed THEN Enqueue(events, clients') ELSE events
    BY <1>31, NewestEvent DEF PInv, Attach, Notify, mainVars
  <2>2. Subscribed => events' # <<>>
    BY <1>c, <2>1
  <2>3. /\ UNCHANGED <<quit, regular, streaming>>
        /\ streaming
    BY <1>31 DEF Attach, Notify
  <2> QED
    BY <2>1, <2>2, <2>3
<1>32. CASE Detach
  <2>1. /\ clients' \in 0 .. MaxClients /\ UNCHANGED <<pc, clientCount>>
        /\ events' = IF Subscribed THEN Enqueue(events, clients') ELSE events
    BY <1>32, NewestEvent DEF PInv, Detach, Notify, mainVars
  <2>2. Subscribed => events' # <<>>
    BY <1>c, <2>1
  <2>3. /\ UNCHANGED <<quit, regular, streaming>>
        /\ clients' = clients - 1 /\ clients > 0
    BY <1>32 DEF Detach, Notify
  <2> QED
    BY <2>1, <2>2, <2>3
<1>33. CASE \E size \in Sizes : ArmFormat(size)
  BY <1>33 DEF ArmFormat, NoArm
<1>34. CASE \E rate \in Rates : ArmRate(rate)
  BY <1>34 DEF ArmRate
<1>35. CASE Quit
  BY <1>35 DEF Quit
<1>36. CASE UNCHANGED vars
  BY <1>36 DEF vars
<1> QED
  BY <1>1, <1>2, <1>3, <1>4, <1>5, <1>6, <1>7, <1>8, <1>9, <1>10, <1>11, <1>12,
     <1>13, <1>14, <1>15, <1>16, <1>17, <1>18, <1>19, <1>20, <1>21, <1>22, <1>23,
     <1>24, <1>25, <1>26, <1>27, <1>28, <1>29, <1>30, <1>31, <1>32, <1>33, <1>34,
     <1>35, <1>36 DEF Next, Main, Boot, Start, Waiting, StreamUntilIdle,
     Reconfigure, Consumer

\* main starts with its own format everywhere, no event and nothing armed.
LEMMA InitPInv == Init => PInv
<1> SUFFICES ASSUME Init PROVE PInv
  OBVIOUS
<1> USE SizesAssumption, RatesAssumption, BoundsAssumption
<1>1. events \in Seq(0 .. MaxClients) /\ Len(events) <= EventDepth
  BY EmptySeq DEF Init
<1>2. device \in [size : Sizes \cup {NoSize}, pixel : {"bgr24", "other"}, rate : Rates]
  BY DEF Init
<1>3. scaler \in Format /\ config \in Format
  BY DEF Init, Format, Bgr24
<1>4. armed \in [size : Sizes \cup {NoSize}, seen : BOOLEAN]
  BY DEF Init, NoArm
<1>5. /\ wanted \in Sizes /\ fps \in Rates /\ producerRate \in Rates \ {0}
      /\ clientCount \in 0 .. MaxClients /\ clients \in 0 .. MaxClients
  BY DEF Init, FrameRate
<1>6. TypeOK
  <2>1. stale \in 0 .. 2 /\ attaches \in 0 .. MaxAttaches /\ failures \in 0 .. MaxFailures
    BY DEF Init
  <2>2. quit \in BOOLEAN /\ held \in BOOLEAN /\ streaming \in BOOLEAN /\ regular \in BOOLEAN
    BY DEF Init
  <2>3. pc \in Step /\ phase \in Phase
    BY DEF Init, Step, Phase
  <2> QED
    BY <1>1, <1>2, <1>3, <1>4, <1>5, <2>1, <2>2, <2>3 DEF TypeOK
<1>7. CountInv /\ StaleInv /\ ScalerInv /\ ArmInv
  BY DEF Init, CountInv, StaleInv, ScalerInv, ArmInv, Settled, InSession, Subscribed, NoArm
<1> QED
  BY <1>6, <1>7 DEF PInv

\* PInv holds in every state of the producer.
THEOREM Following == Spec => []PInv
<1>1. PInv /\ [Next]_vars => PInv'
  BY NextTypeOK, NextCountInv, NextStaleInv, NextScalerInv, NextArmInv DEF PInv
<1> QED
  BY InitPInv, <1>1, PTL DEF Spec

\* The producer's state keeps its types: no count beyond the consumers there
\* are, no frame rate of zero to divide by, no size that is none.
THEOREM ProducerTypes == Spec => []TypeOK
<1>1. PInv => TypeOK
  BY DEF PInv
<1> QED
  BY Following, <1>1, PTL

\* When no event is waiting, streamUntilIdle is right about whether anyone
\* captures, for any depth of the kernel's queue.
THEOREM CountFollowsClients == Spec => []CountIsCurrent
<1>1. PInv => CountIsCurrent
  BY DEF PInv, CountInv, CountIsCurrent
<1> QED
  BY Following, <1>1, PTL

\* At most one frame is queued after the last consumer has left.
THEOREM IdleQueuesLittle == Spec => []FewStaleFrames
<1>1. PInv => FewStaleFrames
  BY DEF PInv, StaleInv, FewStaleFrames
<1> QED
  BY Following, <1>1, PTL

\* A frame is drawn and scaled for the format the sink streams, after every
\* start, driver's adjustment, failed reconfiguration and recovery.
THEOREM ScalerFollowsSink == Spec => []ScalerMatchesSink
<1>1. PInv => ScalerMatchesSink
  BY DEF PInv, ScalerInv, ScalerMatchesSink, Settled, InSession
<1> QED
  BY Following, <1>1, PTL

\* What a consumer sets while the producer pauses is what it is then served.
THEOREM ArmedIsServed == Spec => []ArmHonoured
<1>1. PInv => ArmHonoured
  BY DEF PInv, ArmInv, ArmHonoured, Settled, InSession
<1> QED
  BY Following, <1>1, PTL

\* A producer that waits has nobody to serve, unless somebody captured before
\* it began or a call has failed outside a start: no order of events and no
\* failed start loses a consumer.
THEOREM IdleIsRight == Spec => [](regular => IdleHasNoClient)
<1>1. Init => IdleInv
  BY DEF Init, IdleInv, InSession
<1>2. PInv /\ IdleInv /\ [Next]_vars => IdleInv'
  BY NextIdleInv
<1>3. IdleInv => (regular => IdleHasNoClient)
  BY DEF IdleInv, IdleHasNoClient, InSession
<1> QED
  BY Following, <1>1, <1>2, <1>3, PTL DEF Spec
=============================================================================
