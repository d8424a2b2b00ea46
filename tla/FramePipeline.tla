----------------------------- MODULE FramePipeline -----------------------------
(***************************************************************************)
(* FramePipeline::pump between a ChessboardProducer and an IFrameSink: a   *)
(* buffer of the sink, a frame of the source, the scaled picture from one  *)
(* to the other, and the way out of each call that fails.                  *)
(*                                                                         *)
(* The source is FrameSource; its frames are pump's own and those that the *)
(* owner of the pipeline takes besides.  The sink does what IFrameSink     *)
(* says; V4l2Sink shows that V4l2Sink.cpp does.                            *)
(***************************************************************************)
EXTENDS FrameSource

CONSTANTS
    SinkBuffers,    \* buffers of the sink
    CountModulus    \* 2^64 in the code: the counters wrap

ASSUME PipelineAssumption ==
    /\ Frames # {} /\ SinkBuffers \subseteq Nat \ {0}
    /\ CountModulus \in Nat \ {0}

VARIABLES
    stage,          \* where pump is
    output,         \* the sink's buffer under its output frame
    started,        \* the sink has buffers
    owner,          \* in whose hands each of them is
    content,        \* label and picture of those in the client's hands or queued
    stats,          \* PipelineStats
    seen            \* history: what sink and source did, since the last reset

sinkVars == <<started, owner, content>>
countVars == <<stats, seen>>
pumpVars == <<stage, output, countVars>>
pipelineVars == <<vars, sinkVars, pumpVars>>

NoBuffer == 0
Blank == [label |-> 0, picture |-> 0]

Zero == [framesQueued |-> 0, sourceTimeouts |-> 0, backpressureEvents |-> 0,
         errors |-> 0]

\* The sink took a frame, the source gave none, the sink had no buffer or
\* refused a frame, a call threw.
NothingSeen == [taken |-> 0, dry |-> 0, refused |-> 0, thrown |-> 0]

\* Frame input of pump.
Input == CHOOSE f \in Frames : TRUE

PipelineInit ==
    /\ Init
    /\ stage = "between" /\ output = NoBuffer
    /\ started = FALSE /\ owner = [b \in SinkBuffers |-> "none"]
    /\ content = [b \in SinkBuffers |-> Blank]
    /\ stats = Zero /\ seen = NothingSeen

-----------------------------------------------------------------------------
(***************************************************************************)
(* The owner of the pipeline, between two calls of pump, on its thread.    *)
(***************************************************************************)
Between == stage = "between" /\ pc = "ready"

ClientHolds == \E b \in SinkBuffers : owner[b] = "client"

StartSink ==
    /\ Between /\ ~started
    /\ started' = TRUE /\ owner' = [b \in SinkBuffers |-> "pool"]
    /\ UNCHANGED <<vars, content, pumpVars>>

\* stop, or the yield before a new format.
StopSink ==
    /\ Between /\ started
    /\ started' = FALSE
    /\ owner' = [b \in SinkBuffers |-> IF owner[b] = "client" THEN "client" ELSE "none"]
    /\ content' = [b \in SinkBuffers |-> Blank]
    /\ UNCHANGED <<vars, pumpVars>>

\* recycleBuffers, which refuses while a frame is out.
RecycleSink ==
    /\ Between /\ started /\ ~ClientHolds
    /\ owner' = [b \in SinkBuffers |-> "pool"]
    /\ content' = [b \in SinkBuffers |-> Blank]
    /\ UNCHANGED <<vars, started, pumpVars>>

ResetStats ==
    /\ Between
    /\ stats' = Zero /\ seen' = NothingSeen
    /\ UNCHANGED <<vars, sinkVars, stage, output>>

ControlSource ==
    /\ Between
    /\ Control
    /\ UNCHANGED <<sinkVars, pumpVars>>

\* The owner may also take a frame of the source for itself, and destroy it, or
\* have it destroyed on another thread, at any time, also during a pump.
Borrow(f) ==
    /\ Between /\ f # Input
    /\ \E timeout \in Timeouts : GetFrame(f, timeout)
    /\ UNCHANGED <<sinkVars, pumpVars>>

Dispose(f) ==
    /\ f # Input
    /\ Release(f)
    /\ UNCHANGED <<sinkVars, pumpVars>>

\* The transport has finished with a buffer.
Complete(b) ==
    /\ owner[b] = "transport"
    /\ owner' = [owner EXCEPT ![b] = "done"]
    /\ content' = [content EXCEPT ![b] = Blank]
    /\ UNCHANGED <<vars, started, pumpVars>>

-----------------------------------------------------------------------------
(***************************************************************************)
(* pump.                                                                   *)
(***************************************************************************)
Go(to) == stage' = to

Saw(event) == seen' = [seen EXCEPT ![event] = (@ + 1) % CountModulus]

Count(counter) == stats' = [stats EXCEPT ![counter] = (@ + 1) % CountModulus]

\* An exception leaves a call that pump made.
Throws == Go("throwing") /\ Saw("thrown") /\ UNCHANGED stats

\* A call: sink_.acquireFrame answers a buffer of its pool, or one the
\* transport has finished with, or false when it has neither.
Acquirable == {b \in SinkBuffers : owner[b] \in {"pool", "done"}}

Pump ==
    /\ Between
    /\ IF Acquirable = {}
       THEN Go("noOutput") /\ Saw("refused") /\ UNCHANGED <<output, owner>>
       ELSE \E b \in Acquirable :
                /\ Go("acquired") /\ output' = b
                /\ owner' = [owner EXCEPT ![b] = "client"]
                /\ UNCHANGED seen
    /\ UNCHANGED <<vars, started, content, stats>>

\* acquireFrame throws: no buffer has left the sink.
AcquireThrows ==
    /\ Between
    /\ Throws
    /\ UNCHANGED <<vars, sinkVars, output>>

\* producer_.getFrame is called, goes on, and has returned.
AskSource ==
    /\ stage = "acquired"
    /\ \E timeout \in Timeouts : GetFrame(Input, timeout)
    /\ Go("source")
    /\ UNCHANGED <<sinkVars, output, countVars>>

SourceWorks ==
    /\ Answer
    /\ UNCHANGED <<sinkVars, pumpVars>>

SourceAnswers ==
    /\ stage = "source" /\ pc = "ready"
    /\ IF slot[Input] = None THEN Go("noInput") /\ Saw("dry")
                             ELSE Go("filled") /\ UNCHANGED seen
    /\ UNCHANGED <<vars, sinkVars, output, stats>>

\* getFrame throws, in pump or in a call of the owner's own.
SourceThrows ==
    /\ Throw
    /\ IF stage = "source" THEN Throws ELSE UNCHANGED <<stage, countVars>>
    /\ UNCHANGED <<sinkVars, output>>

\* Faulty variant: leaves the label that the frame had from acquireFrame.
LabelScaledFresh == content[output].label

LabelScaled == shows[Input]

\* scaler_.scale writes the picture into the sink's buffer and copies the
\* label.
Scale ==
    /\ stage = "filled"
    /\ Go("scaled")
    /\ content' = [content EXCEPT ![output] =
                      [label |-> LabelScaled, picture |-> picture[slot[Input]]]]
    /\ UNCHANGED <<vars, started, owner, output, countVars>>

ScaleThrows ==
    /\ stage = "filled"
    /\ Throws
    /\ UNCHANGED <<vars, sinkVars, output>>

\* pump's own frame is empty after the move.
Push ==
    /\ stage = "scaled"
    /\ Go("queued") /\ Saw("taken")
    /\ owner' = [owner EXCEPT ![output] = "transport"]
    /\ output' = NoBuffer
    /\ UNCHANGED <<vars, started, content, stats>>

\* pushFrame answers false or throws.  It took the frame by value, so it drops
\* it.
PushRefused ==
    /\ stage = "scaled"
    /\ \/ Go("refused") /\ Saw("refused") /\ UNCHANGED stats
       \/ Throws
    /\ owner' = [owner EXCEPT ![output] = "pool"]
    /\ output' = NoBuffer
    /\ content' = [content EXCEPT ![output] = Blank]
    /\ UNCHANGED <<vars, started>>

-----------------------------------------------------------------------------
(***************************************************************************)
(* The ways out of pump: each counts in its own place, a return before its *)
(* frames are destroyed, the handler of an exception after.  Both are the  *)
(* thread's own, and neither looks at the other.                           *)
(***************************************************************************)

\* Faulty variant: keeps the output frame for the next call.
OwnerAfterDropKept == "client"

\* Faulty variant: forgets the buffer with the frame.
OwnerAfterDropLost == "none"

\* The frame that pump still has goes back to its pool.
OwnerAfterDrop == "pool"

Leave ==
    /\ Go("between")
    /\ IF slot[Input] # None THEN Release(Input) ELSE UNCHANGED vars
    /\ owner' = [b \in SinkBuffers |-> IF b = output THEN OwnerAfterDrop ELSE owner[b]]
    /\ content' = [b \in SinkBuffers |-> IF b = output THEN Blank ELSE content[b]]
    /\ output' = NoBuffer
    /\ UNCHANGED <<started, seen>>

LeaveWithoutOutput == stage = "noOutput" /\ Count("backpressureEvents") /\ Leave

LeaveWithoutInput == stage = "noInput" /\ Count("sourceTimeouts") /\ Leave

\* Faulty variant: takes the frame that the sink has refused for queued.
LeaveRefusedAsQueued == stage = "refused" /\ Count("framesQueued") /\ Leave

LeaveRefused == stage = "refused" /\ Count("backpressureEvents") /\ Leave

LeaveQueued == stage = "queued" /\ Count("framesQueued") /\ Leave

LeaveThrowing == stage = "throwing" /\ Count("errors") /\ Leave

-----------------------------------------------------------------------------
TimePasses == Tick /\ UNCHANGED <<sinkVars, pumpVars>>

Owner == StartSink \/ StopSink \/ RecycleSink \/ ResetStats \/ ControlSource

Others == \E f \in Frames : Borrow(f) \/ Dispose(f)

LeaveAny ==
    \/ LeaveWithoutOutput \/ LeaveWithoutInput \/ LeaveRefused \/ LeaveQueued
    \/ LeaveThrowing

Working ==
    \/ AskSource \/ SourceWorks \/ SourceAnswers \/ Scale \/ Push
    \/ LeaveAny

Failing == AcquireThrows \/ SourceThrows \/ ScaleThrows \/ PushRefused

CompleteAny == \E b \in SinkBuffers : Complete(b)

PipelineNext ==
    Owner \/ Others \/ Pump \/ Working \/ Failing \/ CompleteAny \/ TimePasses

\* The owner keeps pumping when it does nothing else, the thread runs, time
\* passes and the transport finishes with what it has.
PipelineSpec ==
    /\ PipelineInit /\ [][PipelineNext]_pipelineVars
    /\ SF_pipelineVars(Pump) /\ WF_pipelineVars(Working) /\ WF_pipelineVars(TimePasses)
    /\ WF_pipelineVars(CompleteAny)

-----------------------------------------------------------------------------
(***************************************************************************)
(* Properties.                                                             *)
(***************************************************************************)

\* Between two calls of pump, however the last one ended, neither of its frames
\* is out: recycleBuffers and yield, which throw if one is, can be called.
NoFrameOutstanding ==
    stage = "between" => ~ClientHolds /\ slot[Input] = None

\* Between two calls of pump each counter tells what really happened since the
\* last reset: the frames the transport was given, the calls of getFrame that
\* gave none, the two refusals of the sink together, and the exceptions of any
\* call; whatever of these came in which order, and also where they wrap.
StatsTellWhatHappened ==
    stage = "between" =>
        stats = [framesQueued |-> seen.taken, sourceTimeouts |-> seen.dry,
                 backpressureEvents |-> seen.refused, errors |-> seen.thrown]

\* What is queued carries the label of the frame whose picture it shows.
QueuedPictureIntact ==
    \A b \in SinkBuffers :
        owner[b] = "transport" => content[b].label = content[b].picture

\* Pump is a client of the sink as IFrameSink wants it.  One generation of
\* buffers is enough: none outlives the stop between two calls of pump.
SinkGeneration == IF started THEN "generation" ELSE "none"

SinkOwner == [b \in {"generation"} \X SinkBuffers |->
                 IF owner[b[2]] = "done" THEN "transport" ELSE owner[b[2]]]

Sink == INSTANCE FrameSink WITH
    Pools <- {"generation"}, NoPool <- "none", Index <- SinkBuffers,
    current <- SinkGeneration, owner <- SinkOwner

SinkContract == Sink!Spec

\* A buffer of the source that pump's frame may come to have.
BufferLeft ==
    \E i \in Index \ lost : \A f \in Frames \ {Input} : slot[f] # i

\* Nothing but pumps, completions and time, on the part of the owner and of the
\* calls that pump makes.
Undisturbed ==
    /\ running /\ started /\ BufferLeft
    /\ target \in {Input, NoFrame} /\ stage \notin {"throwing", "refused"}

\* Once source and sink are started for good, with a buffer left and calls that
\* no longer fail, frames keep being queued: no refusal, timeout, exception or
\* missing buffer before leaves the pipeline without a buffer or a schedule.
PumpsKeepQueueing == <>[]Undisturbed => []<>(stage = "queued")
=============================================================================
