------------------------------ MODULE FrameSource ------------------------------
(***************************************************************************)
(* ChessboardProducer and its CpuBufferPool: frames drawn into pooled      *)
(* buffers, one for each slot of a schedule that getFrame keeps, and given *)
(* back by whichever thread destroys them.                                 *)
(*                                                                         *)
(* One thread calls start, stop, setFrameRate and getFrame; a step of      *)
(* getFrame ends at its sleep and at the pool's critical section.  Time is *)
(* relative: due is nextFrameTime_ minus now, so the model needs no end of *)
(* time, only a bound on how far the schedule is seen to lag.              *)
(***************************************************************************)
EXTENDS Integers, Sequences

CONSTANTS
    BufferCount,    \* buffers of the pool
    Frames,         \* Frame objects of the callers
    NoFrame,
    Intervals,      \* frame intervals, in ticks
    Timeouts,       \* timeouts of getFrame, in ticks
    Tile,           \* pictures repeat after this many frames
    MaxLag          \* bound: a longer lag counts as this one

ASSUME PoolAssumption ==
    BufferCount \in Nat \ {0, 1} /\ Tile \in Nat \ {0} /\ NoFrame \notin Frames
ASSUME TimesAssumption ==
    Intervals \subseteq Nat \ {0} /\ Timeouts \subseteq Nat /\ MaxLag \in Nat

VARIABLES
    pc,             \* where the caller's thread is in getFrame
    running,        \* running_
    interval,       \* 1 / frameRate_
    due,            \* nextFrameTime_ - now
    frameIndex,     \* frameIndex_, modulo Tile
    freeIndices,    \* the pool's free list
    slot,           \* the buffer each frame holds a lease of
    shows,          \* the index each frame is labelled with
    picture,        \* the index whose picture each leased buffer contains
    target,         \* the frame getFrame fills
    lost            \* history: the buffers whose lease could not be allocated

vars == <<pc, running, interval, due, frameIndex, freeIndices, slot, shows,
          picture, target, lost>>

Index == 0 .. (BufferCount - 1)

\* Of no buffer, and of no picture.
None == -1

TypeOK ==
    /\ pc \in {"ready", "asleep", "awake", "draw"}
    /\ running \in BOOLEAN /\ interval \in Intervals
    /\ due \in Int /\ due >= -MaxLag
    /\ frameIndex \in 0 .. (Tile - 1)
    /\ freeIndices \in Seq(Index)
    /\ slot \in [Frames -> Index \cup {None}]
    /\ shows \in [Frames -> (0 .. (Tile - 1)) \cup {None}]
    /\ picture \in [Index -> (0 .. (Tile - 1)) \cup {None}]
    /\ target \in Frames \cup {NoFrame} /\ lost \subseteq Index
    /\ pc = "ready" <=> target = NoFrame

Init ==
    /\ pc = "ready" /\ running = FALSE
    /\ interval \in Intervals /\ due = 0 /\ frameIndex = 0
    /\ freeIndices = [k \in 1 .. BufferCount |-> k - 1]
    /\ slot = [f \in Frames |-> None]
    /\ shows = [f \in Frames |-> None]
    /\ picture = [i \in Index |-> None]
    /\ target = NoFrame /\ lost = {}

-----------------------------------------------------------------------------
Lagging(time) == IF time < -MaxLag THEN -MaxLag ELSE time

Pool == <<freeIndices, slot, shows, picture, lost>>
Schedule == <<running, interval, due, frameIndex>>

Start ==
    /\ pc = "ready"
    /\ running' = TRUE /\ frameIndex' = 0 /\ due' = 0
    /\ UNCHANGED <<pc, interval, Pool, target>>

Stop ==
    /\ pc = "ready"
    /\ running' = FALSE
    /\ UNCHANGED <<pc, interval, due, frameIndex, Pool, target>>

\* The frame that is already scheduled stays where it is.
SetFrameRate(i) ==
    /\ pc = "ready"
    /\ interval' = i
    /\ UNCHANGED <<pc, running, due, frameIndex, Pool, target>>

-----------------------------------------------------------------------------
(***************************************************************************)
(* getFrame.                                                               *)
(***************************************************************************)
Return == pc' = "ready" /\ target' = NoFrame

\* Faulty variant: plans the next frame anew when it cannot wait for it.
SlotAfterRefusalAnew == interval

SlotAfterRefusal == due

\* The caller passes a frame that holds nothing, as pump does.
GetFrame(f, timeout) ==
    /\ pc = "ready" /\ slot[f] = None
    /\ IF ~running THEN Return /\ UNCHANGED due
       ELSE IF due > timeout THEN Return /\ due' = SlotAfterRefusal
       ELSE pc' = "asleep" /\ target' = f /\ UNCHANGED due
    /\ UNCHANGED <<running, interval, frameIndex, Pool>>

\* The end of sleep_until: the slot is used up, whatever comes of it.
Wake ==
    /\ pc = "asleep" /\ due <= 0
    /\ due' = due + interval
    /\ IF running THEN pc' = "awake" /\ UNCHANGED target ELSE Return
    /\ UNCHANGED <<running, interval, frameIndex, Pool>>

\* Faulty variant: looks at the front of the free list and leaves it there.
AfterAcquireListed(list) == list

AfterAcquire(list) == Tail(list)

\* CpuBufferPool::acquire: the new frame shows no index yet.
Acquire ==
    /\ pc = "awake"
    /\ IF freeIndices = <<>>
       THEN Return /\ UNCHANGED <<freeIndices, slot, shows>>
       ELSE /\ freeIndices' = AfterAcquire(freeIndices)
            /\ slot' = [slot EXCEPT ![target] = Head(freeIndices)]
            /\ shows' = [shows EXCEPT ![target] = None]
            /\ pc' = "draw" /\ UNCHANGED target
    /\ UNCHANGED <<Schedule, picture, lost>>

\* make_unique throws in acquire.  The index has left the free list, and the
\* lease that would bring it back does not exist.
AllocationFails ==
    /\ pc = "awake" /\ freeIndices # <<>>
    /\ freeIndices' = AfterAcquire(freeIndices)
    /\ lost' = lost \cup {Head(freeIndices)}
    /\ Return
    /\ UNCHANGED <<Schedule, slot, shows, picture>>

\* drawChessboard and the frame's label.
Draw ==
    /\ pc = "draw"
    /\ picture' = [picture EXCEPT ![slot[target]] = frameIndex]
    /\ shows' = [shows EXCEPT ![target] = frameIndex]
    /\ frameIndex' = (frameIndex + 1) % Tile
    /\ Return
    /\ UNCHANGED <<running, interval, due, freeIndices, slot, lost>>

\* drawChessboard throws: the caller's frame has a buffer and no label, and the
\* index is not used up.
DrawThrows ==
    /\ pc = "draw"
    /\ Return
    /\ UNCHANGED <<Schedule, Pool>>

-----------------------------------------------------------------------------
Delivered(f) == slot[f] # None /\ f # target

\* Faulty variant: forgets the buffer of a frame that is destroyed.
AfterReleaseLost(list, i) == list

\* returnFree, whatever state the pool is in.
AfterRelease(list, i) == Append(list, i)

\* A frame is destroyed, on any thread.
Release(f) ==
    /\ Delivered(f)
    /\ freeIndices' = AfterRelease(freeIndices, slot[f])
    /\ slot' = [slot EXCEPT ![f] = None]
    /\ shows' = [shows EXCEPT ![f] = None]
    /\ picture' = [picture EXCEPT ![slot[f]] = None]
    /\ UNCHANGED <<pc, Schedule, target, lost>>

\* Time passes, also while the thread sleeps on past its time.
Tick ==
    /\ due' = Lagging(due - 1)
    /\ UNCHANGED <<pc, running, interval, frameIndex, Pool, target>>

-----------------------------------------------------------------------------
Control == Start \/ Stop \/ \E i \in Intervals : SetFrameRate(i)

Call == \E f \in Frames, timeout \in Timeouts : GetFrame(f, timeout)

Answer == Wake \/ Acquire \/ Draw

Throw == AllocationFails \/ DrawThrows

ReleaseAny == \E f \in Frames : Release(f)

Next == Control \/ Call \/ Answer \/ Throw \/ ReleaseAny \/ Tick

Spec == Init /\ [][Next]_vars

-----------------------------------------------------------------------------
(***************************************************************************)
(* Properties.                                                             *)
(***************************************************************************)

\* Every buffer is in one place, on the free list once or under one frame,
\* whoever destroys frames and when; but one whose lease could not be allocated
\* is in neither.
BuffersAccounted ==
    \A i \in Index :
        LET listed == {k \in DOMAIN freeIndices : freeIndices[k] = i}
            held == {f \in Frames : slot[f] = i}
        IN  IF i \in lost THEN listed \cup held = {}
            ELSE \E place \in {listed, held} :
                     /\ \E p \in place : place = {p}
                     /\ listed \cup held = place

\* A frame shows the picture of its own index for as long as it lives: no
\* later frame is drawn over it.
PictureIntact ==
    \A f \in Frames :
        slot[f] # None /\ shows[f] # None => picture[slot[f]] = shows[f]
=============================================================================
