-------------------------- MODULE FramePipelineProofs --------------------------
(***************************************************************************)
(* The safety properties of FramePipeline, for any number of buffers and   *)
(* frames and any counter width: nothing of pump is left out between two   *)
(* calls, each counter tells what happened, what is queued shows what it   *)
(* says; and pump's use of the sink is what FrameSink allows.              *)
(***************************************************************************)
EXTENDS FramePipeline, SequenceTheorems, TLAPS

-----------------------------------------------------------------------------
(***************************************************************************)
(* The source: its frames and their buffers, for any number of either and  *)
(* frames destroyed by any thread at any time.                             *)
(***************************************************************************)
Listed == {freeIndices[k] : k \in 1 .. Len(freeIndices)}

\* No buffer is in two places: listed twice or under two frames, listed and
\* under a frame, or lost and either of the two.
Apart ==
    /\ \A j, k \in 1 .. Len(freeIndices) : freeIndices[j] = freeIndices[k] => j = k
    /\ \A f, g \in Frames : slot[f] # None /\ slot[f] = slot[g] => f = g
    /\ \A f \in Frames : slot[f] \notin Listed \cup lost
    /\ Listed \cap lost = {}

\* No buffer is in no place.
Placed == \A i \in Index : i \in Listed \cup lost \/ \E f \in Frames : slot[f] = i

InHand ==
    /\ pc \in {"asleep", "awake"} => slot[target] = None
    /\ pc = "draw" => slot[target] # None

SInv == TypeOK /\ Apart /\ Placed /\ InHand /\ PictureIntact

LEMMA IndexIsNumber == None \notin Index /\ Index \subseteq Int /\ None \in Int
  BY PoolAssumption DEF Index, None

LEMMA ListedIsIndex ==
    ASSUME TypeOK
    PROVE  Listed \subseteq Index /\ Len(freeIndices) \in Nat
  BY ElementOfSeq, LenProperties DEF TypeOK, Listed

LEMMA InitSInv == Init => SInv
<1> SUFFICES ASSUME Init PROVE SInv
  OBVIOUS
<1> DEFINE list == [k \in 1 .. BufferCount |-> k - 1]
<1>a. BufferCount \in Nat /\ \A k \in 1 .. BufferCount : k - 1 \in Index
  BY PoolAssumption DEF Index
<1>b. list \in [1 .. BufferCount -> Index]
  BY <1>a
<1>c. list \in Seq(Index)
  BY <1>a, <1>b, SeqDef
<1>1. /\ freeIndices \in Seq(Index) /\ Len(freeIndices) = BufferCount
      /\ \A k \in 1 .. Len(freeIndices) : freeIndices[k] = k - 1
  BY <1>a, <1>c DEF Init
<1>2. TypeOK
  <2>1. 0 \in 0 .. (Tile - 1)
    BY PoolAssumption
  <2>2. /\ pc = "ready" /\ target = NoFrame /\ lost = {}
        /\ running \in BOOLEAN /\ interval \in Intervals /\ frameIndex \in 0 .. (Tile - 1)
    BY <2>1 DEF Init
  <2>3. due \in Int /\ due >= -MaxLag
    BY TimesAssumption DEF Init
  <2>4. /\ slot \in [Frames -> Index \cup {None}]
        /\ shows \in [Frames -> (0 .. (Tile - 1)) \cup {None}]
        /\ picture \in [Index -> (0 .. (Tile - 1)) \cup {None}]
    BY DEF Init
  <2> QED
    BY <1>1, <2>2, <2>3, <2>4 DEF TypeOK
<1>3. Apart
  <2>1. Listed \subseteq Index
    BY <1>2, ListedIsIndex
  <2> QED
    BY <1>1, <2>1, IndexIsNumber, PoolAssumption DEF Init, Apart
<1>4. Placed
  <2>1. ASSUME NEW i \in Index PROVE i \in Listed
    <3>1. i + 1 \in 1 .. Len(freeIndices) /\ (i + 1) - 1 = i
      BY <1>1, PoolAssumption DEF Index
    <3> QED
      BY <1>1, <3>1 DEF Listed
  <2> QED
    BY <2>1 DEF Placed
<1>5. InHand /\ PictureIntact
  BY DEF Init, InHand, PictureIntact
<1> QED
  BY <1>2, <1>3, <1>4, <1>5 DEF SInv

-----------------------------------------------------------------------------
\* Steps that move no buffer.
LEMMA PoolKept ==
    ASSUME SInv, TypeOK', InHand', UNCHANGED <<freeIndices, slot, shows, picture, lost>>
    PROVE  SInv'
<1>1. Listed' = Listed
  BY DEF Listed
<1> QED
  BY <1>1 DEF SInv, Apart, Placed, PictureIntact

LEMMA ControlKeepsSInv ==
    ASSUME SInv, Control \/ Tick
    PROVE  SInv'
<1>1. UNCHANGED <<pc, target, Pool>>
  BY DEF Control, Start, Stop, SetFrameRate, Tick
<1>2. /\ running' \in BOOLEAN /\ interval' \in Intervals /\ frameIndex' \in 0 .. (Tile - 1)
  <2>1. /\ running \in BOOLEAN /\ interval \in Intervals
        /\ frameIndex \in 0 .. (Tile - 1) /\ 0 \in 0 .. (Tile - 1)
    BY PoolAssumption DEF SInv, TypeOK
  <2>2. CASE Start \/ Stop \/ Tick
    BY <2>1, <2>2 DEF Start, Stop, Tick
  <2>3. ASSUME NEW i \in Intervals, SetFrameRate(i)
        PROVE  running' \in BOOLEAN /\ interval' \in Intervals /\ frameIndex' \in 0 .. (Tile - 1)
    BY <2>1, <2>3 DEF SetFrameRate
  <2> QED
    BY <2>2, <2>3 DEF Control
<1>3. due' \in Int /\ due' >= -MaxLag
  BY TimesAssumption
     DEF Control, Start, Stop, SetFrameRate, Tick, Lagging, SInv, TypeOK, Schedule
<1>4. TypeOK'
  BY <1>1, <1>2, <1>3 DEF SInv, TypeOK, Pool
<1>5. InHand'
  BY <1>1 DEF SInv, InHand, Pool
<1> QED
  BY <1>1, <1>4, <1>5, PoolKept DEF Pool

LEMMA CallKeepsSInv ==
    ASSUME SInv, NEW f \in Frames, NEW timeout \in Timeouts, GetFrame(f, timeout)
    PROVE  SInv'
<1>1. /\ pc = "ready" /\ target = NoFrame /\ slot[f] = None
      /\ UNCHANGED <<running, interval, frameIndex, due, Pool>>
      /\ \/ pc' = "ready" /\ target' = NoFrame
         \/ pc' = "asleep" /\ target' = f
  BY DEF GetFrame, Return, SlotAfterRefusal, SInv, TypeOK
<1>2. TypeOK'
  BY <1>1, PoolAssumption DEF SInv, TypeOK, Pool
<1>3. InHand'
  BY <1>1, PoolAssumption DEF InHand, Pool
<1> QED
  BY <1>1, <1>2, <1>3, PoolKept DEF Pool

LEMMA WakeKeepsSInv ==
    ASSUME SInv, Wake
    PROVE  SInv'
<1>1. /\ pc = "asleep" /\ target \in Frames /\ slot[target] = None
      /\ due' = due + interval
      /\ UNCHANGED <<running, interval, frameIndex, Pool>>
      /\ \/ pc' = "awake" /\ target' = target
         \/ pc' = "ready" /\ target' = NoFrame
  BY DEF Wake, Return, SInv, TypeOK, InHand
<1>2. due' \in Int /\ due' >= -MaxLag
  BY <1>1, TimesAssumption DEF SInv, TypeOK
<1>3. TypeOK'
  BY <1>1, <1>2, PoolAssumption DEF SInv, TypeOK, Pool
<1>4. InHand'
  BY <1>1, PoolAssumption DEF InHand, Pool
<1> QED
  BY <1>1, <1>3, <1>4, PoolKept DEF Pool

-----------------------------------------------------------------------------
\* The oldest free buffer leaves the list and is on it no more.
LEMMA FrontTaken ==
    ASSUME SInv, freeIndices # <<>>, freeIndices' = AfterAcquire(freeIndices)
    PROVE  LET i == Head(freeIndices)
           IN  /\ i \in Listed /\ i \in Index /\ i # None
               /\ freeIndices' \in Seq(Index) /\ Listed' = Listed \ {i}
               /\ \A j, k \in 1 .. Len(freeIndices)' :
                      freeIndices'[j] = freeIndices'[k] => j = k
<1> DEFINE i == freeIndices[1]
           n == Len(freeIndices)
<1>1. freeIndices \in Seq(Index)
  BY DEF SInv, TypeOK
<1>2. /\ n \in Nat \ {0} /\ freeIndices' \in Seq(Index) /\ Len(freeIndices') = n - 1
      /\ Head(freeIndices) = i /\ 1 \in 1 .. n
      /\ \A k \in 1 .. (n - 1) : freeIndices'[k] = freeIndices[k + 1]
  BY <1>1, EmptySeq, HeadTailProperties DEF AfterAcquire
<1>3. i \in Listed /\ i \in Index /\ i # None
  <2>1. i \in Listed
    BY <1>2 DEF Listed
  <2> QED
    BY <2>1, ListedIsIndex, IndexIsNumber DEF SInv
<1>4. \A j, k \in 1 .. n : freeIndices[j] = freeIndices[k] => j = k
  BY DEF SInv, Apart
<1>5. Listed' = {freeIndices'[k] : k \in 1 .. (n - 1)}
  BY <1>2 DEF Listed
<1>6. Listed' \subseteq Listed \ {i}
  <2>1. ASSUME NEW k \in 1 .. (n - 1) PROVE freeIndices'[k] \in Listed \ {i}
    <3>1. k + 1 \in 1 .. n /\ k + 1 # 1 /\ freeIndices'[k] = freeIndices[k + 1]
      BY <1>2
    <3>2. freeIndices[k + 1] # i
      BY <1>2, <1>4, <3>1
    <3> QED
      BY <3>1, <3>2 DEF Listed
  <2> QED
    BY <1>5, <2>1
<1>7. Listed \ {i} \subseteq Listed'
  <2>1. ASSUME NEW k \in 1 .. n, freeIndices[k] # i PROVE freeIndices[k] \in Listed'
    <3>1. k - 1 \in 1 .. (n - 1) /\ (k - 1) + 1 = k
      BY <1>2, <2>1
    <3>2. freeIndices'[k - 1] = freeIndices[k]
      BY <1>2, <3>1
    <3> QED
      BY <1>5, <3>1, <3>2
  <2> QED
    BY <2>1 DEF Listed
<1>8. ASSUME NEW j \in 1 .. (n - 1), NEW k \in 1 .. (n - 1), freeIndices'[j] = freeIndices'[k]
      PROVE  j = k
  <2>1. j + 1 \in 1 .. n /\ k + 1 \in 1 .. n /\ freeIndices[j + 1] = freeIndices[k + 1]
    BY <1>2, <1>8
  <2>2. j + 1 = k + 1
    BY <1>4, <2>1
  <2> QED
    BY <2>2
<1>9. Listed' = Listed \ {i}
  BY <1>6, <1>7
<1> HIDE DEF i, n
<1> QED
  BY <1>2, <1>3, <1>8, <1>9

\* acquire moves the oldest free buffer under the frame.
LEMMA AcquireKeepsSInv ==
    ASSUME SInv, Acquire
    PROVE  SInv'
<1>1. /\ pc = "awake" /\ target \in Frames /\ slot[target] = None
      /\ UNCHANGED <<running, interval, due, frameIndex, picture, lost>>
  BY DEF Acquire, SInv, TypeOK, InHand, Schedule
<1>2. CASE freeIndices = <<>>
  <2>1. /\ pc' = "ready" /\ target' = NoFrame /\ freeIndices' = freeIndices
        /\ slot' = slot /\ shows' = shows
    BY <1>2 DEF Acquire, Return
  <2>2. TypeOK'
    BY <1>1, <2>1, PoolAssumption DEF SInv, TypeOK
  <2>3. InHand'
    BY <1>1, <2>1, PoolAssumption DEF InHand
  <2> QED
    BY <1>1, <2>1, <2>2, <2>3, PoolKept
<1>3. CASE freeIndices # <<>>
  <2> DEFINE i == Head(freeIndices)
  <2>1. /\ pc' = "draw" /\ target' = target /\ freeIndices' = AfterAcquire(freeIndices)
        /\ slot' = [slot EXCEPT ![target] = i] /\ shows' = [shows EXCEPT ![target] = None]
    BY <1>3 DEF Acquire
  <2>2. /\ i \in Listed /\ i \in Index /\ i # None
        /\ freeIndices' \in Seq(Index) /\ Listed' = Listed \ {i}
        /\ \A j, k \in 1 .. Len(freeIndices)' : freeIndices'[j] = freeIndices'[k] => j = k
    BY <1>3, <2>1, FrontTaken
  <2> HIDE DEF i
  <2>3. /\ slot \in [Frames -> Index \cup {None}]
        /\ shows \in [Frames -> (0 .. (Tile - 1)) \cup {None}]
        /\ slot'[target] = i /\ shows'[target] = None
        /\ \A f \in Frames : f # target => slot'[f] = slot[f] /\ shows'[f] = shows[f]
    BY <1>1, <2>1 DEF SInv, TypeOK
  <2>4. TypeOK'
    BY <1>1, <2>1, <2>2, <2>3, PoolAssumption DEF SInv, TypeOK
  <2>5. \A h \in Frames : slot[h] # i
    BY <2>2 DEF SInv, Apart
  <2>6. Apart'
    BY <1>1, <2>2, <2>3, <2>5 DEF SInv, Apart
  <2>7. Placed'
    <3>1. ASSUME NEW b \in Index
          PROVE  b \in Listed' \cup lost \/ \E f \in Frames : slot'[f] = b
      <4>1. CASE b = i
        BY <1>1, <2>3, <4>1
      <4>2. CASE \E f \in Frames : slot[f] = b
        BY <1>1, <2>3, <4>2, IndexIsNumber
      <4>3. CASE b # i /\ b \in Listed \cup lost
        BY <2>2, <4>3
      <4> QED
        BY <4>1, <4>2, <4>3 DEF SInv, Placed
    <3> QED
      BY <1>1, <3>1 DEF Placed
  <2>8. InHand' /\ PictureIntact'
    BY <1>1, <2>1, <2>2, <2>3 DEF InHand, PictureIntact, SInv
  <2> QED
    BY <2>4, <2>6, <2>7, <2>8 DEF SInv
<1> QED
  BY <1>2, <1>3

\* A buffer whose lease cannot be allocated moves to none.
LEMMA AllocationFailsKeepsSInv ==
    ASSUME SInv, AllocationFails
    PROVE  SInv'
<1> DEFINE i == Head(freeIndices)
<1>1. /\ pc = "awake" /\ target \in Frames /\ slot[target] = None
      /\ pc' = "ready" /\ target' = NoFrame
      /\ freeIndices # <<>> /\ freeIndices' = AfterAcquire(freeIndices)
      /\ lost' = lost \cup {i}
      /\ UNCHANGED <<running, interval, due, frameIndex, slot, shows, picture>>
  BY DEF AllocationFails, Return, SInv, TypeOK, InHand, Schedule
<1>2. /\ i \in Listed /\ i \in Index /\ i # None
      /\ freeIndices' \in Seq(Index) /\ Listed' = Listed \ {i}
      /\ \A j, k \in 1 .. Len(freeIndices)' : freeIndices'[j] = freeIndices'[k] => j = k
  BY <1>1, FrontTaken
<1> HIDE DEF i
<1>3. TypeOK'
  BY <1>1, <1>2, PoolAssumption DEF SInv, TypeOK
<1>4. Apart'
  BY <1>1, <1>2 DEF SInv, Apart
<1>5. Placed'
  BY <1>1, <1>2 DEF SInv, Placed
<1>6. InHand' /\ PictureIntact'
  BY <1>1 DEF SInv, InHand, PictureIntact
<1> QED
  BY <1>3, <1>4, <1>5, <1>6 DEF SInv

\* Only the buffer of the frame in hand is drawn into.
LEMMA DrawKeepsSInv ==
    ASSUME SInv, Draw
    PROVE  SInv'
<1>1. /\ pc = "draw" /\ target \in Frames /\ slot[target] \in Index
      /\ pc' = "ready" /\ target' = NoFrame
      /\ UNCHANGED <<running, interval, due, freeIndices, slot, lost>>
      /\ picture' = [picture EXCEPT ![slot[target]] = frameIndex]
      /\ shows' = [shows EXCEPT ![target] = frameIndex]
      /\ frameIndex' = (frameIndex + 1) % Tile
  BY DEF Draw, Return, SInv, TypeOK, InHand
<1>2. frameIndex' \in 0 .. (Tile - 1)
  <2>1. frameIndex + 1 \in Nat /\ Tile \in Nat \ {0}
    BY PoolAssumption DEF SInv, TypeOK
  <2> QED
    BY <1>1, <2>1
<1>3. TypeOK'
  BY <1>1, <1>2, PoolAssumption DEF SInv, TypeOK
<1>4. Apart' /\ Placed' /\ InHand'
  <2>1. Listed' = Listed
    BY <1>1 DEF Listed
  <2> QED
    BY <1>1, <2>1 DEF SInv, Apart, Placed, InHand
<1>5. PictureIntact'
  <2>1. ASSUME NEW f \in Frames, slot[f] # None, shows'[f] # None
        PROVE  picture'[slot[f]] = shows'[f]
    <3>1. /\ slot[f] \in Index /\ picture \in [Index -> (0 .. (Tile - 1)) \cup {None}]
          /\ shows \in [Frames -> (0 .. (Tile - 1)) \cup {None}]
      BY <2>1 DEF SInv, TypeOK
    <3>2. CASE f = target
      BY <1>1, <3>1, <3>2
    <3>3. CASE f # target
      <4>1. slot[f] # slot[target] /\ shows'[f] = shows[f]
        BY <1>1, <2>1, <3>1, <3>3 DEF SInv, Apart
      <4>2. picture[slot[f]] = shows[f]
        BY <2>1, <4>1 DEF SInv, PictureIntact
      <4> QED
        BY <1>1, <3>1, <4>1, <4>2
    <3> QED
      BY <3>2, <3>3
  <2> QED
    BY <1>1, <2>1 DEF PictureIntact
<1> QED
  BY <1>3, <1>4, <1>5 DEF SInv

LEMMA DrawThrowsKeepsSInv ==
    ASSUME SInv, DrawThrows
    PROVE  SInv'
<1>1. /\ pc' = "ready" /\ target' = NoFrame
      /\ UNCHANGED <<running, interval, due, frameIndex, Pool>>
  BY DEF DrawThrows, Return, Schedule
<1>2. TypeOK'
  BY <1>1, PoolAssumption DEF SInv, TypeOK, Pool
<1>3. InHand'
  BY <1>1 DEF InHand
<1> QED
  BY <1>1, <1>2, <1>3, PoolKept DEF Pool

\* A buffer that comes back was under the frame that is destroyed, and under no
\* other.
LEMMA ReleaseKeepsSInv ==
    ASSUME SInv, NEW r \in Frames, Release(r)
    PROVE  SInv'
<1> DEFINE i == slot[r]
           n == Len(freeIndices)
<1>1. /\ i # None /\ r # target
      /\ UNCHANGED <<pc, running, interval, due, frameIndex, target, lost>>
      /\ freeIndices' = Append(freeIndices, i)
      /\ slot' = [slot EXCEPT ![r] = None]
      /\ shows' = [shows EXCEPT ![r] = None]
      /\ picture' = [picture EXCEPT ![i] = None]
  BY DEF Release, Delivered, AfterRelease, Schedule
<1>2. /\ slot \in [Frames -> Index \cup {None}] /\ i \in Index
      /\ shows \in [Frames -> (0 .. (Tile - 1)) \cup {None}]
      /\ picture \in [Index -> (0 .. (Tile - 1)) \cup {None}]
      /\ freeIndices \in Seq(Index)
  BY <1>1 DEF SInv, TypeOK
<1>3. /\ n \in Nat /\ freeIndices' \in Seq(Index) /\ Len(freeIndices') = n + 1
      /\ freeIndices'[n + 1] = i
      /\ \A k \in 1 .. n : freeIndices'[k] = freeIndices[k]
  BY <1>1, <1>2, LenProperties
<1>4. /\ slot'[r] = None /\ shows'[r] = None
      /\ \A f \in Frames : f # r => slot'[f] = slot[f] /\ shows'[f] = shows[f]
  BY <1>1, <1>2
<1>5. TypeOK'
  BY <1>1, <1>2, <1>3, PoolAssumption DEF SInv, TypeOK
<1>6. Listed' = Listed \cup {i}
  <2>1. 1 .. (n + 1) = (1 .. n) \cup {n + 1}
    BY <1>3
  <2>2. Listed' = {freeIndices'[k] : k \in (1 .. n) \cup {n + 1}}
    BY <1>3, <2>1 DEF Listed
  <2> QED
    BY <1>3, <2>2 DEF Listed
<1>7. i \notin Listed \cup lost /\ \A f \in Frames : f # r => slot[f] # i
  BY <1>1 DEF SInv, Apart
<1>8. Apart'
  <2>1. ASSUME NEW j \in 1 .. (n + 1), NEW k \in 1 .. (n + 1), freeIndices'[j] = freeIndices'[k]
        PROVE  j = k
    <3>1. (j = n + 1 \/ j \in 1 .. n) /\ (k = n + 1 \/ k \in 1 .. n)
      BY <1>3
    <3>2. \A m \in 1 .. n : freeIndices[m] # i
      BY <1>7 DEF Listed
    <3> QED
      BY <1>3, <2>1, <3>1, <3>2 DEF SInv, Apart
  <2>2. None \notin Listed \cup lost /\ None # i
    BY <1>2, IndexIsNumber, ListedIsIndex DEF SInv, TypeOK
  <2> QED
    BY <1>1, <1>3, <1>4, <1>6, <1>7, <2>1, <2>2 DEF SInv, Apart
<1>9. Placed'
  BY <1>1, <1>4, <1>6 DEF SInv, Placed
<1>10. InHand'
  BY <1>1, <1>4, PoolAssumption DEF SInv, TypeOK, InHand
<1>11. PictureIntact'
  <2>1. ASSUME NEW f \in Frames, slot'[f] # None, shows'[f] # None
        PROVE  picture'[slot'[f]] = shows'[f]
    <3>1. slot'[f] = slot[f] /\ shows'[f] = shows[f] /\ slot[f] # i
      BY <1>4, <1>7, <2>1
    <3>2. picture[slot[f]] = shows[f]
      BY <2>1, <3>1 DEF SInv, PictureIntact
    <3> QED
      BY <1>1, <1>2, <2>1, <3>1, <3>2
  <2> QED
    BY <2>1 DEF PictureIntact
<1> QED
  BY <1>5, <1>8, <1>9, <1>10, <1>11 DEF SInv

LEMMA StutterKeepsSInv ==
    ASSUME SInv, UNCHANGED vars
    PROVE  SInv'
<1>1. TypeOK' /\ InHand' /\ UNCHANGED <<freeIndices, slot, shows, picture, lost>>
  BY DEF SInv, TypeOK, InHand, vars
<1> QED
  BY <1>1, PoolKept

\* Every step of a source keeps SInv.
LEMMA NextKeepsSInv ==
    ASSUME SInv, [Next]_vars
    PROVE  SInv'
  BY ControlKeepsSInv, CallKeepsSInv, WakeKeepsSInv, AcquireKeepsSInv,
     AllocationFailsKeepsSInv, DrawKeepsSInv, DrawThrowsKeepsSInv,
     ReleaseKeepsSInv, StutterKeepsSInv
     DEF Next, Call, Answer, Throw, ReleaseAny

-----------------------------------------------------------------------------
\* Buffers, frames and pictures agree, whoever destroys a frame and when.
THEOREM SourceInvariant == Spec => []SInv
  BY InitSInv, NextKeepsSInv, PTL DEF Spec

\* Every buffer is in one place, on the free list once or under one frame, and
\* one whose lease could not be allocated in neither.
THEOREM BuffersAccountedCorrect == Spec => []BuffersAccounted
<1>1. SInv => BuffersAccounted
  <2>1. SUFFICES ASSUME SInv, NEW i \in Index
                 PROVE  LET listed == {k \in DOMAIN freeIndices : freeIndices[k] = i}
                            held == {f \in Frames : slot[f] = i}
                        IN  IF i \in lost THEN listed \cup held = {}
                            ELSE \E place \in {listed, held} :
                                     /\ \E p \in place : place = {p}
                                     /\ listed \cup held = place
    BY DEF BuffersAccounted
  <2> DEFINE listed == {k \in DOMAIN freeIndices : freeIndices[k] = i}
             held == {f \in Frames : slot[f] = i}
  <2>2. DOMAIN freeIndices = 1 .. Len(freeIndices) /\ i # None
    BY <2>1, LenProperties, IndexIsNumber DEF SInv, TypeOK
  <2>3. i \in Listed <=> listed # {}
    BY <2>2 DEF Listed
  <2>4. CASE i \in lost
    <3>1. listed = {} /\ held = {}
      BY <2>1, <2>3, <2>4 DEF SInv, Apart
    <3> QED
      BY <2>4, <3>1
  <2>5. CASE i \notin lost /\ i \in Listed
    <3>1. PICK k \in 1 .. Len(freeIndices) : freeIndices[k] = i
      BY <2>5 DEF Listed
    <3>2. listed = {k}
      BY <2>1, <2>2, <3>1 DEF SInv, Apart
    <3>3. held = {}
      BY <2>1, <2>5 DEF SInv, Apart
    <3> QED
      BY <2>5, <3>2, <3>3
  <2>6. CASE i \notin lost /\ i \notin Listed
    <3>1. listed = {}
      BY <2>3, <2>6
    <3>2. PICK f \in Frames : slot[f] = i
      BY <2>1, <2>6 DEF SInv, Placed
    <3>3. held = {f}
      BY <2>1, <2>2, <3>2 DEF SInv, Apart
    <3> QED
      BY <2>6, <3>1, <3>3
  <2> QED
    BY <2>4, <2>5, <2>6
<1> QED
  BY <1>1, SourceInvariant, PTL

\* No later frame is drawn over one that is still held.
THEOREM PictureIntactCorrect == Spec => []PictureIntact
<1>1. SInv => PictureIntact
  BY DEF SInv
<1> QED
  BY <1>1, SourceInvariant, PTL

-----------------------------------------------------------------------------
(***************************************************************************)
(* The pipeline.                                                           *)
(***************************************************************************)
Stage == {"between", "noOutput", "acquired", "source", "noInput", "filled",
          "scaled", "queued", "refused", "throwing"}

Hand == {"none", "pool", "client", "transport", "done"}

Counter == 0 .. (CountModulus - 1)

Counts ==
    /\ stats \in [framesQueued : Counter, sourceTimeouts : Counter,
                  backpressureEvents : Counter, errors : Counter]
    /\ seen \in [taken : Counter, dry : Counter, refused : Counter, thrown : Counter]

PipelineTypes ==
    /\ stage \in Stage /\ output \in SinkBuffers \cup {NoBuffer}
    /\ started \in BOOLEAN /\ owner \in [SinkBuffers -> Hand]
    /\ content \in [SinkBuffers -> [label : Int, picture : Int]]
    /\ Counts

\* pump has one buffer of the sink, and while it works it has one, of a sink
\* that is started; a stopped sink has none anywhere else.
OutputHeld ==
    /\ \A b \in SinkBuffers : owner[b] = "client" <=> output = b
    /\ stage = "between" => output = NoBuffer
    /\ stage \in {"acquired", "source", "filled", "scaled"} => output # NoBuffer
    /\ output # NoBuffer => started
    /\ \A b \in SinkBuffers : owner[b] = "none" <=> ~started

\* pump's frame of the source is filled by the call of getFrame that pump makes,
\* and by no other, and is labelled if that call returns.
InputHeld ==
    /\ pc # "ready" => stage \in {"between", "source"}
    /\ target = Input => stage = "source"
    /\ stage = "source" /\ pc # "ready" => target = Input
    /\ stage \in {"between", "acquired"} => slot[Input] = None
    /\ stage = "source" /\ pc = "ready" /\ slot[Input] # None => shows[Input] # None
    /\ stage = "filled" => slot[Input] # None /\ shows[Input] # None

\* What a counter is at, its increment to come included.
Coming(n, stages) == IF stage \in stages THEN (n + 1) % CountModulus ELSE n

\* A counter lacks what happened last, until pump leaves by the way that counts
\* it.
Tally ==
    /\ seen.taken = Coming(stats.framesQueued, {"queued"})
    /\ seen.dry = Coming(stats.sourceTimeouts, {"noInput"})
    /\ seen.refused = Coming(stats.backpressureEvents, {"noOutput", "refused"})
    /\ seen.thrown = Coming(stats.errors, {"throwing"})

ContentIntact ==
    \A b \in SinkBuffers :
        owner[b] = "transport" \/ (stage = "scaled" /\ b = output)
            => content[b].label = content[b].picture

PipelineInv ==
    /\ SInv /\ PipelineTypes /\ OutputHeld /\ InputHeld /\ Tally /\ ContentIntact

-----------------------------------------------------------------------------
\* The frame pump declares is one of the frames.
LEMMA InputIsFrame == Input \in Frames
  BY PipelineAssumption DEF Input

\* A step of the pipeline is one of its source, or leaves the source alone.
LEMMA StepIsOfSource ==
    ASSUME [PipelineNext]_pipelineVars
    PROVE  [Next]_vars
<1> USE InputIsFrame DEF sinkVars, countVars, pumpVars, vars
<1>1. CASE StartSink
  BY <1>1 DEF StartSink
<1>2. CASE StopSink
  BY <1>2 DEF StopSink
<1>3. CASE RecycleSink
  BY <1>3 DEF RecycleSink, ClientHolds
<1>4. CASE ResetStats
  BY <1>4 DEF ResetStats
<1>5. CASE ControlSource
  BY <1>5 DEF ControlSource, Next
<1>6. CASE Others
  BY <1>6 DEF Others, Borrow, Dispose, Next, Call, ReleaseAny
<1>7. CASE Pump
  BY <1>7 DEF Pump, Go, Saw, Acquirable
<1>8. CASE AskSource
  BY <1>8 DEF AskSource, Next, Call
<1>9. CASE SourceWorks
  BY <1>9 DEF SourceWorks, Next
<1>10. CASE SourceAnswers
  BY <1>10 DEF SourceAnswers, Go, Saw
<1>11. CASE Scale
  BY <1>11 DEF Scale, Go, LabelScaled
<1>12. CASE Push
  BY <1>12 DEF Push, Go, Saw
<1>13. CASE LeaveAny
  BY <1>13 DEF LeaveAny, LeaveWithoutOutput, LeaveWithoutInput, LeaveRefused,
     LeaveQueued, LeaveThrowing, Leave, Count, Go, OwnerAfterDrop, Next,
     ReleaseAny
<1>14. CASE AcquireThrows
  BY <1>14 DEF AcquireThrows, Throws, Go, Saw
<1>15. CASE SourceThrows
  BY <1>15 DEF SourceThrows, Next
<1>16. CASE ScaleThrows
  BY <1>16 DEF ScaleThrows, Throws, Go, Saw
<1>17. CASE PushRefused
  BY <1>17 DEF PushRefused, Throws, Go, Saw
<1>18. CASE CompleteAny
  BY <1>18 DEF CompleteAny, Complete
<1>19. CASE TimePasses
  BY <1>19 DEF TimePasses, Next
<1>20. CASE UNCHANGED pipelineVars
  BY <1>20 DEF pipelineVars, vars
<1> QED
  BY <1>1, <1>2, <1>3, <1>4, <1>5, <1>6, <1>7, <1>8, <1>9, <1>10, <1>11, <1>12,
     <1>13, <1>14, <1>15, <1>16, <1>17, <1>18, <1>19, <1>20 DEF PipelineNext,
     Owner, Working, Failing

\* Every step counts by one, in one place.
LEMMA NextCounts ==
    ASSUME Counts, [PipelineNext]_pipelineVars
    PROVE  Counts'
<1> USE DEF sinkVars, countVars, pumpVars, Counts
<1>a. 0 \in Counter /\ \A n \in Counter : (n + 1) % CountModulus \in Counter
  BY PipelineAssumption DEF Counter
<1>b. ASSUME NEW c \in {"framesQueued", "sourceTimeouts", "backpressureEvents", "errors"},
             Count(c), UNCHANGED seen
      PROVE  Counts'
  BY <1>a, <1>b DEF Count
<1>c. ASSUME NEW e \in {"taken", "dry", "refused", "thrown"}, Saw(e), UNCHANGED stats
      PROVE  Counts'
  BY <1>a, <1>c DEF Saw
<1>1. CASE StartSink
  BY <1>1 DEF StartSink
<1>2. CASE StopSink
  BY <1>2 DEF StopSink
<1>3. CASE RecycleSink
  BY <1>3 DEF RecycleSink, ClientHolds
<1>4. CASE ResetStats
  BY <1>4, <1>a DEF ResetStats, Zero, NothingSeen
<1>5. CASE ControlSource
  BY <1>5 DEF ControlSource
<1>6. CASE Others
  BY <1>6 DEF Others, Borrow, Dispose
<1>7. CASE Pump
  BY <1>7, <1>c DEF Pump
<1>8. CASE AskSource
  BY <1>8 DEF AskSource, Go
<1>9. CASE SourceWorks
  BY <1>9 DEF SourceWorks
<1>10. CASE SourceAnswers
  BY <1>10, <1>c DEF SourceAnswers
<1>11. CASE Scale
  BY <1>11 DEF Scale, Go, LabelScaled
<1>12. CASE Push
  BY <1>12, <1>c DEF Push
<1>13. CASE LeaveAny
  BY <1>13, <1>b DEF LeaveAny, LeaveWithoutOutput, LeaveWithoutInput, LeaveRefused,
     LeaveQueued, LeaveThrowing, Leave
<1>14. CASE AcquireThrows
  BY <1>14, <1>c DEF AcquireThrows, Throws
<1>15. CASE SourceThrows
  BY <1>15, <1>c DEF SourceThrows, Throws
<1>16. CASE ScaleThrows
  BY <1>16, <1>c DEF ScaleThrows, Throws
<1>17. CASE PushRefused
  BY <1>17, <1>c DEF PushRefused, Throws
<1>18. CASE CompleteAny
  BY <1>18 DEF CompleteAny, Complete
<1>19. CASE TimePasses
  BY <1>19 DEF TimePasses
<1>20. CASE UNCHANGED pipelineVars
  BY <1>20 DEF pipelineVars, vars
<1> QED
  BY <1>1, <1>2, <1>3, <1>4, <1>5, <1>6, <1>7, <1>8, <1>9, <1>10, <1>11, <1>12,
     <1>13, <1>14, <1>15, <1>16, <1>17, <1>18, <1>19, <1>20 DEF PipelineNext,
     Owner, Working, Failing

\* Every step keeps the types of what pump and the sink are at.
LEMMA NextHands ==
    ASSUME PipelineTypes, [PipelineNext]_pipelineVars
    PROVE  /\ stage' \in Stage /\ output' \in SinkBuffers \cup {NoBuffer}
           /\ started' \in BOOLEAN /\ owner' \in [SinkBuffers -> Hand]
<1> USE DEF sinkVars, countVars, pumpVars, PipelineTypes, Hand, Stage
<1>1. CASE StartSink
  BY <1>1 DEF StartSink
<1>2. CASE StopSink
  BY <1>2 DEF StopSink
<1>3. CASE RecycleSink
  BY <1>3 DEF RecycleSink, ClientHolds
<1>4. CASE ResetStats
  BY <1>4 DEF ResetStats
<1>5. CASE ControlSource
  BY <1>5 DEF ControlSource
<1>6. CASE Others
  BY <1>6 DEF Others, Borrow, Dispose
<1>7. CASE Pump
  BY <1>7 DEF Pump, Go, Saw, Acquirable
<1>8. CASE AskSource
  BY <1>8 DEF AskSource, Go
<1>9. CASE SourceWorks
  BY <1>9 DEF SourceWorks
<1>10. CASE SourceAnswers
  BY <1>10 DEF SourceAnswers, Go, Saw
<1>11. CASE Scale
  BY <1>11 DEF Scale, Go, LabelScaled
<1>12. CASE Push
  BY <1>12 DEF Push, Go, Saw
<1>13. CASE LeaveAny
  BY <1>13 DEF LeaveAny, LeaveWithoutOutput, LeaveWithoutInput, LeaveRefused,
     LeaveQueued, LeaveThrowing, Leave, Count, Go, OwnerAfterDrop
<1>14. CASE AcquireThrows
  BY <1>14 DEF AcquireThrows, Throws, Go, Saw
<1>15. CASE SourceThrows
  BY <1>15 DEF SourceThrows, Throws, Go, Saw
<1>16. CASE ScaleThrows
  BY <1>16 DEF ScaleThrows, Throws, Go, Saw
<1>17. CASE PushRefused
  BY <1>17 DEF PushRefused, Throws, Go, Saw
<1>18. CASE CompleteAny
  BY <1>18 DEF CompleteAny, Complete
<1>19. CASE TimePasses
  BY <1>19 DEF TimePasses
<1>20. CASE UNCHANGED pipelineVars
  BY <1>20 DEF pipelineVars, vars
<1> QED
  BY <1>1, <1>2, <1>3, <1>4, <1>5, <1>6, <1>7, <1>8, <1>9, <1>10, <1>11, <1>12,
     <1>13, <1>14, <1>15, <1>16, <1>17, <1>18, <1>19, <1>20 DEF PipelineNext,
     Owner, Working, Failing

\* Every step keeps the type of the buffers' contents.
LEMMA NextContents ==
    ASSUME SInv, InputHeld, PipelineTypes, [PipelineNext]_pipelineVars
    PROVE  content' \in [SinkBuffers -> [label : Int, picture : Int]]
<1> USE DEF sinkVars, countVars, pumpVars, PipelineTypes
<1>a. Blank \in [label : Int, picture : Int]
  BY DEF Blank
<1>1. CASE StartSink
  BY <1>1 DEF StartSink
<1>2. CASE StopSink
  BY <1>2, <1>a DEF StopSink
<1>3. CASE RecycleSink
  BY <1>3, <1>a DEF RecycleSink, ClientHolds
<1>4. CASE ResetStats
  BY <1>4 DEF ResetStats
<1>5. CASE ControlSource
  BY <1>5 DEF ControlSource
<1>6. CASE Others
  BY <1>6 DEF Others, Borrow, Dispose
<1>7. CASE Pump
  BY <1>7 DEF Pump, Go, Saw, Acquirable
<1>8. CASE AskSource
  BY <1>8 DEF AskSource, Go
<1>9. CASE SourceWorks
  BY <1>9 DEF SourceWorks
<1>10. CASE SourceAnswers
  BY <1>10 DEF SourceAnswers, Go, Saw
<1>11. CASE Scale
  <2>1. slot[Input] \in Index
    BY <1>11, InputIsFrame DEF Scale, SInv, TypeOK, InputHeld
  <2>2. shows[Input] \in Int /\ picture[slot[Input]] \in Int
    BY <2>1, InputIsFrame DEF SInv, TypeOK, None
  <2> QED
    BY <1>11, <2>2 DEF Scale, LabelScaled
<1>12. CASE Push
  BY <1>12 DEF Push, Go, Saw
<1>13. CASE LeaveAny
  BY <1>13, <1>a DEF LeaveAny, LeaveWithoutOutput, LeaveWithoutInput, LeaveRefused,
     LeaveQueued, LeaveThrowing, Leave, Count, Go, OwnerAfterDrop
<1>14. CASE AcquireThrows
  BY <1>14 DEF AcquireThrows, Throws, Go, Saw
<1>15. CASE SourceThrows
  BY <1>15 DEF SourceThrows, Throws, Go, Saw
<1>16. CASE ScaleThrows
  BY <1>16 DEF ScaleThrows, Throws, Go, Saw
<1>17. CASE PushRefused
  BY <1>17, <1>a DEF PushRefused, Throws, Go, Saw
<1>18. CASE CompleteAny
  BY <1>18, <1>a DEF CompleteAny, Complete
<1>19. CASE TimePasses
  BY <1>19 DEF TimePasses
<1>20. CASE UNCHANGED pipelineVars
  BY <1>20 DEF pipelineVars, vars
<1> QED
  BY <1>1, <1>2, <1>3, <1>4, <1>5, <1>6, <1>7, <1>8, <1>9, <1>10, <1>11, <1>12,
     <1>13, <1>14, <1>15, <1>16, <1>17, <1>18, <1>19, <1>20 DEF PipelineNext,
     Owner, Working, Failing

LEMMA NextTypes ==
    ASSUME SInv, InputHeld, PipelineTypes, [PipelineNext]_pipelineVars
    PROVE  PipelineTypes'
  BY NextCounts, NextHands, NextContents DEF PipelineTypes

\* Every step keeps what pump has of the sink.
LEMMA NextOutputHeld ==
    ASSUME PipelineTypes, OutputHeld, [PipelineNext]_pipelineVars
    PROVE  OutputHeld'
<1> USE PipelineAssumption DEF sinkVars, countVars, pumpVars, PipelineTypes,
   OutputHeld, Hand, Stage, NoBuffer
<1>1. CASE StartSink
  BY <1>1 DEF StartSink, Between
<1>2. CASE StopSink
  BY <1>2 DEF StopSink, Between
<1>3. CASE RecycleSink
  BY <1>3 DEF RecycleSink, ClientHolds, Between
<1>4. CASE ResetStats
  BY <1>4 DEF ResetStats
<1>5. CASE ControlSource
  BY <1>5 DEF ControlSource
<1>6. CASE Others
  BY <1>6 DEF Others, Borrow, Dispose
<1>7. CASE Pump
  BY <1>7 DEF Pump, Go, Saw, Acquirable, Between
<1>8. CASE AskSource
  BY <1>8 DEF AskSource, Go
<1>9. CASE SourceWorks
  BY <1>9 DEF SourceWorks
<1>10. CASE SourceAnswers
  BY <1>10 DEF SourceAnswers, Go, Saw
<1>11. CASE Scale
  BY <1>11 DEF Scale, Go, LabelScaled
<1>12. CASE Push
  BY <1>12 DEF Push, Go, Saw
<1>13. CASE LeaveAny
  BY <1>13 DEF LeaveAny, LeaveWithoutOutput, LeaveWithoutInput, LeaveRefused,
     LeaveQueued, LeaveThrowing, Leave, Count, Go, OwnerAfterDrop
<1>14. CASE AcquireThrows
  BY <1>14 DEF AcquireThrows, Throws, Go, Saw, Between
<1>15. CASE SourceThrows
  BY <1>15 DEF SourceThrows, Throws, Go, Saw
<1>16. CASE ScaleThrows
  BY <1>16 DEF ScaleThrows, Throws, Go, Saw
<1>17. CASE PushRefused
  BY <1>17 DEF PushRefused, Throws, Go, Saw
<1>18. CASE CompleteAny
  BY <1>18 DEF CompleteAny, Complete
<1>19. CASE TimePasses
  BY <1>19 DEF TimePasses
<1>20. CASE UNCHANGED pipelineVars
  BY <1>20 DEF pipelineVars, vars
<1> QED
  BY <1>1, <1>2, <1>3, <1>4, <1>5, <1>6, <1>7, <1>8, <1>9, <1>10, <1>11, <1>12,
     <1>13, <1>14, <1>15, <1>16, <1>17, <1>18, <1>19, <1>20 DEF PipelineNext,
     Owner, Working, Failing

\* Every step keeps what pump has of the source.
LEMMA NextInputHeld ==
    ASSUME SInv, PipelineTypes, InputHeld, [PipelineNext]_pipelineVars
    PROVE  InputHeld'
<1> USE InputIsFrame DEF sinkVars, countVars, pumpVars, InputHeld, SInv, TypeOK,
   vars, Pool, Between
<1>1. CASE StartSink
  BY <1>1 DEF StartSink
<1>2. CASE StopSink
  BY <1>2 DEF StopSink
<1>3. CASE RecycleSink
  BY <1>3 DEF RecycleSink, ClientHolds
<1>4. CASE ResetStats
  BY <1>4 DEF ResetStats
<1>5. CASE ControlSource
  BY <1>5 DEF ControlSource, Control, Start, Stop, SetFrameRate
<1>6. CASE Others
  <2>1. PICK f \in Frames : Borrow(f) \/ Dispose(f)
    BY <1>6 DEF Others
  <2>2. CASE Borrow(f)
    BY <2>2, PoolAssumption DEF Borrow, GetFrame, Return
  <2>3. CASE Dispose(f)
    BY <2>3 DEF Dispose, Release
  <2> QED
    BY <2>1, <2>2, <2>3
<1>7. CASE Pump
  BY <1>7 DEF Pump, Go, Saw, Acquirable
<1>8. CASE AskSource
  BY <1>8, PoolAssumption DEF AskSource, Go, GetFrame, Return
<1>9. CASE SourceWorks
  <2>1. UNCHANGED stage /\ target \in Frames /\ (target' = target \/ target' = NoFrame)
    BY <1>9 DEF SourceWorks, Answer, Wake, Acquire, Draw, Return
  <2>2. CASE Wake
    BY <2>1, <2>2, PoolAssumption DEF Wake, Return, InHand
  <2>3. CASE Acquire
    BY <2>1, <2>3, PoolAssumption DEF Acquire, Return, InHand
  <2>4. CASE Draw
    BY <2>1, <2>4, IndexIsNumber, PoolAssumption DEF Draw, Return, None
  <2> QED
    BY <1>9, <2>2, <2>3, <2>4 DEF SourceWorks, Answer
<1>10. CASE SourceAnswers
  <2>1. stage = "source" /\ pc = "ready" /\ UNCHANGED <<pc, target, slot, shows>>
    BY <1>10 DEF SourceAnswers
  <2>2. stage' = IF slot[Input] = None THEN "noInput" ELSE "filled"
    BY <1>10 DEF SourceAnswers, Go
  <2>3. target # Input
    BY <2>1, PoolAssumption
  <2>4. slot[Input] # None => shows[Input] # None
    BY <2>1, <2>3
  <2> QED
    BY <2>1, <2>2, <2>3, <2>4
<1>11. CASE Scale
  BY <1>11 DEF Scale, Go, LabelScaled
<1>12. CASE Push
  BY <1>12 DEF Push, Go, Saw
<1>13. CASE LeaveAny
  BY <1>13 DEF LeaveAny, LeaveWithoutOutput, LeaveWithoutInput, LeaveRefused,
     LeaveQueued, LeaveThrowing, Leave, Count, Go, OwnerAfterDrop, Release
<1>14. CASE AcquireThrows
  BY <1>14 DEF AcquireThrows, Throws, Go, Saw
<1>15. CASE SourceThrows
  <2>1. /\ pc \in {"awake", "draw"} /\ pc' = "ready" /\ target' = NoFrame
        /\ UNCHANGED <<slot, shows>>
    BY <1>15 DEF SourceThrows, Throw, AllocationFails, DrawThrows, Return
  <2>2. IF stage = "source" THEN stage' = "throwing" ELSE stage' = stage
    BY <1>15 DEF SourceThrows, Throws, Go
  <2> QED
    BY <2>1, <2>2, PoolAssumption
<1>16. CASE ScaleThrows
  BY <1>16 DEF ScaleThrows, Throws, Go, Saw
<1>17. CASE PushRefused
  BY <1>17 DEF PushRefused, Throws, Go, Saw
<1>18. CASE CompleteAny
  BY <1>18 DEF CompleteAny, Complete
<1>19. CASE TimePasses
  BY <1>19 DEF TimePasses, Tick
<1>20. CASE UNCHANGED pipelineVars
  BY <1>20 DEF pipelineVars, vars
<1> QED
  BY <1>1, <1>2, <1>3, <1>4, <1>5, <1>6, <1>7, <1>8, <1>9, <1>10, <1>11, <1>12,
     <1>13, <1>14, <1>15, <1>16, <1>17, <1>18, <1>19, <1>20 DEF PipelineNext,
     Owner, Working, Failing

\* Every step keeps label and picture of what is queued together.
LEMMA NextContentIntact ==
    ASSUME SInv, PipelineTypes, OutputHeld, InputHeld, ContentIntact,
           [PipelineNext]_pipelineVars
    PROVE  ContentIntact'
<1> USE InputIsFrame DEF sinkVars, countVars, pumpVars, ContentIntact,
   OutputHeld, PipelineTypes
<1>1. CASE StartSink
  BY <1>1 DEF StartSink, Between, Blank
<1>2. CASE StopSink
  BY <1>2 DEF StopSink, Between, Blank
<1>3. CASE RecycleSink
  BY <1>3 DEF RecycleSink, ClientHolds, Between, Blank
<1>4. CASE ResetStats
  BY <1>4 DEF ResetStats
<1>5. CASE ControlSource
  BY <1>5 DEF ControlSource
<1>6. CASE Others
  BY <1>6 DEF Others, Borrow, Dispose
<1>7. CASE Pump
  BY <1>7 DEF Pump, Go, Saw, Acquirable, Between, Blank
<1>8. CASE AskSource
  BY <1>8 DEF AskSource, Go
<1>9. CASE SourceWorks
  BY <1>9 DEF SourceWorks
<1>10. CASE SourceAnswers
  BY <1>10 DEF SourceAnswers, Go, Saw
<1>11. CASE Scale
  <2>1. stage = "filled" /\ stage' = "scaled" /\ UNCHANGED <<owner, output>>
    BY <1>11 DEF Scale, Go
  <2>2. shows[Input] = picture[slot[Input]]
    BY <2>1 DEF InputHeld, SInv, PictureIntact
  <2>3. \A b \in SinkBuffers :
            content'[b] = IF b = output THEN [label |-> shows[Input], picture |-> shows[Input]]
                          ELSE content[b]
    BY <1>11, <2>2 DEF Scale, LabelScaled
  <2> QED
    BY <2>1, <2>3
<1>12. CASE Push
  BY <1>12 DEF Push, Go, Saw
<1>13. CASE LeaveAny
  BY <1>13 DEF LeaveAny, LeaveWithoutOutput, LeaveWithoutInput, LeaveRefused,
     LeaveQueued, LeaveThrowing, Leave, Count, Go, OwnerAfterDrop, Between,
     Blank
<1>14. CASE AcquireThrows
  BY <1>14 DEF AcquireThrows, Throws, Go, Saw, Between, Blank
<1>15. CASE SourceThrows
  BY <1>15 DEF SourceThrows, Throws, Go, Saw
<1>16. CASE ScaleThrows
  BY <1>16 DEF ScaleThrows, Throws, Go, Saw
<1>17. CASE PushRefused
  BY <1>17 DEF PushRefused, Throws, Go, Saw, Between, Blank
<1>18. CASE CompleteAny
  BY <1>18 DEF CompleteAny, Complete, Between, Blank
<1>19. CASE TimePasses
  BY <1>19 DEF TimePasses
<1>20. CASE UNCHANGED pipelineVars
  BY <1>20 DEF pipelineVars, vars
<1> QED
  BY <1>1, <1>2, <1>3, <1>4, <1>5, <1>6, <1>7, <1>8, <1>9, <1>10, <1>11, <1>12,
     <1>13, <1>14, <1>15, <1>16, <1>17, <1>18, <1>19, <1>20 DEF PipelineNext,
     Owner, Working, Failing

\* Every event is followed by its own count: a step sees one and makes it due,
\* counts the one that is due, or does neither.
LEMMA NextTally ==
    ASSUME Counts, Tally, [PipelineNext]_pipelineVars
    PROVE  Tally'
<1> USE DEF sinkVars, countVars, pumpVars, Counts, Tally, Coming, Between
<1>1. CASE StartSink
  BY <1>1 DEF StartSink
<1>2. CASE StopSink
  BY <1>2 DEF StopSink
<1>3. CASE RecycleSink
  BY <1>3 DEF RecycleSink, ClientHolds
<1>4. CASE ResetStats
  BY <1>4 DEF ResetStats, Zero, NothingSeen
<1>5. CASE ControlSource
  BY <1>5 DEF ControlSource
<1>6. CASE Others
  BY <1>6 DEF Others, Borrow, Dispose
<1>7. CASE Pump
  BY <1>7 DEF Pump, Go, Saw, Acquirable
<1>8. CASE AskSource
  BY <1>8 DEF AskSource, Go
<1>9. CASE SourceWorks
  BY <1>9 DEF SourceWorks
<1>10. CASE SourceAnswers
  BY <1>10 DEF SourceAnswers, Go, Saw
<1>11. CASE Scale
  BY <1>11 DEF Scale, Go, LabelScaled
<1>12. CASE Push
  BY <1>12 DEF Push, Go, Saw
<1>13. CASE LeaveAny
  <2>1. CASE LeaveWithoutOutput
    BY <2>1 DEF LeaveWithoutOutput, Count, Leave, Go
  <2>2. CASE LeaveWithoutInput
    BY <2>2 DEF LeaveWithoutInput, Count, Leave, Go
  <2>3. CASE LeaveRefused
    BY <2>3 DEF LeaveRefused, Count, Leave, Go
  <2>4. CASE LeaveQueued
    BY <2>4 DEF LeaveQueued, Count, Leave, Go
  <2>5. CASE LeaveThrowing
    BY <2>5 DEF LeaveThrowing, Count, Leave, Go
  <2> QED
    BY <1>13, <2>1, <2>2, <2>3, <2>4, <2>5 DEF LeaveAny
<1>14. CASE AcquireThrows
  BY <1>14 DEF AcquireThrows, Throws, Go, Saw
<1>15. CASE SourceThrows
  BY <1>15 DEF SourceThrows, Throws, Go, Saw
<1>16. CASE ScaleThrows
  BY <1>16 DEF ScaleThrows, Throws, Go, Saw
<1>17. CASE PushRefused
  BY <1>17 DEF PushRefused, Throws, Go, Saw
<1>18. CASE CompleteAny
  BY <1>18 DEF CompleteAny, Complete
<1>19. CASE TimePasses
  BY <1>19 DEF TimePasses
<1>20. CASE UNCHANGED pipelineVars
  BY <1>20 DEF pipelineVars, vars
<1> QED
  BY <1>1, <1>2, <1>3, <1>4, <1>5, <1>6, <1>7, <1>8, <1>9, <1>10, <1>11, <1>12,
     <1>13, <1>14, <1>15, <1>16, <1>17, <1>18, <1>19, <1>20 DEF PipelineNext,
     Owner, Working, Failing

\* Nothing is counted, held or queued when the pipeline is made.
LEMMA InitPipelineInv == PipelineInit => PipelineInv
<1> SUFFICES ASSUME PipelineInit PROVE PipelineInv
  OBVIOUS
<1> USE PipelineAssumption DEF PipelineInit
<1>1. SInv
  BY InitSInv
<1>2. PipelineTypes
  <2>1. Blank \in [label : Int, picture : Int] /\ 0 \in Counter
    BY DEF Blank, Counter
  <2>2. content \in [SinkBuffers -> [label : Int, picture : Int]] /\ Counts
    BY <2>1 DEF Counts, Zero, NothingSeen
  <2> QED
    BY <2>2 DEF PipelineTypes, Stage, Hand
<1>3. OutputHeld
  BY DEF OutputHeld, NoBuffer
<1>4. InputHeld
  BY InputIsFrame, PoolAssumption DEF InputHeld, Init
<1>5. Tally
  BY DEF Tally, Coming, Zero, NothingSeen
<1>6. ContentIntact
  BY DEF ContentIntact
<1> QED
  BY <1>1, <1>2, <1>3, <1>4, <1>5, <1>6 DEF PipelineInv

\* PipelineInv holds in every state of the pipeline.
THEOREM PipelineInvariant == PipelineSpec => []PipelineInv
<1>1. PipelineInv /\ [PipelineNext]_pipelineVars => PipelineInv'
  BY StepIsOfSource, NextKeepsSInv, NextTypes, NextOutputHeld, NextInputHeld,
     NextTally, NextContentIntact DEF PipelineInv, PipelineTypes
<1> QED
  BY InitPipelineInv, <1>1, PTL DEF PipelineSpec

\* The source in the pipeline is FrameSource: what is proved of it holds here.
THEOREM PipelineUsesSource == PipelineSpec => Spec
<1>1. PipelineInit => Init
  BY DEF PipelineInit
<1> QED
  BY <1>1, StepIsOfSource, PTL DEF PipelineSpec, Spec

\* Between two calls of pump neither of its frames is out, however the last call
\* ended, and recycleBuffers and yield may be called.
THEOREM NothingOutstanding == PipelineSpec => []NoFrameOutstanding
<1>1. PipelineInv => NoFrameOutstanding
  BY PipelineAssumption
     DEF PipelineInv, OutputHeld, InputHeld, NoFrameOutstanding, ClientHolds, NoBuffer
<1> QED
  BY PipelineInvariant, <1>1, PTL

\* Each counter is the number of times that what it counts has happened, modulo
\* the counters' width: the transport was given a frame, getFrame gave none, the
\* sink refused either of its two calls, a call threw.
THEOREM StatsCount == PipelineSpec => []StatsTellWhatHappened
<1>1. PipelineInv => StatsTellWhatHappened
  BY DEF PipelineInv, PipelineTypes, Counts, Tally, Coming, StatsTellWhatHappened
<1> QED
  BY PipelineInvariant, <1>1, PTL

\* What is queued carries the label of the frame whose picture it shows.
THEOREM QueuedIntact == PipelineSpec => []QueuedPictureIntact
<1>1. PipelineInv => QueuedPictureIntact
  BY DEF PipelineInv, ContentIntact, QueuedPictureIntact
<1> QED
  BY PipelineInvariant, <1>1, PTL

-----------------------------------------------------------------------------
(***************************************************************************)
(* The pipeline's use of the sink.                                         *)
(***************************************************************************)
Buffers == {"generation"} \X SinkBuffers

Seen(hand) == IF hand = "done" THEN "transport" ELSE hand

LEMMA SinkOwnerIs ==
    /\ SinkOwner = [b \in Buffers |-> Seen(owner[b[2]])]
    /\ SinkOwner' = [b \in Buffers |-> Seen(owner'[b[2]])]
    /\ \A b \in Buffers : b = <<"generation", b[2]>> /\ b[2] \in SinkBuffers
    /\ \A k \in SinkBuffers : <<"generation", k>> \in Buffers
  BY DEF SinkOwner, Buffers, Seen

\* A step that moves one buffer moves that buffer of the contract.
LEMMA BufferMoves ==
    ASSUME PipelineTypes, NEW k \in SinkBuffers, NEW hand,
           owner' = [owner EXCEPT ![k] = hand]
    PROVE  SinkOwner' = [SinkOwner EXCEPT ![<<"generation", k>>] = Seen(hand)]
<1>1. \A j \in SinkBuffers : owner'[j] = IF j = k THEN hand ELSE owner[j]
  BY DEF PipelineTypes
<1>2. \A b \in Buffers : b = <<"generation", k>> <=> b[2] = k
  BY SinkOwnerIs
<1>3. \A b \in Buffers :
          Seen(owner'[b[2]]) = IF b = <<"generation", k>> THEN Seen(hand) ELSE SinkOwner[b]
  BY <1>1, <1>2, SinkOwnerIs
<1> QED
  BY <1>3, SinkOwnerIs

\* With no frame out, the contract's client holds none.
LEMMA ContractClient ==
    ASSUME \A b \in SinkBuffers : owner[b] # "client"
    PROVE  Sink!WithClient = {}
  BY SinkOwnerIs DEF Sink!WithClient, Buffers, Seen

\* Every step of the pipeline is one that FrameSink allows, or leaves the
\* sink's buffers alone.
LEMMA StepIsOfSink ==
    ASSUME PipelineTypes, OutputHeld, [PipelineNext]_pipelineVars
    PROVE  [Sink!Next]_(Sink!vars)
<1> SUFFICES Sink!Next \/ (SinkGeneration' = SinkGeneration /\ SinkOwner' = SinkOwner)
  BY DEF Sink!vars
<1>a. UNCHANGED <<started, owner>> =>
          SinkGeneration' = SinkGeneration /\ SinkOwner' = SinkOwner
  BY DEF SinkGeneration, SinkOwner
<1>b. stage = "between" => Sink!WithClient = {}
  BY ContractClient, PipelineAssumption DEF OutputHeld, NoBuffer
<1>1. CASE StartSink
  <2>1. /\ Sink!WithClient = {} /\ SinkGeneration = "none" /\ SinkGeneration' = "generation"
        /\ \A k \in SinkBuffers : owner'[k] = "pool"
    BY <1>1, <1>b DEF StartSink, Between, SinkGeneration
  <2>2. SinkOwner' = [b \in Buffers |-> "pool"]
    BY <2>1, SinkOwnerIs DEF Seen
  <2>3. Sink!Begin("generation", Buffers)
    BY <2>1, <2>2 DEF Sink!Begin, Buffers
  <2> QED
    BY <2>3 DEF Sink!Next, Buffers
<1>2. CASE StopSink
  <2>1. /\ SinkGeneration' = "none"
        /\ \A k \in SinkBuffers : owner'[k] = IF owner[k] = "client" THEN "client" ELSE "none"
    BY <1>2 DEF StopSink, SinkGeneration
  <2>2. SinkOwner' = [b \in Buffers |-> IF SinkOwner[b] = "client" THEN "client" ELSE "none"]
    BY <2>1, SinkOwnerIs DEF Seen
  <2>3. Sink!Retire
    BY <2>1, <2>2 DEF Sink!Retire, Buffers
  <2> QED
    BY <2>3 DEF Sink!Next
<1>3. CASE RecycleSink
  <2>1. /\ stage = "between" /\ started /\ UNCHANGED started
        /\ \A k \in SinkBuffers : owner'[k] = "pool"
        /\ \A k \in SinkBuffers : owner[k] \in {"pool", "transport", "done"}
    BY <1>3 DEF RecycleSink, Between, ClientHolds, PipelineTypes, OutputHeld, Hand
  <2>2. SinkOwner' = [b \in Buffers |-> IF SinkOwner[b] = "transport" THEN "pool" ELSE SinkOwner[b]]
    BY <2>1, SinkOwnerIs DEF Seen
  <2>3. Sink!Recycle
    BY <2>1, <2>2, <1>b DEF Sink!Recycle, Buffers, SinkGeneration
  <2> QED
    BY <2>3 DEF Sink!Next
<1>4. CASE Pump
  <2>1. CASE Acquirable = {}
    BY <1>4, <2>1, <1>a DEF Pump
  <2>2. CASE Acquirable # {}
    <3>1. PICK k \in SinkBuffers : /\ owner[k] \in {"pool", "done"}
                                   /\ owner' = [owner EXCEPT ![k] = "client"]
                                   /\ UNCHANGED started
      BY <1>4, <2>2 DEF Pump, Acquirable
    <3>2. started
      BY <3>1 DEF OutputHeld, PipelineTypes
    <3>3. SinkOwner' = [SinkOwner EXCEPT ![<<"generation", k>>] = "client"]
      BY <3>1, BufferMoves DEF Seen
    <3>4. Sink!Acquire(<<"generation", k>>)
      BY <3>1, <3>2, <3>3, SinkOwnerIs DEF Sink!Acquire, Sink!Live, SinkGeneration, Seen
    <3> QED
      BY <3>4, SinkOwnerIs DEF Sink!Next, Buffers
  <2> QED
    BY <2>1, <2>2
<1>5. CASE Push
  <2>1. /\ output \in SinkBuffers /\ owner[output] = "client" /\ started /\ UNCHANGED started
        /\ owner' = [owner EXCEPT ![output] = "transport"]
    BY <1>5 DEF Push, OutputHeld, PipelineTypes
  <2>2. SinkOwner' = [SinkOwner EXCEPT ![<<"generation", output>>] = "transport"]
    BY <2>1, BufferMoves DEF Seen
  <2>3. Sink!Push(<<"generation", output>>)
    BY <2>1, <2>2, SinkOwnerIs DEF Sink!Push, Sink!Live, SinkGeneration, Seen
  <2> QED
    BY <2>1, <2>3, SinkOwnerIs DEF Sink!Next, Buffers
<1>6. ASSUME output \in SinkBuffers, owner' = [owner EXCEPT ![output] = "pool"],
             UNCHANGED started
      PROVE  Sink!Next
  <2>1. owner[output] = "client" /\ started
    BY <1>6, PipelineAssumption DEF OutputHeld, NoBuffer
  <2>2. SinkOwner' = [SinkOwner EXCEPT ![<<"generation", output>>] = "pool"]
    BY <1>6, BufferMoves DEF Seen
  <2>3. Sink!GiveBack(<<"generation", output>>)
    BY <1>6, <2>1, <2>2, SinkOwnerIs DEF Sink!GiveBack, Sink!Live, SinkGeneration, Seen
  <2> QED
    BY <1>6, <2>3, SinkOwnerIs DEF Sink!Next, Buffers
<1>7. CASE PushRefused
  BY <1>6, <1>7 DEF PushRefused, OutputHeld, PipelineTypes
<1>8. CASE LeaveAny
  <2>1. /\ owner' = [b \in SinkBuffers |-> IF b = output THEN "pool" ELSE owner[b]]
        /\ UNCHANGED started
    BY <1>8 DEF LeaveAny, LeaveWithoutOutput, LeaveWithoutInput, LeaveRefused,
       LeaveQueued, LeaveThrowing, Leave, OwnerAfterDrop
  <2>2. CASE output \in SinkBuffers
    <3>1. owner' = [owner EXCEPT ![output] = "pool"]
      BY <2>1 DEF PipelineTypes
    <3> QED
      BY <1>6, <2>1, <2>2, <3>1
  <2>3. CASE output \notin SinkBuffers
    <3>1. owner' = owner
      BY <2>1, <2>3 DEF PipelineTypes
    <3> QED
      BY <1>a, <2>1, <3>1
  <2> QED
    BY <2>2, <2>3
<1>9. CASE CompleteAny
  <2>1. PICK k \in SinkBuffers : Complete(k)
    BY <1>9 DEF CompleteAny
  <2>2. /\ owner[k] = "transport" /\ UNCHANGED started
        /\ \A j \in SinkBuffers : owner'[j] = IF j = k THEN "done" ELSE owner[j]
    BY <2>1 DEF Complete, PipelineTypes
  <2>3. SinkOwner' = SinkOwner
    BY <2>2, SinkOwnerIs DEF Seen
  <2> QED
    BY <2>2, <2>3 DEF SinkGeneration
<1>10. CASE UNCHANGED <<started, owner>>
  BY <1>10, <1>a
<1> QED
  <2>1. CASE AskSource \/ SourceWorks \/ SourceAnswers \/ SourceThrows \/ Scale \/ ScaleThrows
    BY <1>10, <2>1
       DEF AskSource, SourceWorks, SourceAnswers, SourceThrows, Scale, ScaleThrows, sinkVars
  <2>2. CASE \/ ResetStats \/ ControlSource \/ Others \/ AcquireThrows \/ TimePasses
             \/ UNCHANGED pipelineVars
    BY <1>10, <2>2 DEF ResetStats, ControlSource, Others, Borrow, Dispose,
       AcquireThrows, TimePasses, pipelineVars, sinkVars
  <2> QED
    BY <1>1, <1>2, <1>3, <1>4, <1>5, <1>7, <1>8, <1>9, <2>1, <2>2
       DEF PipelineNext, Owner, Working, Failing

\* pump is a client of the sink as IFrameSink wants it: through every failure
\* it takes, hands over and gives back each buffer as FrameSink allows.
THEOREM PumpKeepsSinkContract == PipelineSpec => SinkContract
<1>1. PipelineInit => Sink!Init
  BY SinkOwnerIs DEF PipelineInit, Sink!Init, SinkGeneration, SinkOwner
<1>2. PipelineInv /\ [PipelineNext]_pipelineVars => [Sink!Next]_(Sink!vars)
  BY StepIsOfSink DEF PipelineInv
<1> QED
  BY <1>1, <1>2, PipelineInvariant, PTL DEF PipelineSpec, SinkContract, Sink!Spec
=============================================================================
