------------------------------ MODULE BufferPool ------------------------------
(***************************************************************************)
(* V4l2Sink::BufferPool: one generation of MMAP buffers, shared by the     *)
(* sink and by the buffer leases it has handed out.                        *)
(*                                                                         *)
(* Every operation of the class runs under the pool's mutex, so each is an *)
(* operator from the pool before the critical section to the pool after    *)
(* it; the steps of V4l2Sink.tla apply them.  A method that can fail comes *)
(* as two operators: whether it succeeds, and what it leaves behind.       *)
(***************************************************************************)
EXTENDS Naturals, Sequences

CONSTANT MaxBuffers      \* the most buffers a driver grants (VIDEO_MAX_FRAME)

ASSUME MaxBuffersAssumption == MaxBuffers \in Nat \ {0}

Index == 0 .. (MaxBuffers - 1)

SlotState == {"Free", "Dequeued", "Queued"}

(***************************************************************************)
(* count is slots.size(); the entries of slots from count on do not exist  *)
(* and every operation that takes an index tests it against count first.   *)
(* length is the mapped length of the buffers of the generation.           *)
(***************************************************************************)
Pool == [count : 0 .. MaxBuffers,
         slots : [Index -> SlotState],
         freeIndices : Seq(Index),
         length : Nat]

Slots(p) == {i \in Index : i < p.count}

\* The pool requestAndMapBuffers leaves: n slots, all mapped, Free and listed
\* in order.
NewPool(n, len) ==
    [count |-> n,
     slots |-> [i \in Index |-> "Free"],
     freeIndices |-> [k \in 1 .. n |-> k - 1],
     length |-> len]

-----------------------------------------------------------------------------
(***************************************************************************)
(* acquireFree: pops the head of the free list; the popped slot must be    *)
(* Free ("corrupt free-buffer queue" otherwise, with the index popped).    *)
(***************************************************************************)
FreeListCorrupt(p) ==
    LET i == Head(p.freeIndices) IN i >= p.count \/ p.slots[i] # "Free"

\* Faulty variant: leaves the popped slot Free.
AcquireFreeUnmarked(p) == [p EXCEPT !.freeIndices = Tail(@)]

AcquireFree(p) ==
    IF FreeListCorrupt(p)
    THEN [p EXCEPT !.freeIndices = Tail(@)]
    ELSE [p EXCEPT !.freeIndices = Tail(@),
                   !.slots[Head(p.freeIndices)] = "Dequeued"]

-----------------------------------------------------------------------------
\* Faulty variant: does not test the state the slot is in.
CanTransitionUnchecked(p, i, from) == i < p.count

\* transition: moves slot i from one state to another, or fails and changes
\* nothing; a slot that becomes Free goes to the back of the free list.
CanTransition(p, i, from) == i < p.count /\ p.slots[i] = from

Transition(p, i, from, to) ==
    IF CanTransition(p, i, from)
    THEN [p EXCEPT !.slots[i] = to,
                   !.freeIndices = IF to = "Free" THEN Append(@, i) ELSE @]
    ELSE p

\* Faulty variant: frees and lists the slot whatever its state.
ReleaseLeaseAnyState(p, i) ==
    [p EXCEPT !.slots[i] = "Free", !.freeIndices = Append(@, i)]

\* Faulty variant: frees the slot the device owns.
ReleaseLeaseIfQueued(p, i) == Transition(p, i, "Queued", "Free")

\* releaseLease: the destructor of a lease frees the slot only if it is still
\* Dequeued, so the lease pushFrame consumed leaves a Queued slot alone.
ReleaseLease(p, i) == Transition(p, i, "Dequeued", "Free")

-----------------------------------------------------------------------------
HasDequeued(p) == \E i \in Slots(p) : p.slots[i] = "Dequeued"

(***************************************************************************)
(* reclaimAllQueued: empties the free list, then frees and lists the slots *)
(* in index order, and throws at the first Dequeued slot it meets.         *)
(* ReclaimReach is the number of slots the loop gets through.              *)
(***************************************************************************)
ReclaimReach(p) ==
    CHOOSE n \in 0 .. p.count :
        /\ \A i \in Slots(p) : i < n => p.slots[i] # "Dequeued"
        /\ n < p.count => p.slots[n] = "Dequeued"

\* Faulty variant: does not empty the free list first.
ReclaimKeepingList(p) ==
    LET n == ReclaimReach(p) IN
    [p EXCEPT !.slots = [i \in Index |-> IF i < n THEN "Free" ELSE @[i]],
              !.freeIndices = @ \o [k \in 1 .. n |-> k - 1]]

ReclaimAllQueued(p) ==
    LET n == ReclaimReach(p) IN
    [p EXCEPT !.slots = [i \in Index |-> IF i < n THEN "Free" ELSE @[i]],
              !.freeIndices = [k \in 1 .. n |-> k - 1]]

-----------------------------------------------------------------------------
(***************************************************************************)
(* The representation invariant of the pool: freeIndices lists exactly the *)
(* Free slots, each once.  It is why acquireFree never finds the queue     *)
(* corrupt.                                                                *)
(***************************************************************************)
FreeListExact(p) ==
    /\ \A k \in DOMAIN p.freeIndices :
          p.freeIndices[k] \in Slots(p) /\ p.slots[p.freeIndices[k]] = "Free"
    /\ \A i \in Slots(p) : p.slots[i] = "Free" =>
          \E k \in DOMAIN p.freeIndices : p.freeIndices[k] = i
    /\ \A j, k \in DOMAIN p.freeIndices :
          p.freeIndices[j] = p.freeIndices[k] => j = k
=============================================================================
