---------------------------- MODULE V4l2SinkProofs ----------------------------
(***************************************************************************)
(* The safety of V4l2Sink for any number of pools, leases and buffers, any *)
(* formats and sizes, and an honest or a rogue driver.                     *)
(***************************************************************************)
EXTENDS V4l2Sink, SequenceTheorems, WellFoundedInduction, TLAPS

-----------------------------------------------------------------------------
(***************************************************************************)
(* The pool: what the operations of BufferPool preserve, its type and that *)
(* the free list names exactly the Free slots.                             *)
(***************************************************************************)

\* The types of the fields of a pool.
LEMMA PoolFields ==
  ASSUME NEW p \in Pool
  PROVE  /\ p.count \in 0 .. MaxBuffers
         /\ p.slots \in [Index -> SlotState]
         /\ p.freeIndices \in Seq(Index)
         /\ p.length \in Nat
         /\ Slots(p) \subseteq Index
  BY DEF Pool, Slots

\* requestAndMapBuffers leaves a pool whose list is exact and with no lease.
LEMMA NewPoolOK ==
  ASSUME NEW n \in 0 .. MaxBuffers, NEW len \in Nat
  PROVE  /\ NewPool(n, len) \in Pool
         /\ FreeListExact(NewPool(n, len))
         /\ NewPool(n, len).count = n
         /\ NewPool(n, len).length = len
         /\ \A i \in Index : NewPool(n, len).slots[i] = "Free"
  <1> DEFINE q == NewPool(n, len)
             list == [k \in 1 .. n |-> k - 1]
  <1>1. n \in Nat /\ n <= MaxBuffers /\ MaxBuffers \in Nat
    BY MaxBuffersAssumption
  <1>2. \A k \in 1 .. n : k - 1 \in Index
    BY <1>1 DEF Index
  <1>3. list \in [1 .. n -> Index]
    BY <1>2
  <1>4. list \in Seq(Index)
    BY <1>1, <1>3, SeqDef
  <1>5. q = [count |-> n, slots |-> [i \in Index |-> "Free"],
             freeIndices |-> list, length |-> len]
    BY DEF NewPool
  <1>6. q \in Pool
    BY <1>1, <1>4, <1>5 DEF Pool, SlotState
  <1>7. \A i \in Index : q.slots[i] = "Free"
    BY <1>5
  <1>8. FreeListExact(q)
    <2>1. DOMAIN q.freeIndices = 1 .. n /\ Slots(q) = {i \in Index : i < n}
      BY <1>5 DEF Slots
    <2>2. \A k \in 1 .. n : q.freeIndices[k] = k - 1
      BY <1>5
    <2>3. \A k \in 1 .. n : k - 1 \in Slots(q)
      BY <1>1, <1>2, <2>1
    <2>4. \A i \in Slots(q) : i + 1 \in 1 .. n /\ (i + 1) - 1 = i
      BY <1>1, <2>1 DEF Index
    <2>5. \A i \in Slots(q) : \E k \in DOMAIN q.freeIndices : q.freeIndices[k] = i
      BY <2>1, <2>2, <2>4
    <2>6. \A j, k \in DOMAIN q.freeIndices :
             q.freeIndices[j] = q.freeIndices[k] => j = k
      BY <1>1, <2>1, <2>2
    <2>7. \A k \in DOMAIN q.freeIndices :
             q.freeIndices[k] \in Slots(q) /\ q.slots[q.freeIndices[k]] = "Free"
      BY <1>7, <2>1, <2>2, <2>3
    <2> QED
      BY <2>5, <2>6, <2>7 DEF FreeListExact
  <1> QED
    BY <1>5, <1>6, <1>7, <1>8

\* acquireFree on a typed pool with a non-empty list leaves a typed pool.
LEMMA AcquireFreeType ==
  ASSUME NEW p \in Pool, p.freeIndices # <<>>
  PROVE  /\ AcquireFree(p) \in Pool
         /\ Head(p.freeIndices) \in Index
         /\ AcquireFree(p).count = p.count
         /\ AcquireFree(p).length = p.length
  <1>1. Head(p.freeIndices) \in Index /\ Tail(p.freeIndices) \in Seq(Index)
    BY HeadTailProperties, PoolFields
  <1>2. "Dequeued" \in SlotState
    BY DEF SlotState
  <1> QED
    BY <1>1, <1>2 DEF AcquireFree, Pool

\* With an exact list the head is a Free slot, and the list stays exact.
LEMMA AcquireFreeOK ==
  ASSUME NEW p \in Pool, p.freeIndices # <<>>, FreeListExact(p)
  PROVE  LET i == Head(p.freeIndices)
             q == AcquireFree(p)
         IN  /\ ~FreeListCorrupt(p)
             /\ i \in Slots(p) /\ p.slots[i] = "Free"
             /\ q.slots = [p.slots EXCEPT ![i] = "Dequeued"]
             /\ FreeListExact(q)
  <1> DEFINE i == Head(p.freeIndices)
             q == AcquireFree(p)
             list == p.freeIndices
  <1>1. /\ list \in Seq(Index) /\ Len(list) \in Nat /\ DOMAIN list = 1 .. Len(list)
        /\ Len(list) > 0
    BY PoolFields, LenProperties, EmptySeq
  <1>2. 1 \in DOMAIN list /\ i = list[1]
    BY <1>1
  <1>3. i \in Slots(p) /\ p.slots[i] = "Free"
    BY <1>2 DEF FreeListExact
  <1>4. ~FreeListCorrupt(p)
    BY <1>3, MaxBuffersAssumption DEF FreeListCorrupt, Slots, Index, Pool
  <1>5. /\ q = [p EXCEPT !.freeIndices = Tail(@), !.slots[Head(p.freeIndices)] = "Dequeued"]
    BY <1>4 DEF AcquireFree
  <1>6. /\ q.slots = [p.slots EXCEPT ![i] = "Dequeued"]
        /\ q.freeIndices = Tail(list)
        /\ q.count = p.count
    BY <1>5 DEF Pool
  <1>7. /\ Tail(list) \in Seq(Index) /\ Len(Tail(list)) = Len(list) - 1
        /\ DOMAIN Tail(list) = 1 .. Len(list) - 1
        /\ \A k \in 1 .. Len(list) - 1 : Tail(list)[k] = list[k + 1]
    BY <1>1, HeadTailProperties, LenProperties
  <1>8. Slots(q) = Slots(p)
    BY <1>6 DEF Slots
  <1>9. \A k \in DOMAIN q.freeIndices :
           /\ k + 1 \in DOMAIN list /\ k + 1 # 1
           /\ q.freeIndices[k] = list[k + 1]
           /\ q.freeIndices[k] # i
    BY <1>1, <1>2, <1>6, <1>7 DEF FreeListExact
  <1>10. \A k \in DOMAIN q.freeIndices :
           q.freeIndices[k] \in Slots(q) /\ q.slots[q.freeIndices[k]] = "Free"
    BY <1>6, <1>8, <1>9, PoolFields DEF FreeListExact
  <1>11. \A j \in Slots(q) : q.slots[j] = "Free" =>
           \E k \in DOMAIN q.freeIndices : q.freeIndices[k] = j
    <2> SUFFICES ASSUME NEW j \in Slots(q), q.slots[j] = "Free"
                 PROVE  \E k \in DOMAIN q.freeIndices : q.freeIndices[k] = j
      OBVIOUS
    <2>1. j # i /\ p.slots[j] = "Free"
      BY <1>3, <1>6, <1>8, PoolFields
    <2>2. PICK k \in DOMAIN list : list[k] = j
      BY <1>8, <2>1 DEF FreeListExact
    <2>3. k # 1 /\ k - 1 \in 1 .. Len(list) - 1 /\ (k - 1) + 1 = k
      BY <1>1, <1>2, <2>1, <2>2
    <2> QED
      BY <1>6, <1>7, <2>2, <2>3
  <1>12. \A j, k \in DOMAIN q.freeIndices :
           q.freeIndices[j] = q.freeIndices[k] => j = k
    <2> SUFFICES ASSUME NEW j \in DOMAIN q.freeIndices, NEW k \in DOMAIN q.freeIndices,
                        q.freeIndices[j] = q.freeIndices[k]
                 PROVE  j = k
      OBVIOUS
    <2>1. /\ j + 1 \in DOMAIN list /\ k + 1 \in DOMAIN list
          /\ list[j + 1] = list[k + 1]
      BY <1>9
    <2>2. j + 1 = k + 1
      BY <2>1 DEF FreeListExact
    <2>3. j \in 1 .. Len(list) - 1 /\ k \in 1 .. Len(list) - 1
      BY <1>6, <1>7
    <2> QED
      BY <1>1, <2>2, <2>3
  <1>13. FreeListExact(q)
    BY <1>10, <1>11, <1>12 DEF FreeListExact
  <1> QED
    BY <1>3, <1>4, <1>6, <1>13

\* transition keeps the type, the slot count and the length of a pool.
LEMMA TransitionType ==
  ASSUME NEW p \in Pool, NEW i \in Nat, NEW from \in SlotState, NEW to \in SlotState
  PROVE  /\ Transition(p, i, from, to) \in Pool
         /\ Transition(p, i, from, to).count = p.count
         /\ Transition(p, i, from, to).length = p.length
         /\ CanTransition(p, i, from) => i \in Slots(p)
  <1>1. CASE CanTransition(p, i, from)
    <2>1. i \in Slots(p) /\ i \in Index
      BY <1>1, MaxBuffersAssumption DEF CanTransition, Slots, Index, Pool
    <2>2. Append(p.freeIndices, i) \in Seq(Index)
      BY <2>1, AppendProperties, PoolFields
    <2> QED
      BY <1>1, <2>1, <2>2 DEF Transition, Pool
  <1>2. CASE ~CanTransition(p, i, from)
    BY <1>2 DEF Transition
  <1> QED
    BY <1>1, <1>2

\* A transition out of a state that is not Free changes one slot and keeps
\* the free list exact; it changes nothing if the slot is in another state.
LEMMA TransitionOK ==
  ASSUME NEW p \in Pool, NEW i \in Nat,
         NEW from \in {"Dequeued", "Queued"}, NEW to \in SlotState,
         FreeListExact(p)
  PROVE  LET q == Transition(p, i, from, to)
         IN  /\ FreeListExact(q)
             /\ CanTransition(p, i, from) =>
                   i \in Slots(p) /\ q.slots = [p.slots EXCEPT ![i] = to]
             /\ ~CanTransition(p, i, from) => q = p
  <1> DEFINE q == Transition(p, i, from, to)
             list == p.freeIndices
  <1>1. CASE ~CanTransition(p, i, from)
    BY <1>1 DEF Transition
  <1>2. CASE CanTransition(p, i, from)
    <2>1. i \in Slots(p) /\ i \in Index /\ p.slots[i] = from /\ from # "Free"
      BY <1>2, MaxBuffersAssumption DEF CanTransition, Slots, Index, Pool
    <2>2. /\ q.slots = [p.slots EXCEPT ![i] = to]
          /\ q.freeIndices = IF to = "Free" THEN Append(list, i) ELSE list
          /\ q.count = p.count
      BY <1>2 DEF Transition, Pool
    <2>3. Slots(q) = Slots(p)
      BY <2>2 DEF Slots
    <2>4. list \in Seq(Index) /\ Len(list) \in Nat /\ DOMAIN list = 1 .. Len(list)
      BY PoolFields, LenProperties
    <2>5. \A k \in DOMAIN list : list[k] # i
      BY <2>1 DEF FreeListExact
    <2>6. CASE to = "Free"
      <3>1. /\ DOMAIN q.freeIndices = 1 .. Len(list) + 1
            /\ \A k \in 1 .. Len(list) : q.freeIndices[k] = list[k]
            /\ q.freeIndices[Len(list) + 1] = i
        BY <2>1, <2>2, <2>4, <2>6, AppendProperties, LenProperties
      <3>2. \A k \in DOMAIN q.freeIndices :
               q.freeIndices[k] \in Slots(q) /\ q.slots[q.freeIndices[k]] = "Free"
        <4> SUFFICES ASSUME NEW k \in DOMAIN q.freeIndices
                     PROVE  q.freeIndices[k] \in Slots(q) /\ q.slots[q.freeIndices[k]] = "Free"
          OBVIOUS
        <4>1. CASE k = Len(list) + 1
          BY <2>1, <2>2, <2>3, <2>6, <3>1, <4>1, PoolFields
        <4>2. CASE k \in 1 .. Len(list)
          BY <2>2, <2>3, <2>4, <2>5, <2>6, <3>1, <4>2, PoolFields DEF FreeListExact
        <4> QED
          BY <2>4, <3>1, <4>1, <4>2
      <3>3. \A j \in Slots(q) : q.slots[j] = "Free" =>
               \E k \in DOMAIN q.freeIndices : q.freeIndices[k] = j
        BY <2>2, <2>3, <2>4, <3>1, PoolFields DEF FreeListExact
      <3>4. \A j, k \in DOMAIN q.freeIndices :
               q.freeIndices[j] = q.freeIndices[k] => j = k
        <4> SUFFICES ASSUME NEW j \in 1 .. Len(list) + 1, NEW k \in 1 .. Len(list) + 1,
                            q.freeIndices[j] = q.freeIndices[k]
                     PROVE  j = k
          BY <3>1
        <4>1. CASE j \in DOMAIN list /\ k \in DOMAIN list
          <5>1. list[j] = list[k]
            BY <2>4, <3>1, <4>1
          <5> QED
            BY <4>1, <5>1 DEF FreeListExact
        <4>2. CASE j \in DOMAIN list /\ k = Len(list) + 1
          BY <2>4, <2>5, <3>1, <4>2
        <4>3. CASE j = Len(list) + 1 /\ k \in DOMAIN list
          BY <2>4, <2>5, <3>1, <4>3
        <4> QED
          BY <2>4, <4>1, <4>2, <4>3
      <3> QED
        BY <2>1, <2>2, <1>2, <3>2, <3>3, <3>4 DEF FreeListExact
    <2>7. CASE to # "Free"
      <3>1. \A k \in DOMAIN q.freeIndices :
               q.freeIndices[k] \in Slots(q) /\ q.slots[q.freeIndices[k]] = "Free"
        BY <2>2, <2>3, <2>5, <2>7, PoolFields DEF FreeListExact
      <3>2. \A j \in Slots(q) : q.slots[j] = "Free" =>
               \E k \in DOMAIN q.freeIndices : q.freeIndices[k] = j
        BY <2>1, <2>2, <2>3, <2>7, PoolFields DEF FreeListExact
      <3> QED
        BY <2>1, <2>2, <2>7, <1>2, <3>1, <3>2 DEF FreeListExact
    <2> QED
      BY <2>6, <2>7
  <1> QED
    BY <1>1, <1>2

\* The loop of reclaimAllQueued stops at the first Dequeued slot, or at the end.
LEMMA ReclaimReachType ==
  ASSUME NEW p \in Pool
  PROVE  /\ ReclaimReach(p) \in 0 .. p.count
         /\ ~HasDequeued(p) => ReclaimReach(p) = p.count
  <1> DEFINE Stop(n) == /\ \A i \in Slots(p) : i < n => p.slots[i] # "Dequeued"
                        /\ n < p.count => p.slots[n] = "Dequeued"
             Held == {i \in Slots(p) : p.slots[i] = "Dequeued"}
  <1>1. p.count \in Nat /\ Slots(p) = {i \in Index : i < p.count} /\ Slots(p) \subseteq Nat
    BY PoolFields, MaxBuffersAssumption DEF Slots, Index
  <1>2. \E n \in 0 .. p.count : Stop(n)
    <2>1. CASE Held = {}
      BY <1>1, <2>1
    <2>2. CASE Held # {}
      <3>0. Held \subseteq Nat
        BY <1>1
      <3>1. PICK n \in Held : \A i \in Held : <<i, n>> \notin OpToRel(<, Nat)
        BY <1>1, <2>2, <3>0, WFMin, NatLessThanWellFounded, Zenon
      <3>2. \A i \in Held : ~(i < n)
        BY <3>0, <3>1, Zenon DEF OpToRel
      <3> QED
        BY <1>1, <3>2
    <2> QED
      BY <2>1, <2>2
  <1>3. ReclaimReach(p) = CHOOSE n \in 0 .. p.count : Stop(n)
    BY DEF ReclaimReach
  <1>4. ReclaimReach(p) \in 0 .. p.count /\ Stop(ReclaimReach(p))
    BY <1>2, <1>3
  <1>5. ASSUME ~HasDequeued(p) PROVE ReclaimReach(p) = p.count
    <2>1. ~(ReclaimReach(p) < p.count)
      <3> SUFFICES ASSUME ReclaimReach(p) < p.count PROVE FALSE
        OBVIOUS
      <3>1. ReclaimReach(p) \in Slots(p)
        BY <1>1, <1>4, PoolFields, MaxBuffersAssumption DEF Index
      <3> QED
        BY <1>4, <1>5, <3>1 DEF HasDequeued
    <2> QED
      BY <1>1, <1>4, <2>1
  <1> QED
    BY <1>4, <1>5

\* reclaimAllQueued keeps the type, the slot count and the length of a pool.
LEMMA ReclaimType ==
  ASSUME NEW p \in Pool
  PROVE  /\ ReclaimAllQueued(p) \in Pool
         /\ ReclaimAllQueued(p).count = p.count
         /\ ReclaimAllQueued(p).length = p.length
  <1> DEFINE n == ReclaimReach(p)
             list == [k \in 1 .. n |-> k - 1]
  <1>1. n \in Nat /\ n <= MaxBuffers
    BY ReclaimReachType, PoolFields, MaxBuffersAssumption
  <1>2. \A k \in 1 .. n : k - 1 \in Index
    BY <1>1, MaxBuffersAssumption DEF Index
  <1>3. list \in Seq(Index)
    BY <1>1, <1>2, SeqDef
  <1>4. [i \in Index |-> IF i < n THEN "Free" ELSE p.slots[i]] \in [Index -> SlotState]
    BY PoolFields DEF SlotState
  <1> QED
    BY <1>3, <1>4 DEF ReclaimAllQueued, Pool

\* With no Dequeued slot, reclaimAllQueued frees and lists every slot.
LEMMA ReclaimOK ==
  ASSUME NEW p \in Pool, ~HasDequeued(p)
  PROVE  LET q == ReclaimAllQueued(p)
         IN  /\ FreeListExact(q)
             /\ Slots(q) = Slots(p)
             /\ \A i \in Slots(q) : q.slots[i] = "Free"
  <1> DEFINE n == p.count
             q == ReclaimAllQueued(p)
             list == [k \in 1 .. n |-> k - 1]
  <1>1. n \in Nat /\ n <= MaxBuffers /\ MaxBuffers \in Nat
    BY PoolFields, MaxBuffersAssumption
  <1>2. ReclaimReach(p) = n
    BY ReclaimReachType
  <1>3. /\ q.slots = [i \in Index |-> IF i < n THEN "Free" ELSE p.slots[i]]
        /\ q.freeIndices = list
        /\ q.count = n
    BY <1>2 DEF ReclaimAllQueued, Pool
  <1>4. Slots(q) = Slots(p) /\ Slots(q) = {i \in Index : i < n}
    BY <1>3 DEF Slots
  <1>5. \A i \in Slots(q) : q.slots[i] = "Free"
    BY <1>3, <1>4
  <1>6. DOMAIN list = 1 .. n /\ \A k \in 1 .. n : list[k] = k - 1
    OBVIOUS
  <1>7. \A k \in 1 .. n : k - 1 \in Slots(q)
    BY <1>1, <1>4 DEF Index
  <1>8. \A i \in Slots(q) : i + 1 \in 1 .. n /\ (i + 1) - 1 = i
    BY <1>1, <1>4 DEF Index
  <1>9. \A k \in DOMAIN list : list[k] \in Slots(q) /\ q.slots[list[k]] = "Free"
    BY <1>5, <1>6, <1>7
  <1>10. \A i \in Slots(q) : \E k \in DOMAIN list : list[k] = i
    BY <1>6, <1>8
  <1>11. \A j, k \in DOMAIN list : list[j] = list[k] => j = k
    BY <1>1, <1>6
  <1> HIDE DEF q, list
  <1>12. FreeListExact(q)
    BY <1>3, <1>9, <1>10, <1>11 DEF FreeListExact
  <1> USE DEF q
  <1> QED
    BY <1>4, <1>5, <1>12

-----------------------------------------------------------------------------
(***************************************************************************)
(* The sink.                                                               *)
(***************************************************************************)

\* Slot i of pool p moves from one state to another; nothing else in the heap
\* changes but the free list of p, which stays exact.
SlotMoved(p, i, from, to) ==
  /\ p \in Pools /\ i \in Slots(heap[p])
  /\ heap[p].slots[i] = from
  /\ heap' \in [Pools -> Pool]
  /\ \A q \in Pools \ {p} : heap'[q] = heap[q]
  /\ heap'[p].slots = [heap[p].slots EXCEPT ![i] = to]
  /\ Slots(heap'[p]) = Slots(heap[p])
  /\ heap'[p].length = heap[p].length
  /\ FreeListExact(heap'[p])

-----------------------------------------------------------------------------
(***************************************************************************)
(* What each action that touches the heap does to it.                      *)
(***************************************************************************)

\* Slots depends only on the slot count.
LEMMA SlotsFromCount ==
  ASSUME NEW p, NEW q, p.count = q.count
  PROVE  Slots(p) = Slots(q)
  BY DEF Slots

\* The pool a lease refers to exists and lists its free slots exactly.
LEMMA PoolOfLeaseMapped ==
  ASSUME IInv, NEW l \in Leases, lease[l].phase # "none"
  PROVE  lease[l].pool \in Pools /\ lease[l].pool \in mapped
         /\ FreeListExact(heap[lease[l].pool])
  BY DEF IInv, LeaseShape, MappedWhileReferenced, FreeListOK

\* pool_, when set, exists and lists its free slots exactly.
LEMMA PoolMapped ==
  ASSUME IInv, pool # NoPool
  PROVE  /\ pool \in Pools /\ pool \in mapped
         /\ heap[pool] \in Pool /\ FreeListExact(heap[pool])
  BY DEF IInv, TypeOK, MappedWhileReferenced, FreeListOK

\* Moving a slot of a mapped pool with BufferPool::transition.
LEMMA TransitionMoves ==
  ASSUME IInv, NEW p \in Pools, NEW i \in Nat, FreeListExact(heap[p]),
         NEW from \in {"Dequeued", "Queued"}, NEW to \in SlotState,
         CanTransition(heap[p], i, from),
         heap' = [heap EXCEPT ![p] = Transition(heap[p], i, from, to)]
  PROVE  SlotMoved(p, i, from, to)
  <1> DEFINE h == heap[p]
             q == Transition(h, i, from, to)
  <1>1. h \in Pool /\ heap \in [Pools -> Pool] /\ from \in SlotState
    BY DEF IInv, TypeOK, SlotState
  <1>2. /\ q \in Pool /\ q.count = h.count /\ q.length = h.length
        /\ i \in Slots(h)
    BY <1>1, TransitionType
  <1>3. FreeListExact(q) /\ q.slots = [h.slots EXCEPT ![i] = to]
    BY <1>1, TransitionOK
  <1>4. heap'[p] = q /\ heap' \in [Pools -> Pool]
        /\ \A r \in Pools \ {p} : heap'[r] = heap[r]
    BY <1>1, <1>2
  <1>5. Slots(heap'[p]) = Slots(heap[p])
    BY <1>2, <1>4, SlotsFromCount
  <1>6. heap[p].slots[i] = from
    BY DEF CanTransition
  <1> HIDE DEF q
  <1> QED
    BY <1>2, <1>3, <1>4, <1>5, <1>6 DEF SlotMoved

\* acquireFree never finds the queue corrupt: the head of the list goes from
\* Free to Dequeued, and the new lease holds it.
LEMMA AcquireListedEffect ==
  ASSUME IInv, NEW l \in Leases, AcquireListed(l)
  PROVE  LET i == Head(heap[pool].freeIndices)
         IN  SlotMoved(pool, i, "Free", "Dequeued") /\ Hold(l, pool, i)
  <1> DEFINE h == heap[pool]
             i == Head(h.freeIndices)
             q == AcquireFree(h)
  <1>1. /\ pool \in Pools /\ h \in Pool /\ FreeListExact(h)
        /\ heap \in [Pools -> Pool]
    BY PoolMapped DEF AcquireListed, IInv, TypeOK
  <1>2. h.freeIndices # <<>>
    BY DEF AcquireListed
  <1>3. q \in Pool /\ q.count = h.count /\ q.length = h.length
    BY <1>1, <1>2, AcquireFreeType
  <1>4. /\ ~FreeListCorrupt(h) /\ i \in Slots(h) /\ h.slots[i] = "Free"
        /\ q.slots = [h.slots EXCEPT ![i] = "Dequeued"]
        /\ FreeListExact(q)
    BY <1>1, <1>2, AcquireFreeOK
  <1>5. heap' = [heap EXCEPT ![pool] = q] /\ Hold(l, pool, i)
    BY <1>4 DEF AcquireListed
  <1>6. heap'[pool] = q /\ heap' \in [Pools -> Pool]
        /\ \A r \in Pools \ {pool} : heap'[r] = heap[r]
    BY <1>1, <1>3, <1>5
  <1>7. Slots(heap'[pool]) = Slots(heap[pool])
    BY <1>3, <1>6, SlotsFromCount
  <1> HIDE DEF q, i
  <1>8. SlotMoved(pool, i, "Free", "Dequeued")
    BY <1>1, <1>3, <1>4, <1>6, <1>7 DEF SlotMoved
  <1> QED
    BY <1>5, <1>8 DEF i

\* DQBUF either moves a Queued slot to Dequeued under a new lease or, for an
\* index the sink had not queued, changes nothing.
LEMMA DequeueEffect ==
  ASSUME IInv, NEW l \in Leases, NEW i \in 0 .. MaxBuffers, Dequeue(l, i)
  PROVE  /\ pool \in Pools
         /\ CanTransition(heap[pool], i, "Queued") =>
               SlotMoved(pool, i, "Queued", "Dequeued") /\ Hold(l, pool, i)
         /\ ~CanTransition(heap[pool], i, "Queued") =>
               heap' = heap /\ lease' = lease
  <1>1. /\ pool \in Pools /\ FreeListExact(heap[pool]) /\ i \in Nat
        /\ heap \in [Pools -> Pool]
    BY PoolMapped, MaxBuffersAssumption DEF Dequeue, IInv, Control, TypeOK
  <1>2. heap' = [heap EXCEPT ![pool] = Transition(heap[pool], i, "Queued", "Dequeued")]
    BY DEF Dequeue
  <1>3. CASE CanTransition(heap[pool], i, "Queued")
    <2>1. SlotMoved(pool, i, "Queued", "Dequeued")
      BY <1>1, <1>2, <1>3, TransitionMoves DEF SlotState
    <2> QED
      BY <1>1, <1>3, <2>1 DEF Dequeue
  <1>4. CASE ~CanTransition(heap[pool], i, "Queued")
    <2>1. heap' = heap
      BY <1>1, <1>2, <1>4 DEF Transition
    <2> QED
      BY <1>1, <1>4, <2>1 DEF Dequeue
  <1> QED
    BY <1>3, <1>4

\* The destructor of a held lease frees its slot.
LEMMA ReleaseEffect ==
  ASSUME IInv, NEW l \in Leases, lease[l].phase = "held",
         heap' = [heap EXCEPT ![lease[l].pool] = ReleaseLease(@, lease[l].index)]
  PROVE  SlotMoved(lease[l].pool, lease[l].index, "Dequeued", "Free")
  <1> DEFINE p == lease[l].pool
             i == lease[l].index
  <1>1. p \in Pools /\ FreeListExact(heap[p])
    BY PoolOfLeaseMapped
  <1>2. i \in Slots(heap[p]) /\ heap[p].slots[i] = "Dequeued"
    BY DEF IInv, LeaseSlots
  <1>3. i \in Nat /\ CanTransition(heap[p], i, "Dequeued")
    BY <1>2, MaxBuffersAssumption DEF CanTransition, Slots, Index
  <1>4. heap' = [heap EXCEPT ![p] = Transition(heap[p], i, "Dequeued", "Free")]
    BY DEF ReleaseLease
  <1> HIDE DEF p, i
  <1>5. SlotMoved(p, i, "Dequeued", "Free")
    BY <1>1, <1>3, <1>4, TransitionMoves DEF SlotState
  <1> QED
    BY <1>5 DEF p, i

\* pushFrame moves the slot of its frame from Dequeued to Queued.
LEMMA PushBeginEffect ==
  ASSUME IInv, NEW l \in Leases, PushBegin(l)
  PROVE  SlotMoved(pool, lease[l].index, "Dequeued", "Queued")
  <1>1. /\ pool \in Pools /\ FreeListExact(heap[pool])
        /\ lease[l].index \in Nat
    BY PoolMapped, MaxBuffersAssumption DEF PushBegin, IInv, TypeOK, Lease, Index
  <1>2. /\ CanTransition(heap[pool], lease[l].index, "Dequeued")
        /\ heap' = [heap EXCEPT ![pool] =
                       Transition(heap[pool], lease[l].index, "Dequeued", "Queued")]
    BY DEF PushBegin
  <1> QED
    BY <1>1, <1>2, TransitionMoves DEF SlotState

\* A refused QBUF moves the slot from Queued back to Free.
LEMMA QueueFailEffect ==
  ASSUME IInv, NEW l \in Leases, QueueFail(l)
  PROVE  SlotMoved(pool, lease[l].index, "Queued", "Free")
  <1>1. pool # NoPool
    BY DEF QueueFail, IInv, Control
  <1>2. pool \in Pools /\ FreeListExact(heap[pool])
    BY <1>1, PoolMapped
  <1>3. /\ lease[l].index \in Slots(heap[pool])
        /\ heap[pool].slots[lease[l].index] = "Queued"
    BY DEF QueueFail, IInv, PushingLease
  <1>4. /\ lease[l].index \in Nat
        /\ CanTransition(heap[pool], lease[l].index, "Queued")
    BY <1>3, MaxBuffersAssumption DEF CanTransition, Slots, Index
  <1>5. heap' = [heap EXCEPT ![pool] =
                    Transition(heap[pool], lease[l].index, "Queued", "Free")]
    BY DEF QueueFail, SlotAfterQueueFail
  <1> QED
    BY <1>2, <1>4, <1>5, TransitionMoves DEF SlotState

\* The parameter's destructor finds the slot Queued or Free and leaves it.
LEMMA PushReturnEffect ==
  ASSUME IInv, NEW l \in Leases, PushReturn(l)
  PROVE  heap' = heap
  <1>1. ~CanTransition(heap[lease[l].pool], lease[l].index, "Dequeued")
    BY DEF PushReturn, IInv, PushingLease, CanTransition
  <1> QED
    BY <1>1 DEF PushReturn, ReleaseLease, Transition, IInv, TypeOK

\* reclaimAllQueued does not throw, and frees every slot.
LEMMA ReclaimEffect ==
  ASSUME IInv, Reclaim
  PROVE  /\ ~(pool # NoPool /\ HasDequeued(heap[pool]))
         /\ heap' \in [Pools -> Pool]
         /\ \A q \in Pools \ {pool} : heap'[q] = heap[q]
         /\ pool # NoPool =>
               /\ heap'[pool].length = heap[pool].length
               /\ Slots(heap'[pool]) = Slots(heap[pool])
               /\ FreeListExact(heap'[pool])
               /\ \A i \in Slots(heap'[pool]) : heap'[pool].slots[i] = "Free"
  <1>1. ~(pool # NoPool /\ HasDequeued(heap[pool]))
    BY DEF Reclaim, IInv, Quiescent
  <1>2. heap \in [Pools -> Pool]
    BY DEF IInv, TypeOK
  <1>3. CASE pool = NoPool
    BY <1>1, <1>2, <1>3, NoPoolAssumption DEF Reclaim
  <1>4. CASE pool # NoPool
    <2> DEFINE q == ReclaimAllQueued(heap[pool])
    <2>1. pool \in Pools /\ heap[pool] \in Pool
      BY <1>4, PoolMapped
    <2>2. heap' = [heap EXCEPT ![pool] = q]
      BY <1>4 DEF Reclaim
    <2>3. q \in Pool /\ q.length = heap[pool].length
      BY <2>1, ReclaimType
    <2>4. /\ FreeListExact(q) /\ Slots(q) = Slots(heap[pool])
          /\ \A i \in Slots(q) : q.slots[i] = "Free"
      BY <1>1, <1>4, <2>1, ReclaimOK
    <2> HIDE DEF q
    <2>5. heap'[pool] = q
      BY <1>2, <2>1, <2>2
    <2> QED
      BY <1>1, <1>2, <2>1, <2>2, <2>3, <2>4, <2>5
  <1> QED
    BY <1>3, <1>4

\* requestAndMapBuffers gives a pool no lease refers to.
LEMMA RequestEffect ==
  ASSUME IInv, NEW n \in 2 .. MaxBuffers, NEW len \in Sizes, NEW p \in Pools,
         RequestAndMap(n, len, p)
  PROVE  /\ heap' \in [Pools -> Pool]
         /\ \A q \in Pools \ {p} : heap'[q] = heap[q]
         /\ heap'[p].length = len
         /\ FreeListExact(heap'[p])
         /\ \A i \in Index : heap'[p].slots[i] = "Free"
         /\ p # pool
         /\ \A l \in Leases : lease[l].pool # p
  <1>1. n \in 0 .. MaxBuffers /\ len \in Nat
    BY MaxBuffersAssumption, SizesAssumption
  <1>2. heap' = [heap EXCEPT ![p] = NewPool(n, len)] /\ heap \in [Pools -> Pool]
    BY DEF RequestAndMap, IInv, TypeOK
  <1>3. heap'[p] = NewPool(n, len)
    BY <1>2
  <1>4. p # pool /\ \A l \in Leases : lease[l].pool # p
    BY DEF RequestAndMap, IInv, MappedWhileReferenced
  <1> QED
    BY <1>1, <1>2, <1>3, <1>4, NewPoolOK

\* Every step keeps every variable in its type.
LEMMA TypeNext ==
  ASSUME IInv, [Next]_vars
  PROVE  TypeOK'
  <1>0. TypeOK /\ Control /\ MaxBuffers \in Nat /\ 0 \in Index
    BY MaxBuffersAssumption DEF IInv, Index
  <1>1. ASSUME Construct PROVE TypeOK'
    BY <1>1, <1>0
    DEF Construct, DefaultConfig, TypeOK, sinkVars, leaseVars, deviceVars,
        Config
  <1>2. ASSUME OpenDevice PROVE TypeOK'
    BY <1>2, <1>0
    DEF OpenDevice, Ready, TypeOK, sinkVars, leaseVars, deviceVars
  <1>3. ASSUME NEW f \in Formats, NEW d \in 2 .. MaxBuffers, Configure(f, d)
        PROVE  TypeOK'
    BY <1>3, <1>0
    DEF Configure, Ready, TypeOK, sinkVars, leaseVars, deviceVars, Config
  <1>4. ASSUME StartBegin PROVE TypeOK'
    BY <1>4, <1>0
    DEF StartBegin, Ready, TypeOK, sinkVars, leaseVars, deviceVars,
        OwnerStep, Operation
  <1>5. ASSUME NEW f \in Formats, NEW s \in Sizes, SetFormat(f, s) PROVE TypeOK'
    BY <1>5, <1>0, MinSizeAssumption, SizesAssumption
    DEF SetFormat, Goto, NegotiatedSize, TypeOK, sinkVars, leaseVars,
        deviceVars, OwnerStep, Operation, Config
  <1>6. ASSUME SetFormatFail PROVE TypeOK'
    BY <1>6, <1>0
    DEF SetFormatFail, Goto, TypeOK, sinkVars, leaseVars, deviceVars,
        OwnerStep, Operation
  <1>7. ASSUME NEW n \in 2 .. MaxBuffers, NEW len \in Sizes, NEW p \in Pools,
               RequestAndMap(n, len, p)
        PROVE  TypeOK'
    <2>1. heap' \in [Pools -> Pool]
      BY <1>7, RequestEffect
    <2>2. config' \in Config
      BY <1>7, <1>0 DEF RequestAndMap, TypeOK, Config
    <2> QED
      BY <1>7, <1>0, <2>1, <2>2
      DEF RequestAndMap, Goto, TypeOK, OwnerStep, Operation, Referenced,
          deviceVars
  <1>8. ASSUME RequestFail PROVE TypeOK'
    BY <1>8, <1>0
    DEF RequestFail, Goto, TypeOK, sinkVars, leaseVars, deviceVars,
        OwnerStep, Operation
  <1>9. ASSUME NEW n \in 2 .. MaxBuffers, MapFail(n) PROVE TypeOK'
    BY <1>9, <1>0
    DEF MapFail, Goto, TypeOK, sinkVars, leaseVars, deviceVars, OwnerStep,
        Operation, Config, Referenced
  <1>10. ASSUME UnwindStart PROVE TypeOK'
    BY <1>10, <1>0
    DEF UnwindStart, Return, TypeOK, sinkVars, leaseVars, deviceVars,
        OwnerStep, Operation, Referenced
  <1>11. ASSUME RecycleBegin PROVE TypeOK'
    BY <1>11, <1>0
    DEF RecycleBegin, Begin, Ready, TypeOK, sinkVars, leaseVars, deviceVars,
        OwnerStep, Operation
  <1>12. ASSUME YieldBegin PROVE TypeOK'
    BY <1>12, <1>0
    DEF YieldBegin, Begin, Ready, TypeOK, sinkVars, leaseVars, deviceVars,
        OwnerStep, Operation
  <1>13. ASSUME DestroyBegin PROVE TypeOK'
    BY <1>13, <1>0
    DEF DestroyBegin, Begin, Ready, TypeOK, sinkVars, leaseVars, deviceVars,
        OwnerStep, Operation
  <1>14. ASSUME StreamOff PROVE TypeOK'
    BY <1>14, <1>0
    DEF StreamOff, Goto, TypeOK, sinkVars, leaseVars, deviceVars, OwnerStep,
        Operation
  <1>15. ASSUME StreamOffFail PROVE TypeOK'
    BY <1>15, <1>0
    DEF StreamOffFail, Unwind, TypeOK, sinkVars, leaseVars, deviceVars,
        OwnerStep, Operation
  <1>16. ASSUME Reclaim PROVE TypeOK'
    BY <1>16, <1>0, ReclaimEffect
    DEF Reclaim, Goto, Unwind, TypeOK, sinkVars, leaseVars, deviceVars,
        OwnerStep, Operation, Referenced
  <1>17. ASSUME ReqbufsZero PROVE TypeOK'
    BY <1>17, <1>0
    DEF ReqbufsZero, Goto, Return, TypeOK, sinkVars, leaseVars, deviceVars,
        OwnerStep, Operation
  <1>18. ASSUME ReqbufsZeroFail PROVE TypeOK'
    BY <1>18, <1>0
    DEF ReqbufsZeroFail, Goto, Unwind, TypeOK, sinkVars, leaseVars,
        deviceVars, OwnerStep, Operation
  <1>19. ASSUME StreamOn PROVE TypeOK'
    BY <1>19, <1>0
    DEF StreamOn, Return, TypeOK, sinkVars, leaseVars, deviceVars, OwnerStep,
        Operation
  <1>20. ASSUME StreamOnFail PROVE TypeOK'
    BY <1>20, <1>0
    DEF StreamOnFail, Goto, Return, TypeOK, sinkVars, leaseVars, deviceVars,
        OwnerStep, Operation
  <1>21. ASSUME CloseDevice PROVE TypeOK'
    BY <1>21, <1>0
    DEF CloseDevice, Return, TypeOK, sinkVars, leaseVars, deviceVars,
        OwnerStep, Operation, Referenced
  <1>22. ASSUME AcquireDequeue PROVE TypeOK'
    BY <1>22, <1>0
    DEF AcquireDequeue, Goto, Ready, TypeOK, sinkVars, leaseVars, deviceVars,
        OwnerStep, Operation
  <1>23. ASSUME DequeueFail PROVE TypeOK'
    BY <1>23, <1>0
    DEF DequeueFail, Return, TypeOK, sinkVars, leaseVars, deviceVars,
        OwnerStep, Operation
  <1>24. ASSUME NEW l \in Leases, AcquireListed(l) PROVE TypeOK'
    BY <1>24, <1>0, AcquireListedEffect
    DEF AcquireListed, Ready, TypeOK, sinkVars, leaseVars, deviceVars,
        SlotMoved, Hold, Lease, Slots
  <1>25. ASSUME NEW l \in Leases, NEW i \in 0 .. MaxBuffers, Dequeue(l, i)
        PROVE  TypeOK'
    <2>1. heap' \in [Pools -> Pool] /\ lease' \in [Leases -> Lease]
      <3>1. CASE CanTransition(heap[pool], i, "Queued")
        <4>1. SlotMoved(pool, i, "Queued", "Dequeued") /\ Hold(l, pool, i)
          BY <1>25, <3>1, DequeueEffect
        <4>2. pool \in Pools /\ i \in Index
          BY <4>1 DEF SlotMoved, Slots
        <4> QED
          BY <1>0, <4>1, <4>2 DEF SlotMoved, Hold, Lease, TypeOK
      <3>2. CASE ~CanTransition(heap[pool], i, "Queued")
        BY <1>25, <1>0, <3>2, DequeueEffect DEF TypeOK
      <3> QED
        BY <3>1, <3>2
    <2> QED
      BY <1>25, <1>0, <2>1 DEF Dequeue, Return, TypeOK, OwnerStep, Operation, sinkVars
  <1>26. ASSUME NEW l \in Leases, PushRefused(l) PROVE TypeOK'
    <2>1. heap' \in [Pools -> Pool]
      BY <1>26, ReleaseEffect DEF PushRefused, SlotMoved
    <2>2. lease' \in [Leases -> Lease]
      BY <1>26, <1>0 DEF PushRefused, TypeOK, Lease, NoLease
    <2> QED
      BY <1>26, <1>0, <2>1, <2>2
      DEF PushRefused, TypeOK, Referenced, sinkVars, deviceVars
  <1>27. ASSUME NEW l \in Leases, PushBegin(l) PROVE TypeOK'
    <2>1. heap' \in [Pools -> Pool]
      BY <1>27, PushBeginEffect DEF SlotMoved
    <2>2. lease' \in [Leases -> Lease]
      BY <1>27, <1>0 DEF PushBegin, TypeOK, Lease
    <2> QED
      BY <1>27, <1>0, <2>1, <2>2
      DEF PushBegin, Goto, TypeOK, OwnerStep, Operation, sinkVars, deviceVars
  <1>28. ASSUME NEW l \in Leases, Queue(l) PROVE TypeOK'
    BY <1>28, <1>0
    DEF Queue, Goto, TypeOK, sinkVars, leaseVars, deviceVars, OwnerStep,
        Operation, Lease
  <1>29. ASSUME NEW l \in Leases, QueueFail(l) PROVE TypeOK'
    BY <1>29, <1>0, QueueFailEffect
    DEF QueueFail, Goto, TypeOK, sinkVars, leaseVars, deviceVars, OwnerStep,
        Operation, SlotMoved
  <1>30. ASSUME NEW l \in Leases, PushReturn(l) PROVE TypeOK'
    <2>1. heap' = heap
      BY <1>30, PushReturnEffect
    <2>2. lease' \in [Leases -> Lease]
      BY <1>30, <1>0 DEF PushReturn, TypeOK, Lease, NoLease
    <2> QED
      BY <1>30, <1>0, <2>1, <2>2
      DEF PushReturn, Return, TypeOK, Referenced, sinkVars, deviceVars, OwnerStep,
          Operation
  <1>31. ASSUME NEW l \in Leases, ReleaseSlot(l) PROVE TypeOK'
    <2>1. heap' \in [Pools -> Pool]
      BY <1>31, ReleaseEffect DEF ReleaseSlot, SlotMoved
    <2>2. lease' \in [Leases -> Lease]
      BY <1>31, <1>0 DEF ReleaseSlot, TypeOK, Lease
    <2> QED
      BY <1>31, <1>0, <2>1, <2>2 DEF ReleaseSlot, TypeOK, sinkVars, deviceVars
  <1>32. ASSUME NEW l \in Leases, DropPool(l) PROVE TypeOK'
    BY <1>32, <1>0
    DEF DropPool, TypeOK, sinkVars, leaseVars, deviceVars, NoLease, Lease,
        Referenced, Index
  <1>33. ASSUME NEW i \in Index, DeviceComplete(i) PROVE TypeOK'
    BY <1>33, <1>0
    DEF DeviceComplete, TypeOK, sinkVars, leaseVars, deviceVars
  <1>34. CASE UNCHANGED vars
    BY <1>34, <1>0
    DEF vars, sinkVars, leaseVars, deviceVars, TypeOK, sinkVars, leaseVars,
        deviceVars
  <1> QED
    BY <1>1, <1>2, <1>3, <1>4, <1>5, <1>6, <1>7, <1>8, <1>9, <1>10, <1>11,
       <1>12, <1>13, <1>14, <1>15, <1>16, <1>17, <1>18, <1>19, <1>20, <1>21,
       <1>22, <1>23, <1>24, <1>25, <1>26, <1>27, <1>28, <1>29, <1>30, <1>31,
       <1>32, <1>33, <1>34
    DEF Next, Owner, Start, Stream, Reset, Release, Device

\* Every step leaves the owner thread in a consistent place.
LEMMA ControlNext ==
  ASSUME IInv, [Next]_vars
  PROVE  Control'
  <1>0. Control /\ pc \in OwnerStep /\ op \in Operation /\ pool \in Pools \cup {NoPool}
    BY DEF IInv, TypeOK
  <1>1. ASSUME Construct PROVE Control'
    BY <1>1, <1>0
    DEF Construct, DefaultConfig, Control, sinkVars, leaseVars, deviceVars
  <1>2. ASSUME OpenDevice PROVE Control'
    BY <1>2, <1>0
    DEF OpenDevice, Ready, Control, sinkVars, leaseVars, deviceVars
  <1>3. ASSUME NEW f \in Formats, NEW d \in 2 .. MaxBuffers, Configure(f, d)
        PROVE  Control'
    BY <1>3, <1>0
    DEF Configure, Ready, Control, sinkVars, leaseVars, deviceVars
  <1>4. ASSUME StartBegin PROVE Control'
    BY <1>4, <1>0
    DEF StartBegin, Ready, Control, sinkVars, leaseVars, deviceVars
  <1>5. ASSUME NEW f \in Formats, NEW s \in Sizes, SetFormat(f, s) PROVE Control'
    BY <1>5, <1>0
    DEF SetFormat, Goto, NegotiatedSize, Control, sinkVars, leaseVars,
        deviceVars
  <1>6. ASSUME SetFormatFail PROVE Control'
    BY <1>6, <1>0
    DEF SetFormatFail, Goto, Control, sinkVars, leaseVars, deviceVars
  <1>7. ASSUME NEW n \in 2 .. MaxBuffers, NEW len \in Sizes, NEW p \in Pools,
               RequestAndMap(n, len, p)
        PROVE  Control'
    BY <1>7, <1>0, NoPoolAssumption
    DEF RequestAndMap, Goto, BufferLargeEnough, Control, sinkVars, leaseVars,
        deviceVars, OwnerStep, Operation
  <1>8. ASSUME RequestFail PROVE Control'
    BY <1>8, <1>0
    DEF RequestFail, Goto, Control, sinkVars, leaseVars, deviceVars
  <1>9. ASSUME NEW n \in 2 .. MaxBuffers, MapFail(n) PROVE Control'
    BY <1>9, <1>0 DEF MapFail, Goto, Control, sinkVars, leaseVars, deviceVars
  <1>10. ASSUME UnwindStart PROVE Control'
    BY <1>10, <1>0
    DEF UnwindStart, Return, Control, sinkVars, leaseVars, deviceVars
  <1>11. ASSUME RecycleBegin PROVE Control'
    BY <1>11, <1>0
    DEF RecycleBegin, Begin, Ready, Control, sinkVars, leaseVars, deviceVars
  <1>12. ASSUME YieldBegin PROVE Control'
    BY <1>12, <1>0
    DEF YieldBegin, Begin, Ready, Control, sinkVars, leaseVars, deviceVars
  <1>13. ASSUME DestroyBegin PROVE Control'
    BY <1>13, <1>0
    DEF DestroyBegin, Begin, Ready, Control, sinkVars, leaseVars, deviceVars
  <1>14. ASSUME StreamOff PROVE Control'
    BY <1>14, <1>0
    DEF StreamOff, Goto, Control, sinkVars, leaseVars, deviceVars, OwnerStep,
        Operation
  <1>15. ASSUME StreamOffFail PROVE Control'
    BY <1>15, <1>0
    DEF StreamOffFail, Unwind, Control, sinkVars, leaseVars, deviceVars,
        OwnerStep, Operation
  <1>16. ASSUME Reclaim PROVE Control'
    BY <1>16, <1>0
    DEF Reclaim, Goto, Unwind, Control, sinkVars, leaseVars, deviceVars,
        OwnerStep, Operation
  <1>17. ASSUME ReqbufsZero PROVE Control'
    BY <1>17, <1>0
    DEF ReqbufsZero, Goto, Return, Control, sinkVars, leaseVars, deviceVars,
        OwnerStep, Operation
  <1>18. ASSUME ReqbufsZeroFail PROVE Control'
    BY <1>18, <1>0
    DEF ReqbufsZeroFail, Goto, Unwind, Control, sinkVars, leaseVars,
        deviceVars, OwnerStep, Operation
  <1>19. ASSUME StreamOn PROVE Control'
    BY <1>19, <1>0
    DEF StreamOn, Return, Control, sinkVars, leaseVars, deviceVars,
        OwnerStep, Operation
  <1>20. ASSUME StreamOnFail PROVE Control'
    BY <1>20, <1>0
    DEF StreamOnFail, Goto, Return, Control, sinkVars, leaseVars, deviceVars,
        OwnerStep, Operation
  <1>21. ASSUME CloseDevice PROVE Control'
    BY <1>21, <1>0
    DEF CloseDevice, Return, Control, sinkVars, leaseVars, deviceVars
  <1>22. ASSUME AcquireDequeue PROVE Control'
    BY <1>22, <1>0
    DEF AcquireDequeue, Goto, Ready, Control, sinkVars, leaseVars, deviceVars
  <1>23. ASSUME DequeueFail PROVE Control'
    BY <1>23, <1>0
    DEF DequeueFail, Return, Control, sinkVars, leaseVars, deviceVars
  <1>24. ASSUME NEW l \in Leases, AcquireListed(l) PROVE Control'
    BY <1>24, <1>0
    DEF AcquireListed, Ready, Control, sinkVars, leaseVars, deviceVars
  <1>25. ASSUME NEW l \in Leases, NEW i \in 0 .. MaxBuffers, Dequeue(l, i)
        PROVE  Control'
    BY <1>25, <1>0
    DEF Dequeue, Return, Control, sinkVars, leaseVars, deviceVars
  <1>26. ASSUME NEW l \in Leases, PushRefused(l) PROVE Control'
    BY <1>26, <1>0
    DEF PushRefused, Ready, Control, sinkVars, leaseVars, deviceVars
  <1>27. ASSUME NEW l \in Leases, PushBegin(l) PROVE Control'
    BY <1>27, <1>0
    DEF PushBegin, Goto, Ready, Control, sinkVars, leaseVars, deviceVars
  <1>28. ASSUME NEW l \in Leases, Queue(l) PROVE Control'
    BY <1>28, <1>0 DEF Queue, Goto, Control, sinkVars, leaseVars, deviceVars
  <1>29. ASSUME NEW l \in Leases, QueueFail(l) PROVE Control'
    BY <1>29, <1>0
    DEF QueueFail, Goto, Control, sinkVars, leaseVars, deviceVars
  <1>30. ASSUME NEW l \in Leases, PushReturn(l) PROVE Control'
    BY <1>30, <1>0
    DEF PushReturn, Return, Control, sinkVars, leaseVars, deviceVars
  <1>31. ASSUME NEW l \in Leases, ReleaseSlot(l) PROVE Control'
    BY <1>31, <1>0 DEF ReleaseSlot, Control, sinkVars, leaseVars, deviceVars
  <1>32. ASSUME NEW l \in Leases, DropPool(l) PROVE Control'
    BY <1>32, <1>0 DEF DropPool, Control, sinkVars, leaseVars, deviceVars
  <1>33. ASSUME NEW i \in Index, DeviceComplete(i) PROVE Control'
    BY <1>33, <1>0
    DEF DeviceComplete, Control, sinkVars, leaseVars, deviceVars
  <1>34. CASE UNCHANGED vars
    BY <1>34, <1>0
    DEF vars, sinkVars, leaseVars, deviceVars, Control, sinkVars, leaseVars,
        deviceVars
  <1> QED
    BY <1>1, <1>2, <1>3, <1>4, <1>5, <1>6, <1>7, <1>8, <1>9, <1>10, <1>11,
       <1>12, <1>13, <1>14, <1>15, <1>16, <1>17, <1>18, <1>19, <1>20, <1>21,
       <1>22, <1>23, <1>24, <1>25, <1>26, <1>27, <1>28, <1>29, <1>30, <1>31,
       <1>32, <1>33, <1>34
    DEF Next, Owner, Start, Stream, Reset, Release, Device

-----------------------------------------------------------------------------
(***************************************************************************)
(* The steps by what they do to the heap, the leases and pool_.            *)
(***************************************************************************)
Quiet ==
  \/ Construct \/ OpenDevice
  \/ \E f \in Formats, d \in 2 .. MaxBuffers : Configure(f, d)
  \/ StartBegin \/ (\E f \in Formats, s \in Sizes : SetFormat(f, s))
  \/ SetFormatFail \/ RequestFail
  \/ RecycleBegin \/ YieldBegin \/ DestroyBegin
  \/ StreamOff \/ StreamOffFail \/ ReqbufsZero \/ ReqbufsZeroFail
  \/ StreamOn \/ StreamOnFail \/ AcquireDequeue \/ DequeueFail
  \/ \E l \in Leases : Queue(l)
  \/ \E i \in Index : DeviceComplete(i)

\* The steps that reset pool_ and do nothing else to the heap.
ResetPool == UnwindStart \/ CloseDevice \/ \E n \in 2 .. MaxBuffers : MapFail(n)

\* The steps that turn a held lease into one that no longer uses its slot.
GiveUp(l) == PushRefused(l) \/ ReleaseSlot(l)

\* The actions of Next, sorted by their effect.
LEMMA NextCases ==
  ASSUME [Next]_vars
  PROVE  \/ Quiet \/ ResetPool \/ Reclaim \/ UNCHANGED vars
         \/ \E n \in 2 .. MaxBuffers, len \in Sizes, p \in Pools :
               RequestAndMap(n, len, p)
         \/ \E l \in Leases :
               \/ AcquireListed(l) \/ (\E i \in 0 .. MaxBuffers : Dequeue(l, i))
               \/ GiveUp(l) \/ PushBegin(l) \/ QueueFail(l) \/ PushReturn(l)
               \/ DropPool(l)
  BY DEF Next, Owner, Start, Stream, Reset, Release, Device, Quiet, ResetPool, GiveUp

\* A quiet step leaves the heap, the leases and pool_ alone.
LEMMA QuietFrame ==
  ASSUME Quiet
  PROVE  UNCHANGED <<heap, mapped, lease, pool>>
  BY DEF Quiet, Construct, OpenDevice, Configure, StartBegin, SetFormat,
         SetFormatFail, RequestFail, RecycleBegin, YieldBegin, DestroyBegin,
         StreamOff, StreamOffFail, ReqbufsZero, ReqbufsZeroFail, StreamOn,
         StreamOnFail, AcquireDequeue, DequeueFail, Queue, DeviceComplete,
         sinkVars, leaseVars

\* A step that resets pool_ leaves the heap and the leases alone.
LEMMA ResetPoolFrame ==
  ASSUME ResetPool
  PROVE  /\ UNCHANGED <<heap, lease>> /\ pool' = NoPool
         /\ mapped' = Referenced(mapped, NoPool, lease)
         /\ pc \in {"unwind", "close", "reqbufs"} /\ pc' \in {"idle", "unwind"}
  BY DEF ResetPool, UnwindStart, CloseDevice, MapFail, Return, Goto

-----------------------------------------------------------------------------
(***************************************************************************)
(* The parts of the invariant about the heap and the leases.               *)
(***************************************************************************)

LEMMA LeaseShapeNext ==
  ASSUME IInv, [Next]_vars
  PROVE  LeaseShape'
  <1>0. LeaseShape /\ lease \in [Leases -> Lease] /\ Control
    BY DEF IInv, TypeOK
  <1>1. CASE Quiet \/ ResetPool \/ Reclaim \/ UNCHANGED vars
    BY <1>0, <1>1, QuietFrame, ResetPoolFrame
    DEF LeaseShape, Reclaim, vars, leaseVars
  <1>2. ASSUME NEW n \in 2 .. MaxBuffers, NEW len \in Sizes, NEW p \in Pools,
               RequestAndMap(n, len, p)
        PROVE  LeaseShape'
    BY <1>0, <1>2 DEF LeaseShape, RequestAndMap
  <1>3. ASSUME NEW l \in Leases, AcquireListed(l) PROVE LeaseShape'
    <2>1. lease' = [lease EXCEPT ![l] = [phase |-> "held", pool |-> pool,
                                         index |-> Head(heap[pool].freeIndices)]]
      BY <1>3, AcquireListedEffect DEF Hold
    <2>2. pool \in Pools
      BY <1>3, PoolMapped DEF AcquireListed
    <2> QED
      BY <1>0, <2>1, <2>2 DEF LeaseShape
  <1>4. ASSUME NEW l \in Leases, NEW i \in 0 .. MaxBuffers, Dequeue(l, i)
        PROVE  LeaseShape'
    <2>1. \/ lease' = lease
          \/ lease' = [lease EXCEPT ![l] = [phase |-> "held", pool |-> pool, index |-> i]]
      BY <1>4, DequeueEffect DEF Hold
    <2>2. pool \in Pools
      BY <1>4, DequeueEffect
    <2> QED
      BY <1>0, <2>1, <2>2 DEF LeaseShape
  <1>5. ASSUME NEW l \in Leases, GiveUp(l) PROVE LeaseShape'
    BY <1>0, <1>5 DEF LeaseShape, GiveUp, PushRefused, ReleaseSlot, NoLease, Lease
  <1>6. ASSUME NEW l \in Leases, PushBegin(l) PROVE LeaseShape'
    BY <1>0, <1>6 DEF LeaseShape, PushBegin, NoLease, Lease
  <1>7. ASSUME NEW l \in Leases, QueueFail(l) PROVE LeaseShape'
    BY <1>0, <1>7 DEF LeaseShape, QueueFail
  <1>8. ASSUME NEW l \in Leases, PushReturn(l) \/ DropPool(l) PROVE LeaseShape'
    BY <1>0, <1>8 DEF LeaseShape, PushReturn, DropPool, NoLease, Lease
  <1> QED
    BY <1>1, <1>2, <1>3, <1>4, <1>5, <1>6, <1>7, <1>8, NextCases

\* Every step keeps the mapped pools the referenced ones.
LEMMA MappedNext ==
  ASSUME IInv, [Next]_vars
  PROVE  MappedWhileReferenced'
  <1>0. /\ MappedWhileReferenced /\ LeaseShape /\ Control
        /\ lease \in [Leases -> Lease] /\ pool \in Pools \cup {NoPool}
        /\ NoPool \notin Pools
    BY NoPoolAssumption DEF IInv, TypeOK
  <1> USE DEF MappedWhileReferenced, Referenced
  <1>1. CASE Quiet \/ UNCHANGED vars
    BY <1>0, <1>1, QuietFrame DEF vars, leaseVars, sinkVars
  <1>2. CASE ResetPool
    BY <1>0, <1>2, ResetPoolFrame
  <1>3. CASE Reclaim
    BY <1>0, <1>3, ReclaimEffect DEF Reclaim
  <1>4. ASSUME NEW n \in 2 .. MaxBuffers, NEW len \in Sizes, NEW p \in Pools,
               RequestAndMap(n, len, p)
        PROVE  MappedWhileReferenced'
    BY <1>0, <1>4 DEF RequestAndMap
  <1>5. ASSUME NEW l \in Leases, AcquireListed(l) PROVE MappedWhileReferenced'
    <2>1. lease' = [lease EXCEPT ![l] = [phase |-> "held", pool |-> pool,
                                         index |-> Head(heap[pool].freeIndices)]]
      BY <1>5, AcquireListedEffect DEF Hold
    <2>2. lease[l] = NoLease /\ UNCHANGED <<mapped, pool>>
      BY <1>5 DEF AcquireListed, sinkVars
    <2> QED
      BY <1>0, <2>1, <2>2 DEF NoLease
  <1>6. ASSUME NEW l \in Leases, NEW i \in 0 .. MaxBuffers, Dequeue(l, i)
        PROVE  MappedWhileReferenced'
    <2>1. \/ lease' = lease
          \/ lease' = [lease EXCEPT ![l] = [phase |-> "held", pool |-> pool, index |-> i]]
      BY <1>6, DequeueEffect DEF Hold
    <2>2. lease[l] = NoLease /\ UNCHANGED <<mapped, pool>>
      BY <1>6 DEF Dequeue, sinkVars
    <2> QED
      BY <1>0, <2>1, <2>2 DEF NoLease
  <1>7. ASSUME NEW l \in Leases, PushRefused(l) \/ PushReturn(l) \/ DropPool(l)
        PROVE  MappedWhileReferenced'
    <2>1. /\ lease' = [lease EXCEPT ![l] = NoLease] /\ pool' = pool
          /\ mapped' = {q \in mapped : q = pool \/ \E k \in Leases : lease'[k].pool = q}
      BY <1>7 DEF PushRefused, PushReturn, DropPool, sinkVars
    <2> QED
      BY <1>0, <2>1 DEF NoLease
  <1>8. ASSUME NEW l \in Leases, ReleaseSlot(l) \/ PushBegin(l) \/ QueueFail(l)
        PROVE  MappedWhileReferenced'
    <2>1. UNCHANGED <<mapped, pool>> /\ \A k \in Leases : lease'[k].pool = lease[k].pool
      BY <1>0, <1>8 DEF ReleaseSlot, PushBegin, QueueFail, sinkVars, Lease
    <2> QED
      BY <1>0, <2>1
  <1> QED
    BY <1>1, <1>2, <1>3, <1>4, <1>5, <1>6, <1>7, <1>8, NextCases DEF GiveUp

\* Every step keeps every free list exact.
LEMMA FreeListNext ==
  ASSUME IInv, [Next]_vars
  PROVE  FreeListOK'
  <1>0. /\ FreeListOK /\ mapped \subseteq Pools /\ MappedWhileReferenced
        /\ NoPool \notin Pools
    BY NoPoolAssumption DEF IInv, TypeOK
  <1>1. CASE Quiet \/ UNCHANGED vars
    BY <1>0, <1>1, QuietFrame DEF FreeListOK, vars, leaseVars
  <1>2. CASE ResetPool
    BY <1>0, <1>2, ResetPoolFrame DEF FreeListOK, Referenced
  <1>3. CASE Reclaim
    BY <1>0, <1>3, ReclaimEffect DEF FreeListOK, Reclaim, Referenced
  <1>4. ASSUME NEW n \in 2 .. MaxBuffers, NEW len \in Sizes, NEW p \in Pools,
               RequestAndMap(n, len, p)
        PROVE  FreeListOK'
    BY <1>0, <1>4, RequestEffect DEF FreeListOK, RequestAndMap, Referenced
  <1>5. ASSUME mapped' \subseteq mapped,
               NEW p \in Pools, NEW i, NEW from, NEW to, SlotMoved(p, i, from, to)
        PROVE  FreeListOK'
    BY <1>0, <1>5 DEF FreeListOK, SlotMoved
  <1>6. ASSUME NEW l \in Leases, AcquireListed(l) PROVE FreeListOK'
    <2>1. mapped' = mapped /\ pool \in Pools
      BY <1>6, PoolMapped DEF AcquireListed
    <2> QED
      BY <1>5, <1>6, <2>1, AcquireListedEffect
  <1>7. ASSUME NEW l \in Leases, NEW i \in 0 .. MaxBuffers, Dequeue(l, i)
        PROVE  FreeListOK'
    <2>1. mapped' = mapped
      BY <1>7 DEF Dequeue
    <2> QED
      BY <1>0, <1>5, <1>7, <2>1, DequeueEffect DEF FreeListOK
  <1>8. ASSUME NEW l \in Leases, GiveUp(l) PROVE FreeListOK'
    <2>1. mapped' \subseteq mapped /\ lease[l].pool \in Pools
      BY <1>8, PoolOfLeaseMapped DEF GiveUp, PushRefused, ReleaseSlot, Referenced
    <2>2. SlotMoved(lease[l].pool, lease[l].index, "Dequeued", "Free")
      BY <1>8, ReleaseEffect DEF GiveUp, PushRefused, ReleaseSlot
    <2> QED
      BY <1>5, <2>1, <2>2
  <1>9. ASSUME NEW l \in Leases, PushBegin(l) \/ QueueFail(l) PROVE FreeListOK'
    <2>1. mapped' = mapped
      BY <1>9 DEF PushBegin, QueueFail
    <2>2. pool \in Pools /\ \E from, to \in SlotState :
             SlotMoved(pool, lease[l].index, from, to)
      BY <1>9, PushBeginEffect, QueueFailEffect DEF SlotMoved, SlotState
    <2> QED
      BY <1>5, <2>1, <2>2
  <1>10. ASSUME NEW l \in Leases, PushReturn(l) \/ DropPool(l) PROVE FreeListOK'
    <2>1. heap' = heap
      BY <1>10, PushReturnEffect DEF DropPool
    <2>2. mapped' \subseteq mapped
      BY <1>10 DEF PushReturn, DropPool, Referenced
    <2> QED
      BY <1>0, <2>1, <2>2 DEF FreeListOK
  <1> QED
    BY <1>1, <1>2, <1>3, <1>4, <1>6, <1>7, <1>8, <1>9, <1>10, NextCases

\* What a moved slot leaves alone.
LEMMA SlotMovedFrame ==
  ASSUME IInv, NEW p, NEW i, NEW from, NEW to, SlotMoved(p, i, from, to)
  PROVE  /\ p \in Pools /\ i \in Slots(heap[p]) /\ heap[p].slots[i] = from
         /\ heap'[p].slots[i] = to
         /\ \A q \in Pools : /\ Slots(heap'[q]) = Slots(heap[q])
                             /\ Slots(heap[q]) \subseteq Index
                             /\ heap'[q].length = heap[q].length
         /\ \A q \in Pools, j \in Index : (q # p \/ j # i) =>
               heap'[q].slots[j] = heap[q].slots[j]
  <1>1. heap[p] \in Pool /\ p \in Pools
    BY DEF IInv, TypeOK, SlotMoved
  <1>2. heap[p].slots \in [Index -> SlotState]
    BY <1>1, PoolFields
  <1>3. \A q \in Pools : Slots(heap'[q]) = Slots(heap[q]) /\ heap'[q].length = heap[q].length
    BY DEF SlotMoved
  <1>4. \A q \in Pools : Slots(heap[q]) \subseteq Index
    BY DEF Slots
  <1>5. i \in Index
    BY <1>1, <1>4 DEF SlotMoved
  <1>6. heap'[p].slots = [heap[p].slots EXCEPT ![i] = to]
    BY DEF SlotMoved
  <1>7. \A j \in Index : heap'[p].slots[j] = IF j = i THEN to ELSE heap[p].slots[j]
    BY <1>2, <1>5, <1>6
  <1>8. \A q \in Pools \ {p} : heap'[q] = heap[q]
    BY DEF SlotMoved
  <1> QED
    BY <1>1, <1>3, <1>4, <1>5, <1>7, <1>8 DEF SlotMoved

\* An idle slot that becomes a lease's: acquireFrame.
LEMMA HoldKeepsLeaseSlots ==
  ASSUME IInv, NEW l \in Leases, lease[l] = NoLease, pool \in Pools,
         NEW i, NEW from \in {"Free", "Queued"}, SlotMoved(pool, i, from, "Dequeued"),
         Hold(l, pool, i), mapped' = mapped
  PROVE  LeaseSlots'
  <1>0. /\ LeaseSlots /\ LeaseShape /\ mapped \subseteq Pools
        /\ lease \in [Leases -> Lease] /\ heap \in [Pools -> Pool]
    BY DEF IInv, TypeOK
  <1>1. /\ lease'[l] = [phase |-> "held", pool |-> pool, index |-> i]
        /\ \A k \in Leases \ {l} : lease'[k] = lease[k]
    BY <1>0 DEF Hold
  <1>2. /\ \A q \in Pools : Slots(heap'[q]) = Slots(heap[q])
        /\ \A q \in Pools, j \in Index : (q # pool \/ j # i) =>
              heap'[q].slots[j] = heap[q].slots[j]
        /\ i \in Slots(heap[pool]) /\ heap[pool].slots[i] # "Dequeued"
        /\ heap'[pool].slots[i] = "Dequeued"
        /\ \A q \in Pools : Slots(heap[q]) \subseteq Index
    BY <1>0, SlotMovedFrame
  <1>3. \A k \in Leases : lease[k].phase = "held" =>
           lease[k].pool \in Pools /\ (lease[k].pool # pool \/ lease[k].index # i)
    BY <1>0, <1>2 DEF LeaseSlots, LeaseShape
  <1>4. \A k \in Leases : lease'[k].phase = "held" =>
           /\ lease'[k].index \in Slots(heap'[lease'[k].pool])
           /\ heap'[lease'[k].pool].slots[lease'[k].index] = "Dequeued"
    BY <1>0, <1>1, <1>2, <1>3 DEF LeaseSlots
  <1>5. \A k, m \in Leases :
           /\ lease'[k].phase = "held" /\ lease'[m].phase = "held"
           /\ lease'[k].pool = lease'[m].pool /\ lease'[k].index = lease'[m].index
           => k = m
    BY <1>0, <1>1, <1>3 DEF LeaseSlots
  <1>6. DequeuedHasLease'
    <2> SUFFICES ASSUME NEW q \in mapped, NEW j \in Slots(heap'[q]),
                        heap'[q].slots[j] = "Dequeued"
                 PROVE  \E k \in Leases : /\ lease'[k].phase = "held"
                                          /\ lease'[k].pool = q /\ lease'[k].index = j
      BY DEF DequeuedHasLease
    <2>1. CASE q = pool /\ j = i
      BY <1>1, <2>1
    <2>2. CASE q # pool \/ j # i
      <3>1. j \in Slots(heap[q]) /\ heap[q].slots[j] = "Dequeued"
        BY <1>0, <1>2, <2>2
      <3>2. PICK k \in Leases : /\ lease[k].phase = "held"
                                /\ lease[k].pool = q /\ lease[k].index = j
        BY <1>0, <3>1 DEF LeaseSlots, DequeuedHasLease
      <3>3. k # l
        BY <3>2 DEF NoLease
      <3> QED
        BY <1>1, <3>2, <3>3
    <2> QED
      BY <2>1, <2>2
  <1> QED
    BY <1>4, <1>5, <1>6 DEF LeaseSlots

\* A lease that gives its slot up: to the free list or to the device.
LEMMA GiveKeepsLeaseSlots ==
  ASSUME IInv, NEW l \in Leases, lease[l].phase = "held",
         NEW to \in {"Free", "Queued"},
         SlotMoved(lease[l].pool, lease[l].index, "Dequeued", to),
         lease'[l].phase # "held", \A k \in Leases \ {l} : lease'[k] = lease[k],
         mapped' \subseteq mapped
  PROVE  LeaseSlots'
  <1> DEFINE p == lease[l].pool
             i == lease[l].index
  <1>0. /\ LeaseSlots /\ LeaseShape /\ mapped \subseteq Pools
        /\ lease \in [Leases -> Lease] /\ heap \in [Pools -> Pool]
    BY DEF IInv, TypeOK
  <1>2. /\ \A q \in Pools : Slots(heap'[q]) = Slots(heap[q])
        /\ \A q \in Pools, j \in Index : (q # p \/ j # i) =>
              heap'[q].slots[j] = heap[q].slots[j]
        /\ p \in Pools /\ i \in Slots(heap[p])
        /\ heap'[p].slots[i] # "Dequeued"
        /\ \A q \in Pools : Slots(heap[q]) \subseteq Index
    BY <1>0, SlotMovedFrame
  <1>3. \A k \in Leases \ {l} : lease[k].phase = "held" =>
           lease[k].pool \in Pools /\ (lease[k].pool # p \/ lease[k].index # i)
    BY <1>0 DEF LeaseSlots, LeaseShape
  <1>4. \A k \in Leases : lease'[k].phase = "held" =>
           /\ lease'[k].index \in Slots(heap'[lease'[k].pool])
           /\ heap'[lease'[k].pool].slots[lease'[k].index] = "Dequeued"
    BY <1>0, <1>2, <1>3 DEF LeaseSlots
  <1>5. \A k, m \in Leases :
           /\ lease'[k].phase = "held" /\ lease'[m].phase = "held"
           /\ lease'[k].pool = lease'[m].pool /\ lease'[k].index = lease'[m].index
           => k = m
    BY <1>0 DEF LeaseSlots
  <1>6. DequeuedHasLease'
    <2> SUFFICES ASSUME NEW q \in mapped', NEW j \in Slots(heap'[q]),
                        heap'[q].slots[j] = "Dequeued"
                 PROVE  \E k \in Leases : /\ lease'[k].phase = "held"
                                          /\ lease'[k].pool = q /\ lease'[k].index = j
      BY DEF DequeuedHasLease
    <2>1. q # p \/ j # i
      BY <1>2
    <2>2. j \in Slots(heap[q]) /\ heap[q].slots[j] = "Dequeued"
      BY <1>0, <1>2, <2>1
    <2>3. PICK k \in Leases : /\ lease[k].phase = "held"
                              /\ lease[k].pool = q /\ lease[k].index = j
      BY <1>0, <2>2 DEF LeaseSlots, DequeuedHasLease
    <2>4. k # l
      BY <2>1, <2>3
    <2> QED
      BY <2>3, <2>4
  <1> QED
    BY <1>4, <1>5, <1>6 DEF LeaseSlots

\* Every step keeps Dequeued slots and held leases in bijection.
LEMMA LeaseSlotsNext ==
  ASSUME IInv, [Next]_vars
  PROVE  LeaseSlots'
  <1>0. /\ LeaseSlots /\ LeaseShape /\ MappedWhileReferenced /\ PushingLease /\ Control
        /\ mapped \subseteq Pools /\ lease \in [Leases -> Lease]
        /\ heap \in [Pools -> Pool] /\ NoPool \notin Pools
    BY NoPoolAssumption DEF IInv, TypeOK
  <1>1. CASE Quiet \/ UNCHANGED vars
    BY <1>0, <1>1, QuietFrame DEF LeaseSlots, DequeuedHasLease, vars, leaseVars
  <1>2. CASE ResetPool
    BY <1>0, <1>2, ResetPoolFrame DEF LeaseSlots, DequeuedHasLease, Referenced
  <1>3. CASE Reclaim
    <2>1. lease' = lease /\ mapped' \subseteq mapped
      BY <1>3 DEF Reclaim, Referenced
    <2>2. \A q \in Pools \ {pool} : heap'[q] = heap[q]
      BY <1>3, ReclaimEffect
    <2>3. pool # NoPool => /\ ~HasDequeued(heap[pool])
                           /\ \A j \in Slots(heap'[pool]) : heap'[pool].slots[j] = "Free"
      BY <1>3, ReclaimEffect
    <2>4. \A k \in Leases : lease[k].phase = "held" => lease[k].pool \in Pools \ {pool}
      BY <1>0, <2>3 DEF LeaseSlots, LeaseShape, HasDequeued
    <2> QED
      BY <1>0, <2>1, <2>2, <2>3, <2>4 DEF LeaseSlots, DequeuedHasLease
  <1>4. ASSUME NEW n \in 2 .. MaxBuffers, NEW len \in Sizes, NEW p \in Pools,
               RequestAndMap(n, len, p)
        PROVE  LeaseSlots'
    <2>1. lease' = lease /\ mapped' \subseteq mapped \cup {p}
      BY <1>4 DEF RequestAndMap, Referenced
    <2>2. /\ \A q \in Pools \ {p} : heap'[q] = heap[q]
          /\ \A i \in Slots(heap'[p]) : heap'[p].slots[i] = "Free"
          /\ \A k \in Leases : lease[k].pool # p
      BY <1>4, RequestEffect DEF Slots
    <2>3. \A k \in Leases : lease[k].phase = "held" => lease[k].pool \in Pools \ {p}
      BY <1>0, <2>2 DEF LeaseShape
    <2> QED
      BY <1>0, <2>1, <2>2, <2>3 DEF LeaseSlots, DequeuedHasLease
  <1>5. ASSUME NEW l \in Leases, AcquireListed(l) PROVE LeaseSlots'
    <2>1. mapped' = mapped /\ pool \in Pools /\ lease[l] = NoLease
      BY <1>5, PoolMapped DEF AcquireListed
    <2> QED
      BY <1>5, <2>1, AcquireListedEffect, HoldKeepsLeaseSlots
  <1>6. ASSUME NEW l \in Leases, NEW i \in 0 .. MaxBuffers, Dequeue(l, i)
        PROVE  LeaseSlots'
    <2>1. mapped' = mapped /\ pool \in Pools /\ lease[l] = NoLease
      BY <1>6, DequeueEffect DEF Dequeue
    <2>2. CASE CanTransition(heap[pool], i, "Queued")
      BY <1>6, <2>1, <2>2, DequeueEffect, HoldKeepsLeaseSlots
    <2>3. CASE ~CanTransition(heap[pool], i, "Queued")
      BY <1>0, <1>6, <2>1, <2>3, DequeueEffect DEF LeaseSlots, DequeuedHasLease
    <2> QED
      BY <2>2, <2>3
  <1>7. ASSUME NEW l \in Leases, GiveUp(l) PROVE LeaseSlots'
    <2>1. /\ lease[l].phase = "held" /\ mapped' \subseteq mapped
          /\ lease'[l].phase # "held" /\ \A k \in Leases \ {l} : lease'[k] = lease[k]
      BY <1>0, <1>7 DEF GiveUp, PushRefused, ReleaseSlot, Referenced, NoLease, Lease
    <2>2. SlotMoved(lease[l].pool, lease[l].index, "Dequeued", "Free")
      BY <1>7, ReleaseEffect DEF GiveUp, PushRefused, ReleaseSlot
    <2> QED
      BY <2>1, <2>2, GiveKeepsLeaseSlots
  <1>8. ASSUME NEW l \in Leases, PushBegin(l) PROVE LeaseSlots'
    <2>1. /\ lease[l].phase = "held" /\ lease[l].pool = pool /\ mapped' = mapped
          /\ lease'[l].phase # "held" /\ \A k \in Leases \ {l} : lease'[k] = lease[k]
      BY <1>0, <1>8 DEF PushBegin, BelongsTo, Lease
    <2> QED
      BY <1>8, <2>1, PushBeginEffect, GiveKeepsLeaseSlots
  <1>9. ASSUME NEW l \in Leases, QueueFail(l) PROVE LeaseSlots'
    <2>1. lease' = lease /\ mapped' = mapped
      BY <1>9 DEF QueueFail
    <2>2. SlotMoved(pool, lease[l].index, "Queued", "Free")
      BY <1>9, QueueFailEffect
    <2>3. /\ \A q \in Pools : Slots(heap'[q]) = Slots(heap[q])
          /\ \A q \in Pools, j \in Index : (q # pool \/ j # lease[l].index) =>
                heap'[q].slots[j] = heap[q].slots[j]
          /\ heap'[pool].slots[lease[l].index] = "Free"
          /\ heap[pool].slots[lease[l].index] = "Queued"
          /\ \A q \in Pools : Slots(heap[q]) \subseteq Index
      BY <2>2, SlotMovedFrame
    <2>4. \A k \in Leases : lease[k].phase = "held" =>
             /\ lease[k].pool \in Pools
             /\ lease[k].pool # pool \/ lease[k].index # lease[l].index
      BY <1>0, <2>3 DEF LeaseSlots, LeaseShape
    <2>5. DequeuedHasLease'
      BY <1>0, <2>1, <2>3 DEF LeaseSlots, DequeuedHasLease
    <2> QED
      BY <1>0, <2>1, <2>3, <2>4, <2>5 DEF LeaseSlots
  <1>10. ASSUME NEW l \in Leases, PushReturn(l) \/ DropPool(l) PROVE LeaseSlots'
    <2>1. heap' = heap
      BY <1>10, PushReturnEffect DEF DropPool
    <2>2. /\ mapped' \subseteq mapped /\ lease[l].phase # "held"
          /\ lease' = [lease EXCEPT ![l] = NoLease]
      BY <1>10 DEF PushReturn, DropPool, Referenced
    <2>3. /\ lease'[l].phase # "held" /\ \A k \in Leases \ {l} : lease'[k] = lease[k]
      BY <1>0, <2>2 DEF NoLease
    <2> QED
      BY <1>0, <2>1, <2>2, <2>3 DEF LeaseSlots, DequeuedHasLease
  <1> QED
    BY <1>1, <1>2, <1>3, <1>4, <1>5, <1>6, <1>7, <1>8, <1>9, <1>10, NextCases

\* Every step keeps what is known of the frame in pushFrame.
LEMMA PushingLeaseNext ==
  ASSUME IInv, [Next]_vars
  PROVE  PushingLease'
  <1>0. /\ PushingLease /\ Control /\ LeaseShape /\ LeaseSlots
        /\ lease \in [Leases -> Lease] /\ heap \in [Pools -> Pool]
        /\ pool \in Pools \cup {NoPool}
    BY DEF IInv, TypeOK
  <1>a. ASSUME pc \notin {"qbuf", "pushReturn"}, pc' \notin {"qbuf", "pushReturn"},
               \A k \in Leases : lease'[k].phase = "pushing" => lease[k].phase = "pushing"
        PROVE  PushingLease'
    BY <1>0, <1>a DEF PushingLease
  <1>1. ASSUME NEW l \in Leases, Queue(l) PROVE PushingLease'
    <2>1. UNCHANGED <<heap, lease, pool>> /\ pc = "qbuf" /\ pc' = "pushReturn"
      BY <1>1 DEF Queue, Goto, sinkVars, leaseVars
    <2> QED
      BY <1>0, <2>1 DEF PushingLease
  <1>2. CASE UNCHANGED vars \/ \E i \in Index : DeviceComplete(i)
    <2>1. UNCHANGED <<heap, lease, pool, pc>>
      BY <1>2 DEF DeviceComplete, vars, sinkVars, leaseVars
    <2> QED
      BY <1>0, <2>1 DEF PushingLease
  <1>3. CASE Quiet /\ ~(\E l \in Leases : Queue(l)) /\ ~(\E i \in Index : DeviceComplete(i))
    <2>1. pc \notin {"qbuf", "pushReturn"} /\ pc' \notin {"qbuf", "pushReturn"}
      BY <1>0, <1>3
      DEF Quiet, Control, Construct, OpenDevice, Configure, StartBegin, SetFormat,
          SetFormatFail, RequestFail, RecycleBegin, YieldBegin, DestroyBegin,
          StreamOff, StreamOffFail, ReqbufsZero, ReqbufsZeroFail, StreamOn,
          StreamOnFail, AcquireDequeue, DequeueFail, Goto, Return, Unwind, Begin, Ready
    <2> QED
      BY <1>3, <1>a, <2>1, QuietFrame
  <1>4. CASE ResetPool
    BY <1>4, <1>a, ResetPoolFrame
  <1>5. CASE Reclaim
    BY <1>5, <1>a DEF Reclaim, Goto, Unwind
  <1>6. ASSUME NEW n \in 2 .. MaxBuffers, NEW len \in Sizes, NEW p \in Pools,
               RequestAndMap(n, len, p)
        PROVE  PushingLease'
    BY <1>6, <1>a DEF RequestAndMap, Goto
  <1>7. ASSUME NEW l \in Leases, AcquireListed(l) PROVE PushingLease'
    <2>1. lease' = [lease EXCEPT ![l] = [phase |-> "held", pool |-> pool,
                                         index |-> Head(heap[pool].freeIndices)]]
      BY <1>7, AcquireListedEffect DEF Hold
    <2>2. pc = "idle" /\ pc' = "idle"
      BY <1>7 DEF AcquireListed, Ready
    <2> QED
      BY <1>0, <1>a, <2>1, <2>2
  <1>8. ASSUME NEW l \in Leases, NEW i \in 0 .. MaxBuffers, Dequeue(l, i)
        PROVE  PushingLease'
    <2>1. \/ lease' = lease
          \/ lease' = [lease EXCEPT ![l] = [phase |-> "held", pool |-> pool, index |-> i]]
      BY <1>8, DequeueEffect DEF Hold
    <2>2. pc = "dqbuf" /\ pc' = "idle"
      BY <1>8 DEF Dequeue, Return
    <2> QED
      BY <1>0, <1>a, <2>1, <2>2
  <1>9. ASSUME NEW l \in Leases, PushRefused(l) PROVE PushingLease'
    <2>1. pc = "idle" /\ pc' = "idle" /\ lease' = [lease EXCEPT ![l] = NoLease]
      BY <1>9 DEF PushRefused, Ready
    <2> QED
      BY <1>0, <1>a, <2>1 DEF NoLease
  <1>10. ASSUME NEW l \in Leases, ReleaseSlot(l) PROVE PushingLease'
    <2>1. /\ lease[l].phase = "held" /\ lease' = [lease EXCEPT ![l].phase = "released"]
          /\ UNCHANGED <<pc, pool>>
      BY <1>10 DEF ReleaseSlot, sinkVars
    <2>2. SlotMoved(lease[l].pool, lease[l].index, "Dequeued", "Free")
      BY <1>10, ReleaseEffect DEF ReleaseSlot
    <2>3. /\ lease'[l].phase = "released"
          /\ \A k \in Leases \ {l} : lease'[k] = lease[k]
      BY <1>0, <2>1 DEF Lease
    <2>4. \A k \in Leases : lease[k].phase = "pushing" =>
             /\ k # l /\ lease[k].pool \in Pools /\ lease[k].index \in Index
             /\ lease[k].pool # lease[l].pool \/ lease[k].index # lease[l].index
      BY <1>0, <2>1 DEF PushingLease, LeaseSlots, LeaseShape, Lease
    <2>5. \A k \in Leases : lease[k].phase = "pushing" =>
             /\ Slots(heap'[lease[k].pool]) = Slots(heap[lease[k].pool])
             /\ heap'[lease[k].pool].slots[lease[k].index]
                   = heap[lease[k].pool].slots[lease[k].index]
      BY <2>2, <2>4, SlotMovedFrame
    <2> QED
      BY <1>0, <2>1, <2>3, <2>4, <2>5 DEF PushingLease
  <1>11. ASSUME NEW l \in Leases, PushBegin(l) PROVE PushingLease'
    <2>1. /\ lease[l].phase = "held" /\ lease[l].pool = pool /\ pool' = pool
          /\ lease' = [lease EXCEPT ![l].phase = "pushing"]
          /\ pc = "idle" /\ pc' = "qbuf"
      BY <1>11 DEF PushBegin, BelongsTo, Goto, Ready, sinkVars
    <2>2. /\ lease'[l].phase = "pushing"
          /\ lease'[l].pool = pool /\ lease'[l].index = lease[l].index
          /\ \A k \in Leases \ {l} : lease'[k].phase # "pushing"
      BY <1>0, <2>1 DEF PushingLease, Lease
    <2>3. /\ lease[l].index \in Slots(heap'[pool])
          /\ heap'[pool].slots[lease[l].index] = "Queued"
      BY <1>11, PushBeginEffect, SlotMovedFrame
    <2> QED
      BY <2>1, <2>2, <2>3 DEF PushingLease
  <1>12. ASSUME NEW l \in Leases, QueueFail(l) PROVE PushingLease'
    <2>1. /\ lease[l].phase = "pushing" /\ UNCHANGED <<lease, pool>>
          /\ pc = "qbuf" /\ pc' = "pushReturn"
      BY <1>12 DEF QueueFail, Goto, sinkVars
    <2>2. /\ lease[l].index \in Slots(heap'[pool])
          /\ heap'[pool].slots[lease[l].index] = "Free"
      BY <1>12, QueueFailEffect, SlotMovedFrame
    <2> QED
      BY <1>0, <2>1, <2>2 DEF PushingLease
  <1>13. ASSUME NEW l \in Leases, PushReturn(l) PROVE PushingLease'
    <2>1. /\ lease[l].phase = "pushing" /\ pc' = "idle"
          /\ lease' = [lease EXCEPT ![l] = NoLease]
      BY <1>13 DEF PushReturn, Return
    <2>2. \A k \in Leases : lease'[k].phase # "pushing"
      BY <1>0, <2>1 DEF PushingLease, NoLease
    <2> QED
      BY <2>1, <2>2 DEF PushingLease
  <1>14. ASSUME NEW l \in Leases, DropPool(l) PROVE PushingLease'
    <2>1. /\ lease[l].phase = "released" /\ lease' = [lease EXCEPT ![l] = NoLease]
          /\ UNCHANGED <<pc, pool, heap>>
      BY <1>14 DEF DropPool, sinkVars
    <2>2. /\ lease'[l].phase = "none" /\ \A k \in Leases \ {l} : lease'[k] = lease[k]
      BY <1>0, <2>1 DEF NoLease
    <2> QED
      BY <1>0, <2>1, <2>2 DEF PushingLease
  <1> QED
    <2>1. CASE Quiet
      BY <1>1, <1>2, <1>3, <2>1
    <2>2. ASSUME NEW l \in Leases,
                 \/ AcquireListed(l) \/ (\E i \in 0 .. MaxBuffers : Dequeue(l, i))
                 \/ GiveUp(l) \/ PushBegin(l) \/ QueueFail(l) \/ PushReturn(l)
                 \/ DropPool(l)
          PROVE  PushingLease'
      BY <1>7, <1>8, <1>9, <1>10, <1>11, <1>12, <1>13, <1>14, <2>2 DEF GiveUp
    <2> QED
      BY <1>2, <1>4, <1>5, <1>6, <2>1, <2>2, NextCases

\* Every step keeps the pool without outstanding frames where it must be.
LEMMA QuiescentNext ==
  ASSUME IInv, [Next]_vars
  PROVE  Quiescent'
  <1>0. Quiescent /\ Control /\ LeaseShape /\ pool \in Pools \cup {NoPool}
    BY DEF IInv, TypeOK
  <1>1. CASE Quiet
    <2>1. UNCHANGED <<heap, pool>>
      BY <1>1, QuietFrame
    <2>2. pc' \in {"streamOff", "reclaim"} => pc' = pc \/ pc = "streamOff" \/ ~Outstanding
      BY <1>1
      DEF Quiet, Construct, OpenDevice, Configure, StartBegin, SetFormat,
          SetFormatFail, RequestFail, RecycleBegin, YieldBegin, DestroyBegin,
          StreamOff, StreamOffFail, ReqbufsZero, ReqbufsZeroFail, StreamOn,
          StreamOnFail, AcquireDequeue, DequeueFail, Queue, DeviceComplete,
          Goto, Return, Unwind, Begin
    <2>3. ~streaming' /\ pc' # "reclaim" => ~streaming /\ pc # "reclaim"
      BY <1>1
      DEF Quiet, Construct, OpenDevice, Configure, StartBegin, SetFormat,
          SetFormatFail, RequestFail, RecycleBegin, YieldBegin, DestroyBegin,
          StreamOff, StreamOffFail, ReqbufsZero, ReqbufsZeroFail, StreamOn,
          StreamOnFail, AcquireDequeue, DequeueFail, Queue, DeviceComplete,
          Goto, Begin, Ready, sinkVars
    <2> QED
      BY <1>0, <2>1, <2>2, <2>3 DEF Quiescent, Outstanding
  <1>2. CASE ResetPool
    BY <1>2, ResetPoolFrame DEF Quiescent
  <1>3. CASE Reclaim
    <2>1. \/ pool' = NoPool
          \/ /\ pool' = pool /\ pc' = "streamOn"
             /\ \A i \in Slots(heap'[pool]) : pool # NoPool => heap'[pool].slots[i] = "Free"
      BY <1>3, ReclaimEffect DEF Reclaim, Goto
    <2> QED
      BY <2>1 DEF Quiescent
  <1>4. ASSUME NEW n \in 2 .. MaxBuffers, NEW len \in Sizes, NEW p \in Pools,
               RequestAndMap(n, len, p)
        PROVE  Quiescent'
    <2>1. /\ pool' = p /\ pc' = "streamOn"
          /\ \A i \in Slots(heap'[p]) : heap'[p].slots[i] = "Free"
      BY <1>4, RequestEffect DEF RequestAndMap, Goto, Slots
    <2> QED
      BY <2>1 DEF Quiescent
  <1>5. ASSUME NEW l \in Leases,
               \/ AcquireListed(l) \/ (\E i \in 0 .. MaxBuffers : Dequeue(l, i))
               \/ PushBegin(l) \/ QueueFail(l) \/ PushReturn(l)
        PROVE  Quiescent'
    <2>1. streaming' /\ pc' \in {"idle", "qbuf", "pushReturn"}
      BY <1>0, <1>5 DEF Control, AcquireListed, Dequeue, PushBegin, QueueFail,
                        PushReturn, Goto, Return, Ready, sinkVars
    <2> QED
      BY <2>1 DEF Quiescent
  <1>6. ASSUME NEW l \in Leases, GiveUp(l) PROVE Quiescent'
    <2>1. SlotMoved(lease[l].pool, lease[l].index, "Dequeued", "Free")
      BY <1>6, ReleaseEffect DEF GiveUp, PushRefused, ReleaseSlot
    <2>2. UNCHANGED <<pc, pool, streaming>>
      BY <1>6 DEF GiveUp, PushRefused, ReleaseSlot, sinkVars
    <2>3. pool # NoPool =>
             /\ Slots(heap'[pool]) = Slots(heap[pool])
             /\ \A i \in Slots(heap[pool]) :
                   \/ heap'[pool].slots[i] = heap[pool].slots[i]
                   \/ heap'[pool].slots[i] = "Free"
      BY <1>0, <2>1, SlotMovedFrame
    <2> QED
      BY <1>0, <2>2, <2>3 DEF Quiescent, HasDequeued
  <1>7. CASE UNCHANGED vars \/ \E l \in Leases : DropPool(l)
    BY <1>0, <1>7 DEF Quiescent, DropPool, vars, sinkVars, leaseVars
  <1> QED
    BY <1>1, <1>2, <1>3, <1>4, <1>5, <1>6, <1>7, NextCases

\* Every step keeps the payload size known and within the buffers.
LEMMA PayloadKnownNext ==
  ASSUME IInv, [Next]_vars
  PROVE  PayloadKnown'
  <1>0. /\ PayloadKnown /\ Control /\ LeaseShape /\ pool \in Pools \cup {NoPool}
        /\ sizeImage \in Nat /\ NoPool \notin Pools
    BY NoPoolAssumption DEF IInv, TypeOK
  <1>1. ASSUME NEW f \in Formats, NEW s \in Sizes, SetFormat(f, s)
        PROVE  PayloadKnown'
    BY <1>0, <1>1, MinSizeAssumption, SizesAssumption
    DEF PayloadKnown, Control, SetFormat, NegotiatedSize, Goto
  <1>2. CASE Quiet /\ ~(\E f \in Formats, s \in Sizes : SetFormat(f, s))
    BY <1>0, <1>2, QuietFrame
    DEF PayloadKnown, Control, Quiet, Construct, OpenDevice, Configure,
        StartBegin, SetFormatFail, RequestFail, RecycleBegin, YieldBegin,
        DestroyBegin, StreamOff, StreamOffFail, ReqbufsZero, ReqbufsZeroFail,
        StreamOn, StreamOnFail, AcquireDequeue, DequeueFail, Queue, DeviceComplete,
        Goto, Return, Unwind, Begin, Ready, sinkVars
  <1>3. CASE ResetPool
    BY <1>3, ResetPoolFrame DEF PayloadKnown
  <1>4. CASE Reclaim
    BY <1>0, <1>4, ReclaimEffect DEF PayloadKnown, Control, Reclaim, Goto, Unwind
  <1>5. ASSUME NEW n \in 2 .. MaxBuffers, NEW len \in Sizes, NEW p \in Pools,
               RequestAndMap(n, len, p)
        PROVE  PayloadKnown'
    <2>1. /\ pool' = p /\ heap'[p].length = len /\ len \in Nat
          /\ pc = "reqbufs" /\ pc' = "streamOn" /\ sizeImage' = sizeImage
          /\ sizeImage <= len
      BY <1>0, <1>5, RequestEffect, SizesAssumption
      DEF RequestAndMap, Goto, BufferLargeEnough
    <2> QED
      BY <1>0, <2>1 DEF PayloadKnown
  <1>6. ASSUME NEW l \in Leases,
               \/ AcquireListed(l) \/ (\E i \in 0 .. MaxBuffers : Dequeue(l, i))
               \/ GiveUp(l) \/ PushBegin(l) \/ QueueFail(l) \/ PushReturn(l)
               \/ DropPool(l)
        PROVE  PayloadKnown'
    <2>1. pool # NoPool => heap'[pool].length = heap[pool].length
      <3>1. CASE AcquireListed(l)
        BY <3>1, AcquireListedEffect, SlotMovedFrame
      <3>2. ASSUME NEW i \in 0 .. MaxBuffers, Dequeue(l, i)
            PROVE  heap'[pool].length = heap[pool].length
        BY <3>2, DequeueEffect, SlotMovedFrame
      <3>3. CASE GiveUp(l)
        <4>1. SlotMoved(lease[l].pool, lease[l].index, "Dequeued", "Free")
          BY <3>3, ReleaseEffect DEF GiveUp, PushRefused, ReleaseSlot
        <4> QED
          BY <1>0, <4>1, SlotMovedFrame
      <3>4. CASE PushBegin(l) \/ QueueFail(l)
        BY <3>4, PushBeginEffect, QueueFailEffect, SlotMovedFrame
      <3>5. CASE PushReturn(l) \/ DropPool(l)
        BY <3>5, PushReturnEffect DEF DropPool
      <3> QED
        BY <1>6, <3>1, <3>2, <3>3, <3>4, <3>5
    <2>2. /\ UNCHANGED <<pool, sizeImage, op>> \/ (UNCHANGED <<pool, sizeImage>> /\ op' = "none" /\ op = "none")
          /\ pc' \notin {"reqbufs", "reqbufs0", "streamOn"} \/ UNCHANGED pc
      BY <1>0, <1>6
      DEF Control, AcquireListed, Dequeue, GiveUp, PushRefused, ReleaseSlot,
          PushBegin, QueueFail, PushReturn, DropPool, Goto, Return, sinkVars
    <2> QED
      BY <1>0, <2>1, <2>2 DEF PayloadKnown
  <1>7. CASE UNCHANGED vars
    BY <1>0, <1>7 DEF PayloadKnown, vars, sinkVars, leaseVars
  <1> QED
    BY <1>1, <1>2, <1>3, <1>4, <1>5, <1>6, <1>7, NextCases

\* Slot i is Queued, but QBUF has not handed it to the driver yet.
InTransit(i) ==
  pc = "qbuf" /\ \E l \in Leases : lease[l].phase = "pushing" /\ lease[l].index = i

QueuedSlot(i) == i \in Slots(heap[pool]) /\ heap[pool].slots[i] = "Queued"

\* Every step keeps the driver and the sink in agreement.
LEMMA DeviceAgreesNext ==
  ASSUME IInv, [Next]_vars
  PROVE  DeviceAgrees'
  <1>0. /\ DeviceAgrees /\ Control /\ LeaseShape /\ Quiescent /\ PushingLease
        /\ devQueued \subseteq Index /\ devDone \subseteq Index
        /\ lease \in [Leases -> Lease]
    BY DEF IInv, TypeOK
  <1> DEFINE Agree ==
        /\ devQueued \cap devDone = {}
        /\ \A i \in Index : i \in devQueued \cup devDone
                               <=> QueuedSlot(i) /\ ~InTransit(i)
  <1>a. DeviceAgrees <=> /\ ~streaming => devQueued = {} /\ devDone = {}
                         /\ HonestDevice /\ streaming => Agree
    BY DEF DeviceAgrees, QueuedSlot, InTransit
  <1>b. DeviceAgrees' <=> /\ ~streaming' => devQueued' = {} /\ devDone' = {}
                          /\ HonestDevice /\ streaming' => Agree'
    BY DEF DeviceAgrees, QueuedSlot, InTransit
  <1>c. ASSUME ~streaming', devQueued' = {}, devDone' = {} PROVE DeviceAgrees'
    BY <1>b, <1>c
  <1>d. ASSUME UNCHANGED <<streaming, devQueued, devDone>>,
               HonestDevice /\ streaming =>
                  \A i \in Index : QueuedSlot(i)' /\ ~InTransit(i)'
                                      <=> QueuedSlot(i) /\ ~InTransit(i)
        PROVE  DeviceAgrees'
    BY <1>0, <1>a, <1>b, <1>d
  <1>e. streaming => pool \in Pools
    BY PoolMapped DEF IInv, Control
  <1> HIDE DEF Agree
  <1>1. CASE StreamOn
    <2>1. /\ devQueued' = {} /\ devDone' = {} /\ streaming' /\ pc' = "idle"
          /\ UNCHANGED <<heap, pool>> /\ pc = "streamOn"
      BY <1>0, <1>1 DEF DeviceAgrees, Control, StreamOn, Return, leaseVars, deviceVars
    <2>2. \A i \in Slots(heap[pool]) : heap[pool].slots[i] = "Free"
      BY <1>0, <2>1 DEF Quiescent, Control
    <2> QED
      BY <1>b, <2>1, <2>2 DEF Agree, QueuedSlot
  <1>2. CASE StreamOff
    BY <1>0, <1>2, <1>c DEF DeviceAgrees, Control, StreamOff
  <1>3. ASSUME NEW l \in Leases, Queue(l) PROVE DeviceAgrees'
    <2>1. /\ pc = "qbuf" /\ lease[l].phase = "pushing" /\ pc' = "pushReturn"
          /\ devQueued' = devQueued \cup {lease[l].index}
          /\ UNCHANGED <<heap, lease, pool, streaming, devDone>>
      BY <1>3 DEF Queue, Goto, sinkVars, leaseVars
    <2>2. /\ \A i \in Index : InTransit(i) <=> i = lease[l].index
          /\ \A i \in Index : ~InTransit(i)'
          /\ QueuedSlot(lease[l].index) /\ lease[l].index \in Index
          /\ \A i \in Index : QueuedSlot(i)' <=> QueuedSlot(i)
      BY <1>0, <2>1 DEF InTransit, PushingLease, QueuedSlot, Lease
    <2>3. streaming
      BY <1>0, <2>1 DEF Control
    <2> QED
      BY <1>0, <1>a, <1>b, <2>1, <2>2, <2>3 DEF Agree
  <1>4. ASSUME NEW j \in Index, DeviceComplete(j) PROVE DeviceAgrees'
    <2>1. /\ UNCHANGED <<pc, heap, lease, pool, streaming>>
          /\ devQueued \cup devDone = devQueued' \cup devDone'
          /\ devQueued # {} /\ (devQueued \cap devDone = {} => devQueued' \cap devDone' = {})
      BY <1>4 DEF DeviceComplete, sinkVars, leaseVars
    <2>2. \A i \in Index : (QueuedSlot(i)' <=> QueuedSlot(i)) /\ (InTransit(i)' <=> InTransit(i))
      BY <2>1 DEF QueuedSlot, InTransit
    <2> QED
      BY <1>0, <1>a, <1>b, <2>1, <2>2 DEF Agree
  <1>5. CASE /\ Quiet /\ ~StreamOn /\ ~StreamOff /\ ~(\E l \in Leases : Queue(l))
             /\ ~(\E i \in Index : DeviceComplete(i))
    <2>1. /\ UNCHANGED <<heap, lease, pool, streaming, devQueued, devDone>>
          /\ pc # "qbuf" /\ pc' # "qbuf"
      BY <1>0, <1>5, QuietFrame
      DEF Quiet, Control, Construct, OpenDevice, Configure, StartBegin, SetFormat,
          SetFormatFail, RequestFail, RecycleBegin, YieldBegin, DestroyBegin,
          StreamOffFail, ReqbufsZero, ReqbufsZeroFail, StreamOnFail, AcquireDequeue,
          DequeueFail, Goto, Return, Unwind, Begin, Ready, sinkVars, deviceVars
    <2> QED
      BY <1>d, <2>1 DEF QueuedSlot, InTransit
  <1>6. CASE ResetPool \/ Reclaim \/ \E n \in 2 .. MaxBuffers, len \in Sizes, p \in Pools :
                                        RequestAndMap(n, len, p)
    BY <1>0, <1>6, <1>c
    DEF DeviceAgrees, Control, ResetPool, UnwindStart, CloseDevice, MapFail, Reclaim,
        RequestAndMap, deviceVars
  <1>7. ASSUME NEW l \in Leases, AcquireListed(l) PROVE DeviceAgrees'
    <2>1. /\ UNCHANGED <<pc, pool, streaming, devQueued, devDone>> /\ pc = "idle" /\ streaming
      BY <1>7 DEF AcquireListed, Ready, sinkVars, deviceVars
    <2>2. \A i \in Index : (QueuedSlot(i)' <=> QueuedSlot(i)) /\ ~InTransit(i) /\ ~InTransit(i)'
      BY <1>7, <2>1, AcquireListedEffect, SlotMovedFrame DEF QueuedSlot, InTransit
    <2> QED
      BY <1>d, <2>1, <2>2
  <1>8. ASSUME NEW l \in Leases, NEW j \in 0 .. MaxBuffers, Dequeue(l, j)
        PROVE  DeviceAgrees'
    <2>1. /\ UNCHANGED <<pool, streaming, devQueued>> /\ pc = "dqbuf" /\ pc' = "idle"
          /\ streaming /\ devDone' = devDone \ {j} /\ (HonestDevice => j \in devDone)
      BY <1>0, <1>8 DEF Dequeue, Control, Return, sinkVars
    <2>2. \A i \in Index : ~InTransit(i) /\ ~InTransit(i)'
      BY <2>1 DEF InTransit
    <2>3. CASE CanTransition(heap[pool], j, "Queued")
      <3>1. SlotMoved(pool, j, "Queued", "Dequeued")
        BY <1>8, <2>3, DequeueEffect
      <3>2. \A i \in Index : QueuedSlot(i)' <=> QueuedSlot(i) /\ i # j
        BY <2>1, <3>1, SlotMovedFrame DEF QueuedSlot
      <3>3. HonestDevice => j \notin devQueued
        BY <1>0, <1>a, <2>1 DEF Agree
      <3>4. ASSUME HonestDevice PROVE Agree'
        <4>1. Agree
          BY <1>0, <1>a, <2>1, <3>4
        <4>2. /\ devQueued' = devQueued /\ devDone' = devDone \ {j} /\ j \notin devQueued
          BY <2>1, <3>3, <3>4
        <4>3. \A i \in Index : i \in devQueued' \cup devDone'
                                 <=> i \in devQueued \cup devDone /\ i # j
          BY <4>2
        <4> QED
          BY <2>2, <3>2, <4>1, <4>2, <4>3 DEF Agree
      <3>5. streaming'
        BY <2>1
      <3> QED
        BY <1>b, <3>4, <3>5, Zenon
    <2>4. CASE ~CanTransition(heap[pool], j, "Queued")
      <3>1. ~HonestDevice
        BY <1>0, <1>a, <2>1, <2>4 DEF Agree, QueuedSlot, CanTransition, Slots
      <3>2. streaming'
        BY <2>1
      <3> QED
        BY <1>b, <3>1, <3>2, Zenon
    <2> QED
      BY <2>3, <2>4
  <1>9. ASSUME NEW l \in Leases, GiveUp(l) PROVE DeviceAgrees'
    <2>1. /\ UNCHANGED <<pc, pool, streaming, devQueued, devDone>> /\ lease[l].phase = "held"
          /\ lease'[l].phase # "pushing" /\ \A k \in Leases \ {l} : lease'[k] = lease[k]
      BY <1>0, <1>9 DEF GiveUp, PushRefused, ReleaseSlot, sinkVars, deviceVars, NoLease, Lease
    <2>2. SlotMoved(lease[l].pool, lease[l].index, "Dequeued", "Free")
      BY <1>9, ReleaseEffect DEF GiveUp, PushRefused, ReleaseSlot
    <2>3. streaming => \A i \in Index : QueuedSlot(i)' <=> QueuedSlot(i)
      BY <1>e, <2>1, <2>2, SlotMovedFrame DEF QueuedSlot
    <2>4. \A i \in Index : InTransit(i)' <=> InTransit(i)
      BY <2>1 DEF InTransit
    <2> QED
      BY <1>d, <2>1, <2>3, <2>4
  <1>10. ASSUME NEW l \in Leases, PushBegin(l) PROVE DeviceAgrees'
    <2>1. /\ UNCHANGED <<pool, streaming, devQueued, devDone>> /\ lease[l].phase = "held"
          /\ pc = "idle" /\ pc' = "qbuf" /\ lease'[l].phase = "pushing"
          /\ lease'[l].index = lease[l].index
          /\ \A k \in Leases \ {l} : lease'[k] = lease[k]
      BY <1>0, <1>10 DEF PushBegin, Goto, Ready, sinkVars, deviceVars, Lease
    <2>2. SlotMoved(pool, lease[l].index, "Dequeued", "Queued")
      BY <1>10, PushBeginEffect
    <2>3. \A i \in Index : QueuedSlot(i)' <=> QueuedSlot(i) \/ i = lease[l].index
      BY <2>1, <2>2, SlotMovedFrame DEF QueuedSlot
    <2>4. \A i \in Index : ~InTransit(i) /\ (InTransit(i)' <=> i = lease[l].index)
      BY <1>0, <2>1 DEF InTransit, PushingLease
    <2>5. ~QueuedSlot(lease[l].index)
      BY <2>2, SlotMovedFrame DEF QueuedSlot
    <2> QED
      BY <1>d, <2>1, <2>3, <2>4, <2>5
  <1>11. ASSUME NEW l \in Leases, QueueFail(l) PROVE DeviceAgrees'
    <2>1. /\ UNCHANGED <<pool, streaming, devQueued, devDone, lease>>
          /\ pc = "qbuf" /\ pc' = "pushReturn" /\ lease[l].phase = "pushing"
      BY <1>11 DEF QueueFail, Goto, sinkVars, deviceVars
    <2>2. SlotMoved(pool, lease[l].index, "Queued", "Free")
      BY <1>11, QueueFailEffect
    <2>3. \A i \in Index : QueuedSlot(i)' <=> QueuedSlot(i) /\ i # lease[l].index
      BY <2>1, <2>2, SlotMovedFrame DEF QueuedSlot
    <2>4. \A i \in Index : ~InTransit(i)' /\ (InTransit(i) <=> i = lease[l].index)
      BY <1>0, <2>1 DEF InTransit, PushingLease
    <2> QED
      BY <1>d, <2>1, <2>3, <2>4
  <1>12. ASSUME NEW l \in Leases, PushReturn(l) PROVE DeviceAgrees'
    <2>1. /\ UNCHANGED <<heap, pool, streaming, devQueued, devDone>>
          /\ pc = "pushReturn" /\ pc' = "idle"
      BY <1>12, PushReturnEffect DEF PushReturn, Return, sinkVars, deviceVars
    <2> QED
      BY <1>d, <2>1 DEF QueuedSlot, InTransit
  <1>13. ASSUME NEW l \in Leases, DropPool(l) PROVE DeviceAgrees'
    <2>1. /\ UNCHANGED <<heap, pool, pc, streaming, devQueued, devDone>>
          /\ lease[l].phase = "released" /\ lease' = [lease EXCEPT ![l] = NoLease]
      BY <1>13 DEF DropPool, sinkVars, deviceVars
    <2>2. \A i \in Index : InTransit(i)' <=> InTransit(i)
      BY <1>0, <2>1 DEF InTransit, NoLease
    <2> QED
      BY <1>d, <2>1, <2>2 DEF QueuedSlot
  <1>14. CASE UNCHANGED vars
    BY <1>d, <1>14 DEF QueuedSlot, InTransit, vars, sinkVars, leaseVars, deviceVars
  <1> QED
    BY <1>1, <1>2, <1>3, <1>4, <1>5, <1>6, <1>7, <1>8, <1>9, <1>10, <1>11, <1>12,
       <1>13, <1>14, NextCases

-----------------------------------------------------------------------------
(***************************************************************************)
(* The invariant, and the safety properties it implies.                    *)
(***************************************************************************)

\* The state after construction satisfies the invariant.
LEMMA InitIInv == Init => IInv
  <1> SUFFICES ASSUME Init PROVE IInv
    OBVIOUS
  <1>1. NewPool(0, 0) \in Pool
    BY NewPoolOK, MaxBuffersAssumption
  <1>2. TypeOK
    <2>1. 0 \in Index
      BY MaxBuffersAssumption DEF Index
    <2>2. /\ config \in Config /\ lease \in [Leases -> Lease]
          /\ heap \in [Pools -> Pool]
      BY <1>1, <2>1 DEF Init, DefaultConfig, Config, NoLease, Lease
    <2> QED
      BY <2>2 DEF Init, TypeOK, OwnerStep, Operation
  <1>3. Control
    BY DEF Init, Control
  <1>4. LeaseShape /\ FreeListOK /\ PushingLease
    BY DEF Init, LeaseShape, FreeListOK, PushingLease, NoLease
  <1>5. MappedWhileReferenced
    BY NoPoolAssumption DEF Init, MappedWhileReferenced, NoLease
  <1>6. LeaseSlots /\ Quiescent /\ PayloadKnown /\ DeviceAgrees
    BY DEF Init, LeaseSlots, DequeuedHasLease, Quiescent, PayloadKnown, DeviceAgrees, NoLease
  <1> QED
    BY <1>2, <1>3, <1>4, <1>5, <1>6 DEF IInv

\* Every step of the sink, of a releasing thread or of the device keeps it.
LEMMA NextIInv == IInv /\ [Next]_vars => IInv'
  BY TypeNext, ControlNext, LeaseShapeNext, FreeListNext, MappedNext,
     PushingLeaseNext, LeaseSlotsNext, QuiescentNext, PayloadKnownNext,
     DeviceAgreesNext
  DEF IInv

\* The inductive invariant holds in every reachable state.
THEOREM InductiveInvariant == Spec => []IInv
  BY InitIInv, NextIInv, PTL DEF Spec

\* Every variable keeps its type: no state of the sink is outside the ones
\* the members of the class can represent.
THEOREM TypeCorrect == Spec => []TypeOK
  <1>1. IInv => TypeOK
    BY DEF IInv
  <1> QED
    BY <1>1, InductiveInvariant, PTL

\* acquireFree never finds the free list of a pool corrupt, whatever the
\* order of releases on other threads and whatever DQBUF answers.
THEOREM FreeListCorrect == Spec => []FreeListOK
  <1>1. IInv => FreeListOK
    BY DEF IInv
  <1> QED
    BY <1>1, InductiveInvariant, PTL

\* Two frames the application holds never share a buffer, and the slot of a
\* held frame is Dequeued: also with a driver that answers DQBUF at random.
THEOREM LeaseOwnsSlotCorrect == Spec => []LeaseOwnsSlot
  <1>1. IInv => LeaseOwnsSlot
    BY DEF IInv, LeaseSlots, PushingLease, LeaseOwnsSlot, Using
  <1> QED
    BY <1>1, InductiveInvariant, PTL

\* No slot is lost: a Dequeued slot always has a lease that will free it.
THEOREM DequeuedHasLeaseCorrect == Spec => []DequeuedHasLease
  <1>1. IInv => DequeuedHasLease
    BY DEF IInv, LeaseSlots
  <1> QED
    BY <1>1, InductiveInvariant, PTL

\* With an honest driver the application never holds a frame over a buffer
\* that the driver holds.
THEOREM NoWriteCorrect == HonestDevice => (Spec => []NoWriteToDeviceBuffer)
  <1> SUFFICES ASSUME HonestDevice PROVE Spec => []NoWriteToDeviceBuffer
    OBVIOUS
  <1>1. IInv => NoWriteToDeviceBuffer
    <2> SUFFICES ASSUME IInv, NEW l \in Leases, Using(l), lease[l].pool = pool
                 PROVE  lease[l].index \notin devQueued \cup devDone
      BY DEF NoWriteToDeviceBuffer
    <2>1. lease[l].index \in Index
      BY DEF IInv, TypeOK, Lease
    <2>2. CASE ~streaming
      BY <2>2 DEF IInv, DeviceAgrees
    <2>3. CASE streaming /\ lease[l].phase = "held"
      BY <2>1, <2>3 DEF IInv, DeviceAgrees, LeaseSlots
    <2>4. CASE streaming /\ lease[l].phase = "pushing" /\ pc = "qbuf"
      BY <2>1, <2>4 DEF IInv, DeviceAgrees
    <2> QED
      BY <2>2, <2>3, <2>4 DEF Using
  <1> QED
    BY <1>1, InductiveInvariant, PTL

\* With an honest driver the slots marked Queued are the buffers the driver
\* has, so that every one of them comes back.
THEOREM QueuedIsWithDeviceCorrect == HonestDevice => (Spec => []QueuedIsWithDevice)
  <1> SUFFICES ASSUME HonestDevice PROVE Spec => []QueuedIsWithDevice
    OBVIOUS
  <1>1. IInv => QueuedIsWithDevice
    <2> SUFFICES ASSUME IInv PROVE QueuedIsWithDevice
      OBVIOUS
    <2>1. /\ devQueued \subseteq Index /\ devDone \subseteq Index
          /\ Slots(heap[pool]) \subseteq Index
      BY DEF IInv, TypeOK, Slots
    <2> QED
      BY <2>1 DEF IInv, DeviceAgrees, QueuedIsWithDevice
  <1> QED
    BY <1>1, InductiveInvariant, PTL

\* The mapping of a pool lives exactly as long as pool_ or a lease refers to it.
THEOREM MappingCorrect == Spec => []MappedWhileReferenced
  <1>1. IInv => MappedWhileReferenced
    BY DEF IInv
  <1> QED
    BY <1>1, InductiveInvariant, PTL

\* The check of requireNoOutstandingFrames still holds when the slots are
\* reclaimed, some ioctls later.
THEOREM ReclaimCorrect == Spec => []ReclaimFindsNoLease
  <1>1. IInv => ReclaimFindsNoLease
    BY DEF IInv, Quiescent, ReclaimFindsNoLease
  <1> QED
    BY <1>1, InductiveInvariant, PTL

\* The payload pushFrame queues is never empty and never exceeds the buffer.
THEOREM PayloadCorrect == Spec => []PayloadFits
  <1>1. IInv => PayloadFits
    BY DEF IInv, PayloadKnown, PayloadFits
  <1> QED
    BY <1>1, InductiveInvariant, PTL

\* A stopped queue that keeps its pool has every slot Free and none at the
\* device.
THEOREM StoppedQueueCorrect == Spec => []StoppedQueueIsFree
  <1>1. IInv => StoppedQueueIsFree
    BY DEF IInv, Quiescent, DeviceAgrees, StoppedQueueIsFree
  <1> QED
    BY <1>1, InductiveInvariant, PTL

\* While a stream runs neither its configuration, nor its payload size, nor
\* its pool changes.
THEOREM NegotiationCorrect == Spec => NegotiationStable
  <1>1. ASSUME IInv, [Next]_vars, streaming, streaming'
        PROVE  UNCHANGED <<config, sizeImage, pool>>
    <2>1. Control
      BY <1>1 DEF IInv
    <2> QED
      BY <1>1, <2>1
      DEF Control, Next, Owner, Start, Stream, Reset, Release, Device, Construct,
          OpenDevice, Configure, ConfigureAllowed, StartBegin, SetFormat,
          SetFormatFail, RequestAndMap, RequestFail, MapFail, UnwindStart,
          RecycleBegin, YieldBegin, DestroyBegin, StreamOff, StreamOffFail, Reclaim,
          ReqbufsZero, ReqbufsZeroFail, StreamOn, StreamOnFail, CloseDevice,
          AcquireDequeue, DequeueFail, AcquireListed, Dequeue, PushRefused,
          PushBegin, Queue, QueueFail, PushReturn, ReleaseSlot, DropPool,
          DeviceComplete, vars, sinkVars
  <1>2. IInv /\ [Next]_vars => [streaming /\ streaming' => UNCHANGED <<config, sizeImage, pool>>]_vars
    BY <1>1
  <1> QED
    BY <1>2, InductiveInvariant, PTL DEF Spec, NegotiationStable

-----------------------------------------------------------------------------
(***************************************************************************)
(* V4l2Sink implements the contract of IFrameSink.  A step of the sink     *)
(* changes the owner of one buffer, or of a whole generation, or of none.  *)
(***************************************************************************)
Buffers == Pools \X Index

\* A buffer in use belongs to a pool and has a slot there that is Dequeued, or
\* is Queued on its way through QBUF.
LEMMA InUseFacts ==
  ASSUME IInv, NEW p \in Pools, NEW i \in Index, InUse(p, i)
  PROVE  /\ i \in Slots(heap[p])
         /\ heap[p].slots[i] = "Dequeued" \/ (p = pool /\ pc = "qbuf")
  BY DEF InUse, Using, IInv, LeaseSlots, PushingLease

\* A step that changes no buffer's owner.
LEMMA OwnerStutters ==
  ASSUME \A p \in Pools, i \in Index : OwnerOf(p, i)' = OwnerOf(p, i)
  PROVE  BufferOwner' = BufferOwner
  BY DEF BufferOwner

\* A step that changes the owner of one buffer.
LEMMA OwnerChanges ==
  ASSUME NEW p \in Pools, NEW i \in Index, NEW party,
         OwnerOf(p, i)' = party,
         \A q \in Pools, j \in Index : (q # p \/ j # i) =>
            OwnerOf(q, j)' = OwnerOf(q, j)
  PROVE  BufferOwner' = [BufferOwner EXCEPT ![<<p, i>>] = party]
  <1>1. \A b \in Pools \X Index : b # <<p, i>> => b[1] # p \/ b[2] # i
    OBVIOUS
  <1>2. \A b \in Pools \X Index : b[1] \in Pools /\ b[2] \in Index
    OBVIOUS
  <1>3. \A b \in Pools \X Index :
           OwnerOf(b[1], b[2])' = IF b = <<p, i>> THEN party ELSE OwnerOf(b[1], b[2])
    BY <1>1, <1>2
  <1> QED
    BY <1>3 DEF BufferOwner

\* QBUF hands the buffer of the frame in pushFrame to the transport.
LEMMA QueuePushes ==
  ASSUME IInv, NEW l \in Leases, Queue(l)
  PROVE  \E b \in Buffers : Contract!Push(b)
  <1>1. /\ pc = "qbuf" /\ lease[l].phase = "pushing" /\ pc' = "pushReturn"
        /\ UNCHANGED <<heap, lease, pool>>
    BY DEF Queue, Goto, sinkVars, leaseVars
  <1>2. /\ lease[l].pool = pool /\ lease[l].index \in Slots(heap[pool])
        /\ lease[l].index \in Index
        /\ heap[pool].slots[lease[l].index] = "Queued" /\ pool \in Pools
        /\ \A m \in Leases : lease[m].phase = "pushing" => m = l
    BY <1>1, PoolMapped DEF IInv, PushingLease, TypeOK, Lease, Control
  <1>3. PICK p \in Pools, i \in Index : p = pool /\ i = lease[l].index
    BY <1>2
  <1>4. InUse(p, i)
    BY <1>1, <1>2, <1>3 DEF InUse, Using
  <1>5. ~InUse(p, i)'
    BY <1>1, <1>2, <1>3 DEF InUse, Using, IInv, LeaseSlots
  <1>6. \A q \in Pools, j \in Index : (q # p \/ j # i) =>
           (InUse(q, j)' <=> InUse(q, j))
    BY <1>1, <1>2, <1>3 DEF InUse, Using
  <1>7. OwnerOf(p, i)' = "transport"
    BY <1>1, <1>2, <1>3, <1>5 DEF OwnerOf
  <1>8. \A q \in Pools, j \in Index : (q # p \/ j # i) => OwnerOf(q, j)' = OwnerOf(q, j)
    BY <1>1, <1>6 DEF OwnerOf
  <1>9. BufferOwner' = [BufferOwner EXCEPT ![<<p, i>>] = "transport"]
    BY <1>7, <1>8, OwnerChanges
  <1>10. BufferOwner[<<p, i>>] = "client"
    BY <1>4 DEF BufferOwner, OwnerOf
  <1> QED
    BY <1>1, <1>3, <1>9, <1>10 DEF Contract!Push, Contract!Live, Buffers

\* acquireFrame takes a buffer that was free or with the transport.
LEMMA HoldAcquires ==
  ASSUME IInv, NEW l \in Leases, lease[l] = NoLease, pool \in Pools,
         NEW i \in Index, NEW from \in {"Free", "Queued"},
         SlotMoved(pool, i, from, "Dequeued"), Hold(l, pool, i), pool' = pool,
         pc # "qbuf", pc' # "qbuf"
  PROVE  \E b \in Buffers : Contract!Acquire(b)
  <1>1. PICK p \in Pools : p = pool
    OBVIOUS
  <1>2. /\ lease'[l] = [phase |-> "held", pool |-> p, index |-> i]
        /\ lease[l].phase = "none"
        /\ \A k \in Leases \ {l} : lease'[k] = lease[k]
    BY <1>1 DEF IInv, TypeOK, Hold, NoLease
  <1>3. /\ i \in Slots(heap[p]) /\ heap[p].slots[i] = from
        /\ \A q \in Pools : Slots(heap'[q]) = Slots(heap[q])
        /\ \A q \in Pools, j \in Index : (q # p \/ j # i) =>
              heap'[q].slots[j] = heap[q].slots[j]
    BY <1>1, SlotMovedFrame
  <1>4. ~InUse(p, i)
    BY <1>3, InUseFacts
  <1>5. InUse(p, i)'
    BY <1>2 DEF InUse, Using
  <1>6. \A q \in Pools, j \in Index : (q # p \/ j # i) =>
           (InUse(q, j)' <=> InUse(q, j))
    BY <1>2 DEF InUse, Using
  <1>7. OwnerOf(p, i)' = "client"
    BY <1>5 DEF OwnerOf
  <1>8. \A q \in Pools, j \in Index : (q # p \/ j # i) => OwnerOf(q, j)' = OwnerOf(q, j)
    BY <1>3, <1>6 DEF OwnerOf
  <1>9. BufferOwner' = [BufferOwner EXCEPT ![<<p, i>>] = "client"]
    BY <1>7, <1>8, OwnerChanges
  <1>10. BufferOwner[<<p, i>>] \in {"pool", "transport"}
    BY <1>1, <1>3, <1>4 DEF BufferOwner, OwnerOf
  <1>11. <<p, i>> \in Buffers /\ <<p, i>>[1] = pool
    BY <1>1 DEF Buffers
  <1>12. Contract!Acquire(<<p, i>>)
    BY <1>9, <1>10, <1>11 DEF Contract!Acquire, Contract!Live
  <1> QED
    BY <1>11, <1>12

\* A frame that is dropped, refused, or that QBUF rejects goes back.
LEMMA LeaseGivesBack ==
  ASSUME IInv, NEW l \in Leases, NEW p \in Pools, NEW i \in Index,
         lease[l].pool = p, lease[l].index = i, Using(l),
         NEW from \in {"Dequeued", "Queued"}, SlotMoved(p, i, from, "Free"),
         \A k \in Leases \ {l} : /\ lease'[k] = lease[k]
                                 /\ Using(k)' <=> Using(k),
         ~Using(l)', pool' = pool
  PROVE  \E b \in Buffers : Contract!GiveBack(b)
  <1>1. /\ i \in Slots(heap[p]) /\ heap'[p].slots[i] = "Free"
        /\ \A q \in Pools : Slots(heap'[q]) = Slots(heap[q])
        /\ \A q \in Pools, j \in Index : (q # p \/ j # i) =>
              heap'[q].slots[j] = heap[q].slots[j]
    BY SlotMovedFrame
  <1>2. \A k \in Leases \ {l} : Using(k) => lease[k].pool # p \/ lease[k].index # i
    BY DEF Using, IInv, LeaseSlots, PushingLease
  <1>3. InUse(p, i)
    BY DEF InUse
  <1>4. ~InUse(p, i)'
    BY <1>2 DEF InUse
  <1>5. \A q \in Pools, j \in Index : (q # p \/ j # i) =>
           (InUse(q, j)' <=> InUse(q, j))
    BY DEF InUse
  <1>6. OwnerOf(p, i)' = IF p = pool THEN "pool" ELSE "none"
    BY <1>1, <1>4 DEF OwnerOf
  <1>7. \A q \in Pools, j \in Index : (q # p \/ j # i) => OwnerOf(q, j)' = OwnerOf(q, j)
    BY <1>1, <1>5 DEF OwnerOf
  <1>8. PICK party : party = IF p = pool THEN "pool" ELSE "none"
    OBVIOUS
  <1>9. BufferOwner' = [BufferOwner EXCEPT ![<<p, i>>] = party]
    BY <1>6, <1>7, <1>8, OwnerChanges
  <1>10. BufferOwner[<<p, i>>] = "client"
    BY <1>3 DEF BufferOwner, OwnerOf
  <1> QED
    BY <1>8, <1>9, <1>10 DEF Contract!GiveBack, Contract!Live, Buffers

\* A frame dropped or refused gives its buffer back.
LEMMA GiveUpGivesBack ==
  ASSUME IInv, NEW l \in Leases, GiveUp(l)
  PROVE  \E b \in Buffers : Contract!GiveBack(b)
  <1>1. /\ lease[l].phase = "held" /\ pool' = pool /\ pc' = pc
        /\ lease'[l].phase \in {"none", "released"}
        /\ \A k \in Leases \ {l} : lease'[k] = lease[k]
    BY DEF GiveUp, PushRefused, ReleaseSlot, sinkVars, IInv, TypeOK, NoLease, Lease
  <1>2. SlotMoved(lease[l].pool, lease[l].index, "Dequeued", "Free")
    BY <1>1, ReleaseEffect DEF GiveUp, PushRefused, ReleaseSlot
  <1>3. lease[l].pool \in Pools /\ lease[l].index \in Index
    BY <1>1, PoolOfLeaseMapped DEF IInv, TypeOK, Lease
  <1>4. Using(l) /\ ~Using(l)' /\ \A k \in Leases \ {l} : Using(k)' <=> Using(k)
    BY <1>1 DEF Using
  <1> QED
    BY <1>1, <1>2, <1>3, <1>4, LeaseGivesBack

\* A frame that QBUF rejects gives its buffer back.
LEMMA QueueFailGivesBack ==
  ASSUME IInv, NEW l \in Leases, QueueFail(l)
  PROVE  \E b \in Buffers : Contract!GiveBack(b)
  <1>1. /\ pc = "qbuf" /\ lease[l].phase = "pushing" /\ pc' = "pushReturn"
        /\ UNCHANGED <<lease, pool>>
    BY DEF QueueFail, Goto, sinkVars
  <1>2. /\ lease[l].pool = pool /\ lease[l].index \in Index /\ pool \in Pools
        /\ \A m \in Leases : lease[m].phase = "pushing" => m = l
    BY <1>1, PoolMapped DEF IInv, PushingLease, TypeOK, Lease, Control
  <1>3. Using(l) /\ ~Using(l)' /\ \A k \in Leases \ {l} : Using(k)' <=> Using(k)
    BY <1>1, <1>2 DEF Using
  <1>4. SlotMoved(pool, lease[l].index, "Queued", "Free")
    BY QueueFailEffect
  <1> QED
    BY <1>1, <1>2, <1>3, <1>4, LeaseGivesBack

-----------------------------------------------------------------------------
(***************************************************************************)
(* The steps that end, renew or begin a generation.                        *)
(***************************************************************************)

\* With no buffer on its way through QBUF, before or after, whether a buffer
\* is in use depends on the leases alone.
LEMMA InUseStable ==
  ASSUME lease' = lease, pc = "qbuf" <=> pc' = "qbuf"
  PROVE  \A p \in Pools, i \in Index : InUse(p, i)' <=> InUse(p, i)
  BY DEF InUse, Using

\* Resetting pool_ retires the generation.
LEMMA ResetPoolRetires ==
  ASSUME IInv, ResetPool
  PROVE  Contract!Retire
  <1>1. /\ UNCHANGED <<heap, lease>> /\ pool' = NoPool
        /\ pc # "qbuf" /\ pc' # "qbuf"
    BY ResetPoolFrame
  <1>2. \A p \in Pools, i \in Index :
           OwnerOf(p, i)' = IF InUse(p, i) THEN "client" ELSE "none"
    BY <1>1, InUseStable, NoPoolAssumption DEF OwnerOf
  <1>3. \A p \in Pools, i \in Index : InUse(p, i) <=> OwnerOf(p, i) = "client"
    BY DEF OwnerOf
  <1> QED
    BY <1>1, <1>2, <1>3 DEF Contract!Retire, BufferOwner

\* recycleBuffers renews the generation; yield and the destructor end it.
LEMMA ReclaimRenews ==
  ASSUME IInv, Reclaim
  PROVE  Contract!Recycle \/ Contract!Retire
  <1>1. /\ pc = "reclaim" /\ lease' = lease
        /\ ~(pool # NoPool /\ HasDequeued(heap[pool]))
    BY ReclaimEffect DEF Reclaim
  <1>2. pc' # "qbuf" /\ (op = "recycle" => pool' = pool) /\ (op # "recycle" => pool' = NoPool)
    BY <1>1 DEF Reclaim, Goto
  <1>3. \A p \in Pools, i \in Index : InUse(p, i)' <=> InUse(p, i)
    BY <1>1, <1>2, InUseStable
  <1>4. \A p \in Pools, i \in Index : InUse(p, i) <=> OwnerOf(p, i) = "client"
    BY DEF OwnerOf
  <1>5. CASE op # "recycle"
    <2>1. \A p \in Pools, i \in Index :
             OwnerOf(p, i)' = IF InUse(p, i) THEN "client" ELSE "none"
      BY <1>2, <1>3, <1>5, NoPoolAssumption DEF OwnerOf
    <2> QED
      BY <1>2, <1>4, <1>5, <2>1 DEF Contract!Retire, BufferOwner
  <1>6. CASE op = "recycle"
    <2>1. pool # NoPool /\ pool \in Pools /\ pool' = pool
      BY <1>2, <1>6, PoolMapped DEF IInv, Control
    <2>2. \A i \in Index : ~InUse(pool, i)
      BY <1>1, <2>1, InUseFacts DEF HasDequeued
    <2>3. /\ Slots(heap'[pool]) = Slots(heap[pool])
          /\ \A i \in Slots(heap'[pool]) : heap'[pool].slots[i] = "Free"
      BY <2>1, ReclaimEffect
    <2>4. \A p \in Pools, i \in Index :
             OwnerOf(p, i)' = IF OwnerOf(p, i) = "transport" THEN "pool"
                              ELSE OwnerOf(p, i)
      BY <1>3, <2>1, <2>3 DEF OwnerOf
    <2>5. ~ \E b \in Pools \X Index : BufferOwner[b] = "client" /\ b[1] = pool
      BY <1>4, <2>2 DEF BufferOwner
    <2> QED
      BY <2>1, <2>4, <2>5
      DEF Contract!Recycle, Contract!WithClient, Contract!Live, BufferOwner
  <1> QED
    BY <1>5, <1>6

\* A new pool begins a generation.
LEMMA RequestBegins ==
  ASSUME IInv, NEW n \in 2 .. MaxBuffers, NEW len \in Sizes, NEW p \in Pools,
         RequestAndMap(n, len, p)
  PROVE  Contract!Begin(p, {p} \X Slots(heap'[p]))
  <1>1. /\ pc = "reqbufs" /\ pc' = "streamOn" /\ pool' = p /\ lease' = lease
        /\ ~streaming
    BY DEF RequestAndMap, Goto, IInv, Control
  <1>2. /\ p # pool /\ \A l \in Leases : lease[l].pool # p
        /\ \A i \in Index : heap'[p].slots[i] = "Free"
        /\ \A i \in Index : ~InUse(p, i)
    BY RequestEffect DEF InUse
  <1>3. \A q \in Pools, i \in Index : InUse(q, i)' <=> InUse(q, i)
    BY <1>1, InUseStable
  <1>4. \A i \in Index : pool \in Pools => ~InUse(pool, i)
    <2>1. pool # NoPool => \A i \in Slots(heap[pool]) : heap[pool].slots[i] = "Free"
      BY <1>1 DEF IInv, Quiescent
    <2> QED
      BY <1>1, <2>1, InUseFacts, NoPoolAssumption
  <1>5. \A q \in Pools, i \in Index : InUse(q, i) <=> OwnerOf(q, i) = "client"
    BY DEF OwnerOf
  <1>6. \A q \in Pools, i \in Index :
           OwnerOf(q, i)' = IF q = p /\ i \in Slots(heap'[p]) THEN "pool"
                            ELSE IF InUse(q, i) THEN "client" ELSE "none"
    BY <1>1, <1>2, <1>3 DEF OwnerOf, Slots
  <1>7. \A b \in Pools \X Index :
           b \in {p} \X Slots(heap'[p]) <=> b[1] = p /\ b[2] \in Slots(heap'[p])
    OBVIOUS
  <1>8. BufferOwner' = [b \in Pools \X Index |->
                          IF b \in {p} \X Slots(heap'[p]) THEN "pool"
                          ELSE IF BufferOwner[b] = "client" THEN "client" ELSE "none"]
    BY <1>5, <1>6, <1>7 DEF BufferOwner
  <1>9. ~ \E b \in Contract!WithClient : b[1] = pool \/ b[1] = p
    <2> SUFFICES ASSUME NEW q \in Pools, NEW i \in Index, InUse(q, i)
                 PROVE  q # pool /\ q # p
      BY <1>5 DEF Contract!WithClient, BufferOwner
    <2> QED
      BY <1>2, <1>4
  <1>10. {p} \X Slots(heap'[p]) \subseteq {p} \X Index
    BY DEF Slots
  <1> QED
    BY <1>1, <1>2, <1>8, <1>9, <1>10 DEF Contract!Begin, Contract!Live

-----------------------------------------------------------------------------
(***************************************************************************)
(* The steps the contract does not see.                                    *)
(***************************************************************************)
LEMMA QuietStutters ==
  ASSUME IInv, Quiet, \A l \in Leases : ~Queue(l)
  PROVE  pool' = pool /\ BufferOwner' = BufferOwner
  <1>1. UNCHANGED <<heap, lease, pool>>
    BY QuietFrame
  <1>2. pc = "qbuf" <=> pc' = "qbuf"
    BY DEF Quiet, Construct, OpenDevice, Configure, StartBegin, SetFormat,
           SetFormatFail, RequestFail, RecycleBegin, YieldBegin, DestroyBegin,
           StreamOff, StreamOffFail, ReqbufsZero, ReqbufsZeroFail, StreamOn,
           StreamOnFail, AcquireDequeue, DequeueFail, DeviceComplete, Ready,
           Begin, Return, Goto, Unwind
  <1>3. \A p \in Pools, i \in Index : OwnerOf(p, i)' = OwnerOf(p, i)
    BY <1>1, <1>2, InUseStable DEF OwnerOf
  <1> QED
    BY <1>1, <1>3, OwnerStutters

\* A buffer stays with the client from pushFrame's transition to QBUF.
LEMMA PushBeginStutters ==
  ASSUME IInv, NEW l \in Leases, PushBegin(l)
  PROVE  pool' = pool /\ BufferOwner' = BufferOwner
  <1>1. /\ lease[l].phase = "held" /\ lease[l].pool = pool /\ pool' = pool
        /\ pc = "idle" /\ pc' = "qbuf" /\ pool \in Pools
        /\ lease'[l].phase = "pushing" /\ lease'[l].pool = lease[l].pool
        /\ lease'[l].index = lease[l].index
        /\ \A k \in Leases \ {l} : lease'[k] = lease[k]
    BY PoolMapped DEF PushBegin, BelongsTo, Ready, Goto, sinkVars, IInv, TypeOK, Lease
  <1>2. \A k \in Leases : Using(k)' <=> Using(k)
    BY <1>1 DEF Using, IInv, PushingLease
  <1>3. \A p \in Pools, i \in Index : InUse(p, i)' <=> InUse(p, i)
    BY <1>1, <1>2 DEF InUse
  <1>4. Using(l)
    BY <1>1 DEF Using
  <1>5. /\ \A q \in Pools : Slots(heap'[q]) = Slots(heap[q])
        /\ \A q \in Pools, j \in Index : (q # pool \/ j # lease[l].index) =>
              heap'[q].slots[j] = heap[q].slots[j]
    BY PushBeginEffect, SlotMovedFrame
  <1>6. \A p \in Pools, i \in Index : OwnerOf(p, i)' = OwnerOf(p, i)
    BY <1>1, <1>3, <1>4, <1>5 DEF OwnerOf, InUse
  <1> QED
    BY <1>1, <1>6, OwnerStutters

\* The last reference of a lease that has no slot any more.
LEMMA DropStutters ==
  ASSUME IInv, NEW l \in Leases, PushReturn(l) \/ DropPool(l)
  PROVE  pool' = pool /\ BufferOwner' = BufferOwner
  <1>1. /\ UNCHANGED <<heap, pool>>
        /\ lease' = [lease EXCEPT ![l] = NoLease]
        /\ lease[l].phase \in {"pushing", "released"}
        /\ lease[l].phase = "pushing" => pc = "pushReturn" /\ pc' = "idle"
        /\ lease[l].phase = "released" => pc' = pc
    BY PushReturnEffect DEF PushReturn, DropPool, Return, sinkVars
  <1>2. /\ lease'[l].phase = "none"
        /\ \A k \in Leases \ {l} : lease'[k] = lease[k]
    BY <1>1 DEF IInv, TypeOK, NoLease
  <1>3. \A k \in Leases : (Using(k)' <=> Using(k)) /\ (Using(k) => k # l)
    BY <1>1, <1>2 DEF Using, IInv, PushingLease
  <1>4. \A p \in Pools, i \in Index : InUse(p, i)' <=> InUse(p, i)
    BY <1>2, <1>3 DEF InUse
  <1>5. \A p \in Pools, i \in Index : OwnerOf(p, i)' = OwnerOf(p, i)
    BY <1>1, <1>4 DEF OwnerOf
  <1> QED
    BY <1>1, <1>5, OwnerStutters

\* Both ways acquireFrame goes are Acquire, or change nothing.
LEMMA AcquireRefines ==
  ASSUME IInv, NEW l \in Leases,
         AcquireListed(l) \/ \E i \in 0 .. MaxBuffers : Dequeue(l, i)
  PROVE  \/ \E b \in Buffers : Contract!Acquire(b)
         \/ pool' = pool /\ BufferOwner' = BufferOwner
  <1>1. lease[l] = NoLease /\ pool' = pool /\ pc # "qbuf" /\ pc' # "qbuf"
    BY DEF AcquireListed, Dequeue, Ready, Return, sinkVars
  <1>2. CASE AcquireListed(l)
    <2>1. pool \in Pools
      BY <1>2, PoolMapped DEF AcquireListed
    <2>2. PICK i : SlotMoved(pool, i, "Free", "Dequeued") /\ Hold(l, pool, i)
      BY <1>2, AcquireListedEffect
    <2>3. i \in Index
      BY <2>2 DEF SlotMoved, Slots
    <2> QED
      BY <1>1, <2>1, <2>2, <2>3, HoldAcquires
  <1>3. ASSUME NEW i \in 0 .. MaxBuffers, Dequeue(l, i)
        PROVE  \/ \E b \in Buffers : Contract!Acquire(b)
               \/ pool' = pool /\ BufferOwner' = BufferOwner
    <2>1. pool \in Pools
      BY <1>3, DequeueEffect
    <2>2. CASE CanTransition(heap[pool], i, "Queued")
      <3>1. SlotMoved(pool, i, "Queued", "Dequeued") /\ Hold(l, pool, i)
        BY <1>3, <2>2, DequeueEffect
      <3>2. i \in Index
        BY <3>1 DEF SlotMoved, Slots
      <3> QED
        BY <1>1, <2>1, <3>1, <3>2, HoldAcquires
    <2>3. CASE ~CanTransition(heap[pool], i, "Queued")
      <3>1. heap' = heap /\ lease' = lease
        BY <1>3, <2>3, DequeueEffect
      <3>2. \A p \in Pools, j \in Index : OwnerOf(p, j)' = OwnerOf(p, j)
        BY <1>1, <3>1, InUseStable DEF OwnerOf
      <3> QED
        BY <1>1, <3>2, OwnerStutters
    <2> QED
      BY <2>2, <2>3
  <1> QED
    BY <1>2, <1>3

-----------------------------------------------------------------------------
\* The initial states map to the initial state of the contract.
LEMMA InitRefines ==
  ASSUME Init
  PROVE  Contract!Init
  <1>1. \A p \in Pools, i \in Index : OwnerOf(p, i) = "none"
    BY NoPoolAssumption DEF Init, OwnerOf, InUse, Using, NoLease
  <1> QED
    BY <1>1 DEF Init, Contract!Init, BufferOwner

\* Every step maps to a step of the contract or to a stutter.
LEMMA StepRefines ==
  ASSUME IInv, [Next]_vars
  PROVE  [Contract!Next]_(Contract!vars)
  <1> SUFFICES \/ Contract!Next \/ (pool' = pool /\ BufferOwner' = BufferOwner)
    BY DEF Contract!vars
  <1> USE DEF Buffers
  <1>1. CASE UNCHANGED vars
    <2>1. UNCHANGED <<heap, lease, pool, pc>>
      BY <1>1 DEF vars, leaseVars, sinkVars
    <2>2. \A p \in Pools, i \in Index : OwnerOf(p, i)' = OwnerOf(p, i)
      BY <2>1, InUseStable DEF OwnerOf
    <2> QED
      BY <2>1, <2>2, OwnerStutters
  <1>2. CASE Quiet
    BY <1>2, QuietStutters, QueuePushes DEF Contract!Next
  <1>3. CASE ResetPool \/ Reclaim
    BY <1>3, ResetPoolRetires, ReclaimRenews DEF Contract!Next
  <1>4. ASSUME NEW n \in 2 .. MaxBuffers, NEW len \in Sizes, NEW p \in Pools,
               RequestAndMap(n, len, p)
        PROVE  Contract!Next
    <2>1. {p} \X Slots(heap'[p]) \in SUBSET ({p} \X Index)
      BY DEF Slots
    <2>2. Contract!Begin(p, {p} \X Slots(heap'[p]))
      BY <1>4, RequestBegins
    <2>3. \E S \in SUBSET ({p} \X Index) : Contract!Begin(p, S)
      BY <2>1, <2>2
    <2> QED
      BY <2>3 DEF Contract!Next
  <1>5. ASSUME NEW l \in Leases,
               GiveUp(l) \/ QueueFail(l)
        PROVE  Contract!Next
    BY <1>5, GiveUpGivesBack, QueueFailGivesBack DEF Contract!Next
  <1>6. ASSUME NEW l \in Leases,
               PushBegin(l) \/ PushReturn(l) \/ DropPool(l)
        PROVE  pool' = pool /\ BufferOwner' = BufferOwner
    BY <1>6, PushBeginStutters, DropStutters
  <1>7. ASSUME NEW l \in Leases,
               AcquireListed(l) \/ \E i \in 0 .. MaxBuffers : Dequeue(l, i)
        PROVE  Contract!Next \/ (pool' = pool /\ BufferOwner' = BufferOwner)
    BY <1>7, AcquireRefines DEF Contract!Next
  <1> QED
    BY <1>1, <1>2, <1>3, <1>4, <1>5, <1>6, <1>7, NextCases

\* V4l2Sink keeps the promises IFrameSink makes about its buffers: a step of
\* the sink, of a thread that drops a frame or of the device is a step of the
\* contract or is invisible to it.
THEOREM SinkImplementsContract == Spec => FrameSinkContract
  <1>1. Init => Contract!Init
    BY InitRefines
  <1>2. IInv /\ [Next]_vars => [Contract!Next]_(Contract!vars)
    BY StepRefines
  <1> QED
    BY <1>1, <1>2, InductiveInvariant, PTL DEF Spec, FrameSinkContract, Contract!Spec
=============================================================================
