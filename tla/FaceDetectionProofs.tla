-------------------------- MODULE FaceDetectionProofs --------------------------
(***************************************************************************)
(* Proofs about FaceDetection, for every network answer, every set of      *)
(* boxes and scores and every threshold: the greedy suppression keeps no   *)
(* two overlapping detections, and gives up none without a better one that *)
(* it keeps.  And about FaceAnchors, for every image and every list of     *)
(* strides: the anchors cover every cell, and come cell by cell.           *)
(***************************************************************************)
EXTENDS MCFaceDetection, FiniteSetTheorems, SequenceTheorems,
        WellFoundedInduction, TLAPS

Candidates == {a \in Anchors : Confident(a)}

Answers == [Anchors -> [box : Boxes, score : Scores]]

Suppressing == step \in {"suppress", "done"}

-----------------------------------------------------------------------------
(***************************************************************************)
(* The inductive invariant.                                                *)
(***************************************************************************)

\* The network has answered before anything is decoded, and nothing is kept
\* or removed before the detections are there.
Stepwise ==
    /\ step \in {"load", "invoke", "decode", "suppress", "done", "failed", "blank"}
    /\ step \in {"decode", "suppress", "done"} => raw \in Answers
    /\ ~Suppressing => kept = {} /\ removed = {}

\* The detections are the candidates, each once and all of them, by score.
Enumerated ==
    Suppressing =>
        /\ detections \in [1 .. Cardinality(Candidates) -> Candidates]
        /\ Cardinality(Candidates) \in Nat
        /\ \A a \in Candidates : \E k \in DOMAIN detections : detections[k] = a
        /\ Sorted(detections)

\* Those before the loop's position are decided, one way.
Decided ==
    Suppressing =>
        /\ i \in 1 .. (Cardinality(Candidates) + 1)
        /\ kept \subseteq 1 .. (i - 1) /\ removed \subseteq DOMAIN detections
        /\ 1 .. (i - 1) \subseteq kept \cup removed
        /\ kept \cap removed = {}
        /\ step = "done" => i > Cardinality(Candidates)

\* What a kept one overlaps after it is gone, and nothing else is.
RemovedByKept ==
    Suppressing =>
        /\ \A k \in kept, l \in DOMAIN detections :
               k < l /\ Overlap(BoxAt(k), BoxAt(l)) => l \in removed
        /\ \A l \in removed : \E k \in kept : k < l /\ Overlap(BoxAt(k), BoxAt(l))

DInv == Stepwise /\ Enumerated /\ Decided /\ RemovedByKept

-----------------------------------------------------------------------------
(***************************************************************************)
(* Overlapping has no direction.                                           *)
(***************************************************************************)

\* The greatest of two integers is one of them.
LEMMA MaxOfTwo ==
    ASSUME NEW a \in Int, NEW b \in Int
    PROVE  Max({a, b}) \in Int
  <1>1. \E x \in {a, b} : \A y \in {a, b} : x >= y
    OBVIOUS
  <1>2. Max({a, b}) \in {a, b}
    BY <1>1 DEF Max
  <1> QED
    BY <1>2

\* So is the least.
LEMMA MinOfTwo ==
    ASSUME NEW a \in Int, NEW b \in Int
    PROVE  Min({a, b}) \in Int
  <1>1. \E x \in {a, b} : \A y \in {a, b} : x <= y
    OBVIOUS
  <1>2. Min({a, b}) \in {a, b}
    BY <1>1 DEF Min
  <1> QED
    BY <1>2

\* An area is an integer.
LEMMA AreaIsInt ==
    ASSUME NEW x1 \in Int, NEW y1 \in Int, NEW x2 \in Int, NEW y2 \in Int
    PROVE  Area(x1, y1, x2, y2) \in Int
  <1>1. x2 - x1 \in Int /\ y2 - y1 \in Int /\ 0 \in Int
    OBVIOUS
  <1>2. Max({0, x2 - x1}) \in Int /\ Max({0, y2 - y1}) \in Int
    BY <1>1, MaxOfTwo
  <1>3. \A m, n \in Int : m * n \in Int
    OBVIOUS
  <1> QED
    BY <1>2, <1>3 DEF Area

\* intersectionOverUnion gives the same for two boxes in either order.
LEMMA OverlapSymmetric ==
    ASSUME NEW a \in Boxes, NEW b \in Boxes, Overlap(a, b)
    PROVE  Overlap(b, a)
  <1> DEFINE AreaOf(c) == Area(c.xmin, c.ymin, c.xmax, c.ymax)
  <1>1. \A c \in Boxes : AreaOf(c) \in Int
    BY DetectionAssumption, AreaIsInt
  <1>2. Intersection(a, b) = Intersection(b, a)
    <2>1. \A u, v : {u, v} = {v, u}
      OBVIOUS
    <2> QED
      BY <2>1 DEF Intersection
  <1>3. Union(a, b) = AreaOf(a) + AreaOf(b) - Intersection(a, b)
    BY Zenon DEF Union
  <1>4. Union(b, a) = AreaOf(b) + AreaOf(a) - Intersection(b, a)
    BY Zenon DEF Union
  <1>5. Intersection(a, b) \in Int
    BY DetectionAssumption, MaxOfTwo, MinOfTwo, AreaIsInt DEF Intersection
  <1> HIDE DEF AreaOf
  <1>6. Union(a, b) = Union(b, a)
    BY <1>1, <1>2, <1>3, <1>4, <1>5
  <1> QED
    BY <1>2, <1>6 DEF Overlap

-----------------------------------------------------------------------------
(***************************************************************************)
(* The order of the detections.                                            *)
(***************************************************************************)

\* SetToSeqs lists a finite set whole: an injection between sets of the same
\* size misses nothing.
LEMMA ListsAll ==
    ASSUME NEW S, IsFiniteSet(S), NEW order \in SetToSeqs(S)
    PROVE  /\ Cardinality(S) \in Nat
           /\ order \in [1 .. Cardinality(S) -> S]
           /\ \A a \in S : \E k \in DOMAIN order : order[k] = a
  <1> DEFINE D == 1 .. Cardinality(S)
  <1>1. Cardinality(S) \in Nat
    BY FS_CardinalityType
  <1>2. /\ order \in [D -> S]
        /\ \A j, k \in D : j # k => order[j] # order[k]
    BY DEF SetToSeqs
  <1>3. order \in Injection(D, S)
    BY <1>2 DEF Injection, IsInjective
  <1>4. IsFiniteSet(D) /\ Cardinality(D) = Cardinality(S)
    BY <1>1, FS_Interval
  <1>5. order \in Surjection(D, S)
    BY <1>3, <1>4, FS_Injection
  <1> QED
    BY <1>1, <1>2, <1>5 DEF Surjection

\* The candidates are as few as the anchors.
LEMMA CandidatesFinite == IsFiniteSet(Candidates)
  <1>1. IsFiniteSet(1 .. NumAnchors)
    BY DetectionAssumption, FS_Interval
  <1>2. Candidates \in SUBSET (1 .. NumAnchors)
    BY DetectionAssumption DEF Candidates
  <1> QED
    BY <1>1, <1>2, FS_Subset

-----------------------------------------------------------------------------
(***************************************************************************)
(* Every step keeps the invariant.                                         *)
(***************************************************************************)

\* Nothing has been answered at first.
LEMMA InitDInv == Init => DInv
  BY DEF Init, DInv, Stepwise, Enumerated, Decided, RemovedByKept, Suppressing

\* decodeDetections and std::sort: all the candidates, by score, and none
\* decided.
LEMMA DecodeDInv == DInv /\ Decode => DInv'
  <1> SUFFICES ASSUME DInv, Decode PROVE DInv'
    OBVIOUS
  <1> USE DEF DInv
  <1>1. PICK order \in SetToSeqs(Candidates) : Sorted(order) /\ detections' = order
    BY DEF Decode, Candidates
  <1>2. UNCHANGED <<raw, removed, kept, faces>> /\ step' = "suppress" /\ i' = 1 /\ step = "decode"
    BY DEF Decode
  <1>3. Candidates' = Candidates
    BY <1>2 DEF Candidates, Confident
  <1>4. /\ Cardinality(Candidates) \in Nat
        /\ order \in [1 .. Cardinality(Candidates) -> Candidates]
        /\ \A a \in Candidates : \E k \in DOMAIN order : order[k] = a
    BY CandidatesFinite, ListsAll
  <1>5. Sorted(detections)'
    BY <1>1, <1>2 DEF Sorted, Before
  <1>6. Stepwise'
    BY <1>2 DEF Stepwise, Suppressing
  <1>7. Enumerated'
    BY <1>1, <1>3, <1>4, <1>5 DEF Enumerated
  <1>8. kept' = {} /\ removed' = {}
    BY <1>2 DEF Stepwise, Suppressing
  <1>9. Decided'
    BY <1>2, <1>3, <1>4, <1>8 DEF Decided
  <1>10. RemovedByKept'
    BY <1>8 DEF RemovedByKept
  <1> QED
    BY <1>6, <1>7, <1>9, <1>10

\* A position that is removed is passed over.
LEMMA SkipDInv == DInv /\ Skip => DInv'
  <1> SUFFICES ASSUME DInv, Skip PROVE DInv'
    OBVIOUS
  <1> USE DEF DInv
  <1>1. /\ UNCHANGED <<step, raw, detections, removed, kept, faces>>
        /\ step = "suppress" /\ i \in removed /\ i' = i + 1
    BY DEF Skip
  <1>2. Candidates' = Candidates
    BY <1>1 DEF Candidates, Confident
  <1>3. Suppressing
    BY <1>1 DEF Suppressing
  <1>4. Stepwise' /\ Enumerated'
    BY <1>1, <1>2 DEF Stepwise, Enumerated, Suppressing, Sorted, Before
  <1>5. RemovedByKept'
    BY <1>1 DEF RemovedByKept, Suppressing, BoxAt
  <1>6. i \in 1 .. Cardinality(Candidates)
    BY <1>1, <1>3 DEF Decided, Enumerated
  <1>7. Decided'
    BY <1>1, <1>2, <1>3, <1>6 DEF Decided, Enumerated
  <1> QED
    BY <1>4, <1>5, <1>7

\* A position that is not removed is kept, and removes what it overlaps.
LEMMA KeepDInv == DInv /\ Keep => DInv'
  <1> SUFFICES ASSUME DInv, Keep PROVE DInv'
    OBVIOUS
  <1> USE DEF DInv
  <1> DEFINE gone == {l \in Later(i) : Overlap(BoxAt(i), BoxAt(l))}
  <1>1. /\ UNCHANGED <<step, raw, detections, faces>>
        /\ step = "suppress" /\ i \in DOMAIN detections \ removed
        /\ kept' = kept \cup {i} /\ removed' = removed \cup gone /\ i' = i + 1
    BY DEF Keep
  <1>2. Candidates' = Candidates
    BY <1>1 DEF Candidates, Confident
  <1>3. Suppressing /\ Suppressing'
    BY <1>1 DEF Suppressing
  <1>4. Stepwise' /\ Enumerated'
    BY <1>1, <1>2 DEF Stepwise, Enumerated, Suppressing, Sorted, Before
  <1>5. i \in 1 .. Cardinality(Candidates)
    BY <1>1, <1>3 DEF Enumerated
  <1>6. gone \subseteq DOMAIN detections /\ \A l \in gone : l > i
    BY DEF Later
  <1>7. Decided'
    <2>1. kept' \subseteq 1 .. (i' - 1) /\ 1 .. (i' - 1) \subseteq kept' \cup removed'
      BY <1>1, <1>3, <1>5 DEF Decided
    <2>2. removed' \subseteq DOMAIN detections'
      BY <1>1, <1>3, <1>6 DEF Decided
    <2>3. kept' \cap removed' = {}
      BY <1>1, <1>3, <1>5, <1>6 DEF Decided
    <2>4. i' \in 1 .. (Cardinality(Candidates)' + 1) /\ step' # "done"
      BY <1>1, <1>2, <1>3, <1>5 DEF Enumerated
    <2> QED
      BY <2>1, <2>2, <2>3, <2>4 DEF Decided
  <1>8. \A k : BoxAt(k)' = BoxAt(k)
    BY <1>1 DEF BoxAt
  <1>9. \A k \in kept', l \in DOMAIN detections' :
            k < l /\ Overlap(BoxAt(k), BoxAt(l)) => l \in removed'
    BY <1>1, <1>3, <1>5 DEF RemovedByKept, Enumerated, Later
  <1>10. \A l \in removed' : \E k \in kept' : k < l /\ Overlap(BoxAt(k), BoxAt(l))
    BY <1>1, <1>3, <1>5, <1>6 DEF RemovedByKept, Enumerated
  <1>11. RemovedByKept'
    BY <1>8, <1>9, <1>10 DEF RemovedByKept
  <1> QED
    BY <1>4, <1>7, <1>11

\* The other steps decide nothing.
LEMMA NextDInv == DInv /\ [Next]_vars => DInv'
  <1> SUFFICES ASSUME DInv, [Next]_vars PROVE DInv'
    OBVIOUS
  <1>1. ASSUME Load \/ EmptyFrame \/ InferenceFails \/ Invoke PROVE DInv'
    <2>1. ~Suppressing /\ ~Suppressing' /\ kept' = kept /\ removed' = removed
      BY <1>1 DEF Load, EmptyFrame, InferenceFails, Invoke, Suppressing
    <2>2. Stepwise'
      <3>1. step' \in {"failed", "invoke", "blank"} \/ (step' = "decode" /\ raw' \in Answers)
        BY <1>1 DEF Load, EmptyFrame, InferenceFails, Invoke, Answers
      <3> QED
        BY <2>1, <3>1 DEF DInv, Stepwise, Suppressing
    <2> QED
      BY <2>1, <2>2 DEF DInv, Enumerated, Decided, RemovedByKept
  <1>2. CASE Decode
    BY <1>2, DecodeDInv
  <1>3. CASE Skip
    BY <1>3, SkipDInv
  <1>4. CASE Keep
    BY <1>4, KeepDInv
  <1>5. CASE Return
    <2>1. /\ UNCHANGED <<raw, detections, removed, kept, i>>
          /\ step = "suppress" /\ step' = "done" /\ i > Len(detections)
      BY <1>5 DEF Return
    <2>2. Candidates' = Candidates
      BY <2>1 DEF Candidates, Confident
    <2>3. Stepwise' /\ Enumerated'
      BY <2>1, <2>2 DEF DInv, Stepwise, Enumerated, Suppressing, Sorted, Before
    <2>4. Len(detections) = Cardinality(Candidates)
      BY <2>1 DEF DInv, Enumerated, Suppressing
    <2>5. Decided'
      BY <2>1, <2>2, <2>4 DEF DInv, Decided, Suppressing
    <2>6. RemovedByKept'
      BY <2>1 DEF DInv, RemovedByKept, Suppressing, BoxAt
    <2> QED
      BY <2>3, <2>5, <2>6 DEF DInv
  <1>6. CASE UNCHANGED vars
    BY <1>6 DEF vars, DInv, Stepwise, Enumerated, Decided, RemovedByKept, Suppressing,
                Sorted, Before, BoxAt, Candidates, Confident
  <1> QED
    BY <1>1, <1>2, <1>3, <1>4, <1>5, <1>6 DEF Next

\* The loop of the suppression, at every turn.
THEOREM SuppressionInvariant == Spec => []DInv
  <1>1. Init => DInv
    BY InitDInv
  <1>2. DInv /\ [Next]_vars => DInv'
    BY NextDInv
  <1> QED
    BY <1>1, <1>2, PTL DEF Spec

-----------------------------------------------------------------------------
(***************************************************************************)
(* What the suppression promises.                                          *)
(***************************************************************************)

\* The box of a detection is one that the network answered.
LEMMA BoxIsAnswered ==
    ASSUME DInv, Suppressing, NEW k \in DOMAIN detections
    PROVE  BoxAt(k) \in Boxes
  <1>1. detections[k] \in Anchors
    BY DEF DInv, Enumerated, Candidates
  <1>2. raw \in Answers
    BY DEF DInv, Stepwise, Suppressing
  <1> QED
    BY <1>1, <1>2 DEF Answers, BoxAt

\* No face is counted twice, whatever the network answers: the loop never
\* keeps two detections that overlap.
THEOREM NoFaceTwice == Spec => []KeptDoNotOverlap
  <1>1. DInv => KeptDoNotOverlap
    <2> SUFFICES ASSUME DInv, NEW k \in kept, NEW l \in kept, k # l,
                        Overlap(BoxAt(k), BoxAt(l))
                 PROVE  FALSE
      BY DEF KeptDoNotOverlap
    <2>1. Suppressing
      BY DEF DInv, Stepwise
    <2>2. kept \subseteq DOMAIN detections /\ kept \subseteq Int
      BY <2>1 DEF DInv, Decided, Enumerated
    <2>3. Overlap(BoxAt(l), BoxAt(k))
      BY <2>1, <2>2, BoxIsAnswered, OverlapSymmetric
    <2>4. k < l \/ l < k
      BY <2>2
    <2>5. k \in removed \/ l \in removed
      BY <2>1, <2>2, <2>3, <2>4 DEF DInv, RemovedByKept
    <2> QED
      BY <2>1, <2>5 DEF DInv, Decided
  <1> QED
    BY <1>1, SuppressionInvariant, PTL

\* No face is lost, whatever the network answers and however equal scores are
\* sorted: what is confident is kept, or overlaps one kept that scores no less.
THEOREM NoFaceLost == Spec => []SuppressedByBetter
  <1>1. DInv => SuppressedByBetter
    <2> SUFFICES ASSUME DInv, step = "done", NEW a \in Anchors, raw[a].score >= Threshold
                 PROVE  \E k \in kept :
                            \/ detections[k] = a
                            \/ Overlap(BoxAt(k), raw[a].box) /\ ScoreAt(k) >= raw[a].score
      BY DEF SuppressedByBetter
    <2>1. Suppressing
      BY DEF Suppressing
    <2>2. raw[a].score \in Int
      BY DetectionAssumption DEF DInv, Stepwise, Answers
    <2>3. a \in Candidates
      BY <2>2, DetectionAssumption DEF Candidates, Confident
    <2>4. PICK l \in DOMAIN detections : detections[l] = a
      BY <2>1, <2>3 DEF DInv, Enumerated
    <2>5. l \in kept \cup removed
      BY <2>1, <2>4 DEF DInv, Decided, Enumerated
    <2>6. CASE l \in kept
      BY <2>4, <2>6
    <2>7. CASE l \in removed
      <3>1. PICK k \in kept : k < l /\ Overlap(BoxAt(k), BoxAt(l))
        BY <2>1, <2>7 DEF DInv, RemovedByKept
      <3>2. k \in DOMAIN detections
        BY <2>1, <3>1 DEF DInv, Decided, Enumerated
      <3>3. ScoreAt(k) >= ScoreAt(l)
        BY <2>1, <2>4, <3>1, <3>2 DEF DInv, Enumerated, Sorted, Before, ScoreAt
      <3> QED
        BY <2>4, <3>1, <3>3 DEF BoxAt, ScoreAt
    <2> QED
      BY <2>5, <2>6, <2>7
  <1> QED
    BY <1>1, SuppressionInvariant, PTL

-----------------------------------------------------------------------------
(***************************************************************************)
(* The anchors, for every image and every list of strides.                 *)
(***************************************************************************)

\* The strides of the layers.
Strides == Seq(Nat \ {0})

\* The layers, and where they end.
Reach(strides) == 1 .. (Len(strides) + 1)

\* Whatever a layer has because those after it have it, all of them have.
LEMMA Downwards ==
    ASSUME NEW n \in Nat, NEW S,
           \A l \in 1 .. n : (\A m \in (l + 1) .. n : m \in S) => l \in S
    PROVE  1 .. n \subseteq S
  <1> DEFINE Left == {d \in 0 .. (n - 1) : n - d \notin S}
  <1> SUFFICES ASSUME Left # {} PROVE FALSE
    <2> SUFFICES ASSUME NEW l \in 1 .. n, l \notin S PROVE FALSE
      OBVIOUS
    <2>1. n - l \in 0 .. (n - 1) /\ n - (n - l) = l
      OBVIOUS
    <2>2. n - l \in Left
      BY <2>1
    <2> QED
      BY <2>2
  <1>1. Left \subseteq Nat
    OBVIOUS
  <1>2. PICK d \in Left : \A e \in Left : <<e, d>> \notin OpToRel(<, Nat)
    <2> HIDE DEF Left
    <2> QED
      BY <1>1, WFMin, NatLessThanWellFounded, Zenon
  <1>3. \A e \in Left : ~(e < d)
    BY <1>1, <1>2, Zenon DEF OpToRel
  <1>4. n - d \in 1 .. n /\ n - d \notin S
    OBVIOUS
  <1>5. ASSUME NEW m \in (n - d + 1) .. n PROVE m \in S
    <2>1. n - m \in 0 .. (n - 1) /\ n - m < d /\ n - (n - m) = m
      BY <1>1
    <2> QED
      BY <2>1, <1>3
  <1> QED
    BY <1>4, <1>5

\* The layers of a group have one stride, and the next group has another.
LEMMA LastSameStride ==
    ASSUME NEW strides \in Strides, NEW l \in 1 .. Len(strides)
    PROVE  LET last == LastSameStrideLayer(strides, l)
           IN  /\ last \in (l + 1) .. (Len(strides) + 1)
               /\ \A m \in l .. (last - 1) : strides[m] = strides[l]
               /\ last <= Len(strides) => strides[last] # strides[l]
  <1> DEFINE n == Len(strides)
             last == LastSameStrideLayer(strides, l)
             Other == {m \in l .. (n + 1) : m = n + 1 \/ strides[m] # strides[l]}
  <1>1. n \in Nat
    BY LenProperties DEF Strides
  <1>2. Other \subseteq Nat /\ n + 1 \in Other
    BY <1>1
  <1>3. \E m \in Other : \A k \in Other : m <= k
    <2>1. PICK m \in Other : \A k \in Other : <<k, m>> \notin OpToRel(<, Nat)
      BY <1>2, WFMin, NatLessThanWellFounded, Zenon
    <2>2. \A k \in Other : ~(k < m)
      BY <1>2, <2>1, Zenon DEF OpToRel
    <2> QED
      BY <1>2, <2>2
  <1>4. last = Min(Other)
    BY DEF LastSameStrideLayer
  <1> HIDE DEF last
  <1>5. last \in Other /\ \A k \in Other : last <= k
    BY <1>3, <1>4 DEF Min
  <1>6. last # l
    BY <1>1, <1>5
  <1>7. ASSUME NEW m \in l .. (last - 1) PROVE strides[m] = strides[l]
    <2>1. m \in l .. (n + 1) /\ ~(last <= m)
      BY <1>1, <1>5
    <2> QED
      BY <2>1, <1>5
  <1> QED
    BY <1>1, <1>5, <1>6, <1>7 DEF last

-----------------------------------------------------------------------------
(***************************************************************************)
(* The recursion of GenerateAnchors, which goes down the layers.           *)
(***************************************************************************)

\* The anchors of the layers that share the map of this one.
Group(inputSize, strides, l) ==
    MapAnchors(MapSize(inputSize, strides[l]),
               AnchorsPerLayer * (LastSameStrideLayer(strides, l) - l))

\* What follows from a layer on, when f says it of those after it.
Follows(inputSize, strides, f, l) ==
    IF l > Len(strides) THEN <<>>
    ELSE Group(inputSize, strides, l) \o f[LastSameStrideLayer(strides, l)]

\* There is such a function: it is extended by a layer at a time, from the end.
LEMMA FromExists ==
    ASSUME NEW inputSize, NEW strides \in Strides
    PROVE  \E f : f = [l \in Reach(strides) |-> Follows(inputSize, strides, f, l)]
  <1> DEFINE n == Len(strides) + 1
             From(l, f) == f = [m \in l .. n |-> Follows(inputSize, strides, f, m)]
             S == {l \in 1 .. n : \E f : From(l, f)}
  <1>1. n \in Nat /\ n > 0
    BY LenProperties DEF Strides
  <1>2. ASSUME NEW l \in 1 .. n, \A m \in (l + 1) .. n : m \in S
        PROVE  l \in S
    <2>1. CASE l = n
      <3> DEFINE g == [m \in l .. n |-> <<>>]
      <3>1. \A m \in l .. n : Follows(inputSize, strides, g, m) = <<>>
        BY <1>1, <2>1, LenProperties DEF Follows, Strides
      <3>2. From(l, g)
        BY <3>1
      <3> QED
        BY <3>2
    <2>2. CASE l # n
      <3>1. PICK f : From(l + 1, f)
        BY <1>1, <1>2, <2>2
      <3> DEFINE g == [m \in l .. n |-> IF m = l THEN Follows(inputSize, strides, f, l)
                                          ELSE f[m]]
      <3>2. ASSUME NEW m \in l .. n
            PROVE  Follows(inputSize, strides, g, m) = Follows(inputSize, strides, f, m)
        <4> DEFINE last == LastSameStrideLayer(strides, m)
        <4>1. CASE m > Len(strides)
          BY <4>1 DEF Follows
        <4>2. CASE ~(m > Len(strides))
          <5>1. m \in 1 .. Len(strides)
            BY <4>2, <1>1, LenProperties DEF Strides
          <5>2. last \in (m + 1) .. n
            BY <5>1, LastSameStride
          <5>3. last \in l .. n /\ last # l
            BY <5>1, <5>2, <1>1
          <5>4. g[last] = f[last]
            BY <5>3
          <5> QED
            BY <5>4 DEF Follows
        <4> QED
          BY <4>1, <4>2
      <3>3. ASSUME NEW m \in l .. n PROVE g[m] = Follows(inputSize, strides, f, m)
        <4>1. m # l => m \in (l + 1) .. n
          BY <1>1
        <4> QED
          BY <3>1, <4>1
      <3>4. From(l, g)
        BY <3>2, <3>3
      <3> QED
        BY <3>4
    <2> QED
      BY <2>1, <2>2
  <1>3. 1 .. n \subseteq S
    <2> HIDE DEF S, n
    <2> QED
      BY <1>1, <1>2, Downwards
  <1>4. 1 \in S
    BY <1>1, <1>3
  <1> QED
    BY <1>4 DEF Reach

\* generateBlazeFaceAnchors goes through the groups as Follows says.
LEMMA GenerateAnchorsFrom ==
    ASSUME NEW inputSize, NEW strides \in Strides
    PROVE  \E f : /\ f = [l \in Reach(strides) |-> Follows(inputSize, strides, f, l)]
                  /\ GenerateAnchors(inputSize, strides) = f[1]
  <1> DEFINE From == CHOOSE f : f = [l \in Reach(strides) |-> Follows(inputSize, strides, f, l)]
  <1>1. From = [l \in Reach(strides) |-> Follows(inputSize, strides, From, l)]
    BY FromExists, Zenon
  <1>2. GenerateAnchors(inputSize, strides) = From[1]
    BY Zenon DEF GenerateAnchors, Follows, Reach, Group
  <1> QED
    BY <1>1, <1>2, Zenon

-----------------------------------------------------------------------------
(***************************************************************************)
(* Divisions that round up and down, and the cells of a map.               *)
(***************************************************************************)

\* What a division by a positive number leaves.
LEMMA Division ==
    ASSUME NEW a \in Nat, NEW b \in Nat \ {0}
    PROVE  /\ a \div b \in Nat /\ a % b \in 0 .. (b - 1)
           /\ a = (a \div b) * b + (a % b)
  OBVIOUS

\* A product with a natural number keeps the order.
LEMMA Monotonic ==
    ASSUME NEW a \in Int, NEW b \in Int, NEW c \in Nat, a <= b
    PROVE  a * c <= b * c
  OBVIOUS

\* Quotient and remainder are the only such pair.
LEMMA QuotientUnique ==
    ASSUME NEW q \in Int, NEW p \in Int, NEW b \in Nat \ {0},
           NEW r \in 0 .. (b - 1), NEW s \in 0 .. (b - 1),
           q * b + r = p * b + s
    PROVE  q = p /\ r = s
  <1>1. \A u, v \in Int : u + 1 <= v => u * b + b <= v * b
    <2> SUFFICES ASSUME NEW u \in Int, NEW v \in Int, u + 1 <= v
                 PROVE  u * b + b <= v * b
      OBVIOUS
    <2>1. (u + 1) * b <= v * b
      BY Monotonic
    <2>2. (u + 1) * b = u * b + b
      OBVIOUS
    <2> QED
      BY <2>1, <2>2
  <1>2. ~(q + 1 <= p)
    <2>1. ASSUME q * b + b <= p * b PROVE FALSE
      BY <2>1
    <2> QED
      BY <1>1, <2>1
  <1>3. ~(p + 1 <= q)
    <2>1. ASSUME p * b + b <= q * b PROVE FALSE
      BY <2>1
    <2> QED
      BY <1>1, <2>1
  <1>4. q = p
    BY <1>2, <1>3
  <1> QED
    BY <1>4

\* A map has rows, the last of which begins inside the image and ends at its
\* edge or beyond.
LEMMA MapSizeBounds ==
    ASSUME NEW a \in Nat \ {0}, NEW s \in Nat \ {0}, NEW m, m = MapSize(a, s)
    PROVE  /\ m \in Nat \ {0}
           /\ (m - 1) * s < a /\ m * s >= a
  <1>1. /\ m \in Nat /\ (a + s - 1) % s \in 0 .. (s - 1)
        /\ a + s - 1 = m * s + ((a + s - 1) % s)
    <2>1. a + s - 1 \in Nat
      OBVIOUS
    <2> QED
      BY <2>1, Division DEF MapSize
  <1>2. (m - 1) * s = m * s - s /\ m * s \in Int
    BY <1>1
  <1>3. m * s >= a
    BY <1>1, <1>2
  <1>4. (m - 1) * s < a
    BY <1>1, <1>2
  <1>5. m # 0
    <2>1. 0 * s = 0
      OBVIOUS
    <2> QED
      BY <1>3, <2>1
  <1> QED
    BY <1>1, <1>3, <1>4, <1>5

\* No other number of rows does.
LEMMA MapSizeUnique ==
    ASSUME NEW a \in Nat \ {0}, NEW s \in Nat \ {0}, NEW m \in Nat \ {0},
           (m - 1) * s < a, m * s >= a
    PROVE  m = MapSize(a, s)
  <1> DEFINE n == MapSize(a, s)
  <1>1. n \in Nat \ {0} /\ (n - 1) * s < a /\ n * s >= a
    BY MapSizeBounds
  <1> HIDE DEF n
  <1>2. ~(n <= m - 1)
    <2> SUFFICES ASSUME n <= m - 1 PROVE FALSE
      OBVIOUS
    <2>1. n * s <= (m - 1) * s
      BY <1>1, Monotonic
    <2>2. n * s \in Int /\ (m - 1) * s \in Int
      BY <1>1
    <2> QED
      BY <1>1, <2>1, <2>2
  <1>3. ~(m <= n - 1)
    <2> SUFFICES ASSUME m <= n - 1 PROVE FALSE
      OBVIOUS
    <2>1. m * s <= (n - 1) * s
      BY <1>1, Monotonic
    <2>2. m * s \in Int /\ (n - 1) * s \in Int
      BY <1>1
    <2> QED
      BY <1>1, <2>1, <2>2
  <1>4. n = m
    BY <1>1, <1>2, <1>3
  <1> QED
    BY <1>4 DEF n

\* The place of an anchor gives its cell back.
LEMMA CellOfPlace ==
    ASSUME NEW m \in Nat \ {0}, NEW cell \in Nat
    PROVE  /\ Anchor(m, cell).map = m
           /\ Anchor(m, cell).y \in Nat
           /\ Anchor(m, cell).x \in 0 .. (m - 1)
           /\ Anchor(m, cell).y * m + Anchor(m, cell).x = cell
  BY Division DEF Anchor

\* A place is that of one cell.
LEMMA PlaceOfCell ==
    ASSUME NEW m \in Nat \ {0}, NEW y \in Nat, NEW x \in 0 .. (m - 1),
           NEW cell \in Nat
    PROVE  Anchor(m, cell) = [map |-> m, y |-> y, x |-> x] <=> cell = y * m + x
  <1>1. /\ cell \div m \in Nat /\ cell % m \in 0 .. (m - 1)
        /\ cell = (cell \div m) * m + (cell % m)
    BY Division
  <1>2. ASSUME cell = y * m + x PROVE cell \div m = y /\ cell % m = x
    <2>1. (cell \div m) * m + (cell % m) = y * m + x
      BY <1>1, <1>2
    <2> QED
      BY <1>1, <2>1, QuotientUnique
  <1>3. Anchor(m, cell) = [map |-> m, y |-> y, x |-> x]
            <=> cell \div m = y /\ cell % m = x
    BY DEF Anchor
  <1>4. ASSUME cell \div m = y, cell % m = x PROVE cell = y * m + x
    BY <1>1, <1>4
  <1> QED
    BY <1>2, <1>3, <1>4

\* The k-th anchor of a map is in one of its cells.
LEMMA CellOfNumber ==
    ASSUME NEW m \in Nat \ {0}, NEW p \in Nat \ {0}, NEW k \in 1 .. (m * m * p),
           NEW cell, cell = (k - 1) \div p
    PROVE  /\ cell \in 0 .. (m * m - 1)
           /\ cell * p <= k - 1 /\ k - 1 < (cell + 1) * p
  <1>0. m * m \in Nat /\ m * m * p \in Nat
    OBVIOUS
  <1>1. k - 1 \in Nat
    BY <1>0
  <1>2. cell \in Nat /\ k - 1 = cell * p + ((k - 1) % p) /\ (k - 1) % p \in 0 .. (p - 1)
    BY <1>1, Division
  <1>3. cell * p \in Nat /\ (cell + 1) * p = cell * p + p
    BY <1>2
  <1>4. cell * p <= k - 1 /\ k - 1 < (cell + 1) * p
    BY <1>1, <1>2, <1>3
  <1>5. ~(m * m <= cell)
    <2> SUFFICES ASSUME m * m <= cell PROVE FALSE
      OBVIOUS
    <2>1. (m * m) * p <= cell * p
      BY <1>0, <1>2, Monotonic
    <2> QED
      BY <1>0, <1>1, <1>3, <1>4, <2>1
  <1> QED
    BY <1>0, <1>2, <1>4, <1>5

\* Neighbours are in one cell or two consecutive ones.
LEMMA NextCell ==
    ASSUME NEW p \in Nat \ {0}, NEW k \in Nat \ {0}
    PROVE  k \div p \in {((k - 1) \div p), ((k - 1) \div p) + 1}
  <1> DEFINE a == (k - 1) \div p
             r == (k - 1) % p
             b == k \div p
             s == k % p
  <1>1. a \in Nat /\ r \in 0 .. (p - 1) /\ k - 1 = a * p + r
    <2>1. k - 1 \in Nat
      OBVIOUS
    <2> QED
      BY <2>1, Division
  <1>2. b \in Nat /\ s \in 0 .. (p - 1) /\ k = b * p + s
    BY Division
  <1> HIDE DEF a, b, r, s
  <1>3. a * p \in Nat /\ (a + 1) * p = a * p + p
    BY <1>1
  <1>4. CASE r < p - 1
    <2>1. b * p + s = a * p + (r + 1) /\ r + 1 \in 0 .. (p - 1)
      BY <1>1, <1>2, <1>3, <1>4
    <2>2. b = a
      BY <1>1, <1>2, <2>1, QuotientUnique
    <2> QED
      BY <2>2 DEF a, b
  <1>5. CASE ~(r < p - 1)
    <2>1. b * p + s = (a + 1) * p + 0 /\ 0 \in 0 .. (p - 1)
      BY <1>1, <1>2, <1>3, <1>5
    <2>2. b = a + 1
      BY <1>1, <1>2, <2>1, QuotientUnique
    <2> QED
      BY <2>2 DEF a, b
  <1> QED
    BY <1>4, <1>5

\* The anchors of a cell follow each other, as many as each cell has.
LEMMA AnchorsOfCell ==
    ASSUME NEW m \in Nat \ {0}, NEW p \in Nat \ {0},
           NEW y \in 0 .. (m - 1), NEW x \in 0 .. (m - 1)
    PROVE  LET here == {k \in 1 .. (m * m * p) :
                            MapAnchors(m, p)[k] = [map |-> m, y |-> y, x |-> x]}
           IN  IsFiniteSet(here) /\ Cardinality(here) = p
  <1> DEFINE here == {k \in 1 .. (m * m * p) :
                          MapAnchors(m, p)[k] = [map |-> m, y |-> y, x |-> x]}
             c == y * m + x
             low == c * p
             high == (c + 1) * p
  <1>1. c \in Nat /\ low \in Nat /\ high = low + p /\ m * m * p \in Nat
    OBVIOUS
  <1>2. high <= m * m * p
    <2>1. (y + 1) * m <= m * m
      BY Monotonic
    <2>2. (y + 1) * m = y * m + m /\ y * m \in Nat /\ m * m \in Nat
      OBVIOUS
    <2>3. c + 1 <= m * m
      BY <2>1, <2>2
    <2> HIDE DEF c
    <2> QED
      BY <1>1, <2>2, <2>3, Monotonic
  <1>3. ASSUME NEW k \in 1 .. (m * m * p)
        PROVE  MapAnchors(m, p)[k] = [map |-> m, y |-> y, x |-> x]
                   <=> low + 1 <= k /\ k <= high
    <2> DEFINE cell == (k - 1) \div p
    <2>1. MapAnchors(m, p)[k] = Anchor(m, cell)
      BY DEF MapAnchors
    <2>2. cell \in Nat /\ cell * p <= k - 1 /\ k - 1 < (cell + 1) * p
      BY CellOfNumber
    <2> HIDE DEF cell
    <2>3. Anchor(m, cell) = [map |-> m, y |-> y, x |-> x] <=> cell = c
      BY <1>1, <2>2, PlaceOfCell DEF c
    <2>4. ASSUME cell = c PROVE low + 1 <= k /\ k <= high
      BY <1>1, <2>2, <2>4
    <2>5. ASSUME low + 1 <= k, k <= high PROVE cell = c
      <3> HIDE DEF c
      <3>1. ~(cell + 1 <= c)
        <4> SUFFICES ASSUME cell + 1 <= c PROVE FALSE
          OBVIOUS
        <4>1. (cell + 1) * p <= c * p
          BY <1>1, <2>2, Monotonic
        <4>2. (cell + 1) * p \in Int
          BY <2>2
        <4> QED
          BY <1>1, <2>2, <2>5, <4>1, <4>2
      <3>2. ~(c + 1 <= cell)
        <4> SUFFICES ASSUME c + 1 <= cell PROVE FALSE
          OBVIOUS
        <4>1. (c + 1) * p <= cell * p
          BY <1>1, <2>2, Monotonic
        <4>2. cell * p \in Int
          BY <2>2
        <4> QED
          BY <1>1, <2>2, <2>5, <4>1, <4>2
      <3> QED
        BY <1>1, <2>2, <3>1, <3>2
    <2> QED
      BY <2>1, <2>3, <2>4, <2>5
  <1> HIDE DEF c
  <1>4. here = (low + 1) .. high
    <2> HIDE DEF low, high
    <2> QED
      BY <1>1, <1>2, <1>3
  <1>5. IsFiniteSet((low + 1) .. high) /\ Cardinality((low + 1) .. high) = p
    <2> HIDE DEF low, high
    <2> QED
      BY <1>1, FS_Interval
  <1> QED
    BY <1>4, <1>5

\* The anchors, and the cells they are in.
Place == [map : Nat \ {0}, y : Nat, x : Nat]

CellOf(a) == a.y * a.map + a.x

\* LayersOf are the layers for which generateBlazeFaceAnchors takes a map of
\* this size.
LEMMA LayersOfMap ==
    ASSUME NEW inputSize \in Nat \ {0}, NEW strides \in Strides,
           NEW size \in Nat \ {0}
    PROVE  LayersOf(inputSize, strides, size)
               = {l \in 1 .. Len(strides) : MapSize(inputSize, strides[l]) = size}
  <1>1. DOMAIN strides = 1 .. Len(strides)
    BY LenProperties DEF Strides
  <1>2. ASSUME NEW l \in 1 .. Len(strides)
        PROVE  /\ (size - 1) * strides[l] < inputSize
               /\ size * strides[l] >= inputSize
               <=> MapSize(inputSize, strides[l]) = size
    <2>1. strides[l] \in Nat \ {0}
      BY ElementOfSeq DEF Strides
    <2>2. ASSUME (size - 1) * strides[l] < inputSize, size * strides[l] >= inputSize
          PROVE  MapSize(inputSize, strides[l]) = size
      BY <2>1, <2>2, MapSizeUnique
    <2>3. ASSUME MapSize(inputSize, strides[l]) = size
          PROVE  /\ (size - 1) * strides[l] < inputSize
                 /\ size * strides[l] >= inputSize
      BY <2>1, <2>3, MapSizeBounds
    <2> QED
      BY <2>2, <2>3
  <1> QED
    BY <1>1, <1>2 DEF LayersOf

\* How many anchors the group of a layer has in a cell.
PerCell(strides, l) == AnchorsPerLayer * (LastSameStrideLayer(strides, l) - l)

\* What a group of layers appends: in each cell of its map so many, in order.
LEMMA GroupOfLayers ==
    ASSUME NEW inputSize \in Nat \ {0}, NEW strides \in Strides,
           NEW l \in 1 .. Len(strides)
    PROVE  LET m == MapSize(inputSize, strides[l])
               p == PerCell(strides, l)
               group == Group(inputSize, strides, l)
           IN  /\ m \in Nat \ {0} /\ p \in Nat \ {0}
               /\ group = MapAnchors(m, p)
               /\ group \in Seq(Place)
               /\ Len(group) = m * m * p /\ m * m * p \in Nat \ {0}
               /\ \A k \in 1 .. Len(group) :
                      /\ group[k].map = m
                      /\ CellOf(group[k]) = (k - 1) \div p
  <1> DEFINE m == MapSize(inputSize, strides[l])
             p == PerCell(strides, l)
             group == Group(inputSize, strides, l)
  <1>1. m \in Nat \ {0}
    <2>1. strides[l] \in Nat \ {0}
      BY ElementOfSeq DEF Strides
    <2> QED
      BY <2>1, MapSizeBounds
  <1>2. p \in Nat \ {0}
    <2>1. LastSameStrideLayer(strides, l) \in (l + 1) .. (Len(strides) + 1)
      BY LastSameStride
    <2>2. Len(strides) \in Nat
      BY LenProperties DEF Strides
    <2> QED
      BY <2>1, <2>2 DEF PerCell, AnchorsPerLayer
  <1>3. group = MapAnchors(m, p)
    BY DEF Group, PerCell
  <1> HIDE DEF m, p, group
  <1>4. m * m * p \in Nat \ {0}
    <2>1. \A u, v \in Nat \ {0} : u * v \in Nat \ {0}
      OBVIOUS
    <2>2. m * m \in Nat \ {0}
      BY <1>1, <2>1
    <2> QED
      BY <1>2, <2>1, <2>2
  <1> HIDE DEF Place
  <1>5. ASSUME NEW k \in 1 .. (m * m * p)
        PROVE  /\ MapAnchors(m, p)[k] \in Place
               /\ MapAnchors(m, p)[k].map = m
               /\ CellOf(MapAnchors(m, p)[k]) = (k - 1) \div p
    <2> DEFINE cell == (k - 1) \div p
    <2>1. MapAnchors(m, p)[k] = Anchor(m, cell)
      BY DEF MapAnchors
    <2>2. k - 1 \in Nat
      BY <1>4
    <2>3. cell \in Nat
      BY <1>2, <2>2, Division
    <2> HIDE DEF cell
    <2>4. /\ Anchor(m, cell).map = m /\ Anchor(m, cell).y \in Nat
          /\ Anchor(m, cell).x \in 0 .. (m - 1)
          /\ Anchor(m, cell).y * m + Anchor(m, cell).x = cell
      BY <1>1, <2>3, CellOfPlace
    <2>5. Anchor(m, cell) \in Place
      BY <1>1, <2>4 DEF Anchor, Place
    <2>6. CellOf(Anchor(m, cell)) = cell
      BY <2>4 DEF CellOf
    <2> QED
      BY <2>1, <2>4, <2>5, <2>6 DEF cell
  <1>6. MapAnchors(m, p) = [k \in 1 .. (m * m * p) |-> MapAnchors(m, p)[k]]
    BY DEF MapAnchors
  <1>7. MapAnchors(m, p) \in Seq(Place) /\ Len(MapAnchors(m, p)) = m * m * p
    BY <1>4, <1>5, <1>6, SeqDef, LenProperties
  <1>8. /\ group \in Seq(Place) /\ Len(group) = m * m * p
        /\ \A k \in 1 .. (m * m * p) :
               group[k].map = m /\ CellOf(group[k]) = (k - 1) \div p
    BY <1>3, <1>5, <1>7, Zenon
  <1>9. \A k \in 1 .. Len(group) :
               group[k].map = m /\ CellOf(group[k]) = (k - 1) \div p
    BY <1>8, Zenon
  <1> QED
    BY <1>1, <1>2, <1>3, <1>4, <1>8, <1>9, Zenon DEF m, p, group

-----------------------------------------------------------------------------
(***************************************************************************)
(* The anchors of a map come cell by cell.                                 *)
(***************************************************************************)

\* Two layers have maps of this size, but different strides.
Mixed(inputSize, strides, size) ==
    \E k, l \in LayersOf(inputSize, strides, size) : strides[k] # strides[l]

\* An anchor is in the cell of the one before it or in the next, unless the
\* map changes or two groups share its size.
CellByCell(inputSize, strides, anchors) ==
    \A k \in 2 .. Len(anchors) :
        \/ CellOf(anchors[k]) \in {CellOf(anchors[k - 1]), CellOf(anchors[k - 1]) + 1}
        \/ anchors[k - 1].map # anchors[k].map
        \/ Mixed(inputSize, strides, anchors[k].map)

\* The first anchor is that of the layer.
Begins(inputSize, strides, anchors, l) ==
    l <= Len(strides) =>
        Len(anchors) > 0 /\ anchors[1].map = MapSize(inputSize, strides[l])

\* From every layer on: inside a group by the division, between two groups
\* because their strides differ.
LEMMA TailsCellByCell ==
    ASSUME NEW inputSize \in Nat \ {0}, NEW strides \in Strides,
           NEW f, f = [l \in Reach(strides) |-> Follows(inputSize, strides, f, l)],
           NEW l \in Reach(strides)
    PROVE  /\ f[l] \in Seq(Place)
           /\ CellByCell(inputSize, strides, f[l])
  <1> DEFINE n == Len(strides) + 1
             Good(s, j) == /\ s \in Seq(Place)
                           /\ CellByCell(inputSize, strides, s)
                           /\ Begins(inputSize, strides, s, j)
             S == {j \in 1 .. n : Good(f[j], j)}
  <1>1. n \in Nat /\ Len(strides) \in Nat
    BY LenProperties DEF Strides
  <1>2. ASSUME NEW j \in 1 .. n, \A m \in (j + 1) .. n : m \in S
        PROVE  j \in S
    <2>0. f[j] = Follows(inputSize, strides, f, j)
      BY DEF Reach
    <2>1. CASE j > Len(strides)
      <3>1. f[j] = <<>>
        BY <2>0, <2>1 DEF Follows
      <3>2. <<>> \in Seq(Place) /\ Len(<<>>) = 0
        BY EmptySeq
      <3>3. CellByCell(inputSize, strides, <<>>)
        BY <3>2 DEF CellByCell
      <3>4. Begins(inputSize, strides, <<>>, j)
        BY <1>1, <2>1 DEF Begins
      <3> QED
        BY <3>1, <3>2, <3>3, <3>4
    <2>2. CASE ~(j > Len(strides))
      <3> DEFINE last == LastSameStrideLayer(strides, j)
                 group == Group(inputSize, strides, j)
                 m == MapSize(inputSize, strides[j])
                 p == PerCell(strides, j)
                 rest == f[last]
      <3>1. j \in 1 .. Len(strides)
        BY <1>1, <2>2
      <3>2. f[j] = group \o rest
        BY <2>0, <2>2 DEF Follows
      <3>3. /\ last \in (j + 1) .. n
            /\ last <= Len(strides) => strides[last] # strides[j]
        BY <3>1, LastSameStride
      <3>4. Good(rest, last)
        BY <1>2, <3>3
      <3> HIDE DEF last, group, m, p, rest
      <3>5. /\ m \in Nat \ {0} /\ p \in Nat \ {0}
            /\ group \in Seq(Place) /\ Len(group) \in Nat \ {0}
            /\ \A k \in 1 .. Len(group) :
                   group[k].map = m /\ CellOf(group[k]) = (k - 1) \div p
        <4>1. /\ m \in Nat \ {0} /\ p \in Nat \ {0}
              /\ group \in Seq(Place)
              /\ Len(group) = m * m * p /\ m * m * p \in Nat \ {0}
              /\ \A k \in 1 .. Len(group) :
                     group[k].map = m /\ CellOf(group[k]) = (k - 1) \div p
          BY <3>1, GroupOfLayers, Zenon DEF m, p, group
        <4> QED
          BY <4>1, Zenon
      <3>6. /\ group \o rest \in Seq(Place)
            /\ Len(group \o rest) = Len(group) + Len(rest) /\ Len(rest) \in Nat
            /\ \A k \in 1 .. (Len(group) + Len(rest)) :
                   (group \o rest)[k] = IF k <= Len(group) THEN group[k]
                                        ELSE rest[k - Len(group)]
        BY <3>4, <3>5, ConcatProperties, LenProperties
      <3>11. Len(group) \in Nat \ {0} /\ Len(rest) \in Nat
        BY <3>5, <3>6
      <3>7. CellByCell(inputSize, strides, group \o rest)
        <4> SUFFICES ASSUME NEW k \in 2 .. (Len(group) + Len(rest))
                     PROVE  LET all == group \o rest IN
                            \/ CellOf(all[k]) \in {CellOf(all[k - 1]), CellOf(all[k - 1]) + 1}
                            \/ all[k - 1].map # all[k].map
                            \/ Mixed(inputSize, strides, all[k].map)
          BY <3>6 DEF CellByCell
        <4>1. CASE k <= Len(group)
          <5>1. (group \o rest)[k] = group[k] /\ (group \o rest)[k - 1] = group[k - 1]
            BY <3>5, <3>6, <4>1
          <5>2. /\ CellOf(group[k]) = (k - 1) \div p
                /\ CellOf(group[k - 1]) = ((k - 1) - 1) \div p
            <6>1. k \in 1 .. Len(group) /\ k - 1 \in 1 .. Len(group)
              BY <3>11, <4>1
            <6> QED
              BY <3>5, <6>1
          <5>3. k - 1 \in Nat \ {0}
            BY <3>5, <3>6
          <5>4. (k - 1) \div p \in {(((k - 1) - 1) \div p), (((k - 1) - 1) \div p) + 1}
            BY <3>5, <5>3, NextCell
          <5> QED
            BY <5>1, <5>2, <5>4
        <4>2. CASE k = Len(group) + 1
          <5>1. (group \o rest)[k] = rest[1] /\ (group \o rest)[k - 1] = group[k - 1]
            BY <3>5, <3>6, <4>2
          <5>2. group[k - 1].map = m
            BY <3>5, <4>2
          <5>3. last <= Len(strides)
            <6> SUFFICES ASSUME last = n PROVE FALSE
              BY <1>1, <3>3
            <6>1. last \in Reach(strides) /\ last > Len(strides)
              BY <1>1, <3>3 DEF Reach
            <6>2. rest = <<>>
              BY <6>1 DEF rest, Follows
            <6> QED
              BY <3>5, <4>2, <6>2, EmptySeq
          <5>4. rest[1].map = MapSize(inputSize, strides[last])
            BY <3>4, <5>3 DEF Begins
          <5>5. CASE rest[1].map # m
            BY <5>1, <5>2, <5>5
          <5>6. CASE rest[1].map = m
            <6>1. last \in 1 .. Len(strides)
              BY <3>1, <3>3, <5>3, <1>1
            <6>2. last \in LayersOf(inputSize, strides, m)
                      /\ j \in LayersOf(inputSize, strides, m)
              <7>1. /\ MapSize(inputSize, strides[last]) = m
                    /\ MapSize(inputSize, strides[j]) = m
                BY <5>4, <5>6 DEF m
              <7> QED
                BY <3>1, <3>5, <6>1, <7>1, LayersOfMap
            <6> QED
              BY <3>3, <5>1, <5>3, <5>6, <6>2 DEF Mixed
          <5> QED
            BY <5>5, <5>6
        <4>3. CASE k > Len(group) + 1
          <5> DEFINE h == k - Len(group)
          <5>1. h \in 2 .. Len(rest) /\ k - 1 > Len(group) /\ (k - 1) - Len(group) = h - 1
            BY <3>11, <4>3
          <5>2. (group \o rest)[k] = rest[h] /\ (group \o rest)[k - 1] = rest[h - 1]
            BY <3>11, <3>6, <4>3, <5>1
          <5> QED
            BY <3>4, <5>1, <5>2 DEF CellByCell
        <4> QED
          BY <3>11, <4>1, <4>2, <4>3
      <3>8. Begins(inputSize, strides, group \o rest, j)
        <4>1. (group \o rest)[1] = group[1] /\ Len(group \o rest) > 0
          BY <3>5, <3>6
        <4> QED
          BY <3>5, <4>1 DEF Begins, m
      <3> QED
        BY <3>2, <3>6, <3>7, <3>8
    <2> QED
      BY <2>1, <2>2
  <1>3. 1 .. n \subseteq S
    <2> HIDE DEF S, n
    <2> QED
      BY <1>1, <1>2, Downwards
  <1> QED
    BY <1>3 DEF Reach

\* generateBlazeFaceAnchors numbers the anchors of every image and every list
\* of strides cell by cell: no layer of a group begins a second pass.
THEOREM AnchorsInOnePass ==
    ASSUME NEW inputSize \in Nat \ {0}, NEW strides \in Strides
    PROVE  InOnePass(inputSize, strides)
  <1> DEFINE anchors == GenerateAnchors(inputSize, strides)
             StridesOf(size) == {strides[l] : l \in LayersOf(inputSize, strides, size)}
  <1>1. anchors \in Seq(Place) /\ CellByCell(inputSize, strides, anchors)
    <2>1. 1 \in Reach(strides)
      BY LenProperties DEF Strides, Reach
    <2> QED
      BY <2>1, GenerateAnchorsFrom, TailsCellByCell
  <1> HIDE DEF anchors
  <1>2. ASSUME NEW size \in Nat \ {0}, Cardinality(StridesOf(size)) = 1
        PROVE  ~Mixed(inputSize, strides, size)
    <2>1. LayersOf(inputSize, strides, size) \subseteq 1 .. Len(strides)
      BY LayersOfMap
    <2>2. IsFiniteSet(1 .. Len(strides))
      BY FS_Interval, LenProperties DEF Strides
    <2>3. IsFiniteSet(StridesOf(size))
      <3> DEFINE layers == LayersOf(inputSize, strides, size)
                 g == [l \in layers |-> strides[l]]
      <3>1. IsFiniteSet(layers)
        BY <2>1, <2>2, FS_Subset
      <3>2. g \in Surjection(layers, StridesOf(size))
        BY DEF Surjection
      <3> QED
        BY <3>1, <3>2, FS_Surjection DEF ExistsSurjection
    <2>4. PICK s : StridesOf(size) = {s}
      BY <1>2, <2>3, FS_Singleton
    <2> QED
      BY <2>4 DEF Mixed
  <1>3. ASSUME NEW k \in 2 .. Len(anchors),
               anchors[k - 1].map = anchors[k].map,
               Cardinality(StridesOf(anchors[k].map)) = 1
        PROVE  CellOf(anchors[k]) \in {CellOf(anchors[k - 1]), CellOf(anchors[k - 1]) + 1}
    <2>1. anchors[k] \in Place
      BY <1>1, ElementOfSeq
    <2>2. anchors[k].map \in Nat \ {0}
      BY <2>1 DEF Place
    <2> HIDE DEF StridesOf
    <2> QED
      BY <1>1, <1>2, <1>3, <2>2 DEF CellByCell
  <1>4. ASSUME NEW k \in 2 .. Len(anchors), anchors[k - 1].map = anchors[k].map,
               CellOf(anchors[k]) \in {CellOf(anchors[k - 1]), CellOf(anchors[k - 1]) + 1}
        PROVE  LET before == anchors[k - 1]
                   now == anchors[k]
               IN  now.y * now.map + now.x \in
                        {before.y * now.map + before.x + d : d \in {0, 1}}
    <2>1. anchors[k] \in Place /\ anchors[k - 1] \in Place
      <3>1. k \in 1 .. Len(anchors) /\ k - 1 \in 1 .. Len(anchors)
        BY <1>1, LenProperties
      <3> QED
        BY <1>1, <3>1, ElementOfSeq
    <2>2. CellOf(anchors[k - 1]) \in Int
      BY <2>1 DEF Place, CellOf
    <2> QED
      BY <1>4, <2>2 DEF CellOf
  <1> QED
    BY <1>3, <1>4 DEF InOnePass, anchors

-----------------------------------------------------------------------------
(***************************************************************************)
(* Every cell has two anchors of each layer that sees it.                  *)
(***************************************************************************)

\* The numbers of the anchors in a place.
Hits(anchors, a) == {k \in DOMAIN anchors : anchors[k] = a}

\* A sequence has a value as often as its two parts.
LEMMA HitsOfConcat ==
    ASSUME NEW S, NEW s \in Seq(S), NEW t \in Seq(S), NEW a
    PROVE  /\ IsFiniteSet(Hits(s, a)) /\ IsFiniteSet(Hits(t, a))
           /\ IsFiniteSet(Hits(s \o t, a))
           /\ Cardinality(Hits(s \o t, a)) = Cardinality(Hits(s, a)) + Cardinality(Hits(t, a))
  <1> DEFINE n == Len(s)
             m == Len(t)
             Moved == {k \in (n + 1) .. (n + m) : t[k - n] = a}
  <1>1. /\ n \in Nat /\ m \in Nat /\ DOMAIN s = 1 .. n /\ DOMAIN t = 1 .. m
        /\ s \o t \in Seq(S)
        /\ \A k \in 1 .. (n + m) : (s \o t)[k] = IF k <= n THEN s[k] ELSE t[k - n]
    BY ConcatProperties, LenProperties
  <1>2. DOMAIN (s \o t) = 1 .. (n + m)
    BY ConcatProperties, LenProperties
  <1> HIDE DEF n, m
  <1>3. IsFiniteSet(1 .. n) /\ IsFiniteSet(1 .. m) /\ IsFiniteSet(1 .. (n + m))
    <2>1. \A b \in Int : IsFiniteSet(1 .. b)
      BY FS_Interval
    <2> QED
      BY <1>1, <2>1
  <1>4. IsFiniteSet(Hits(s, a)) /\ IsFiniteSet(Hits(t, a)) /\ IsFiniteSet(Hits(s \o t, a))
    <2>1. /\ Hits(s, a) \in SUBSET (1 .. n) /\ Hits(t, a) \in SUBSET (1 .. m)
          /\ Hits(s \o t, a) \in SUBSET (1 .. (n + m))
      BY <1>1, <1>2 DEF Hits
    <2> QED
      BY <1>3, <2>1, FS_Subset
  <1>5. Hits(s \o t, a) = Hits(s, a) \cup Moved
    <2>1. ASSUME NEW k \in 1 .. n PROVE k \in 1 .. (n + m) /\ k <= n
      BY <1>1
    <2>2. ASSUME NEW k \in (n + 1) .. (n + m) PROVE k \in 1 .. (n + m) /\ ~(k <= n)
      BY <1>1
    <2>3. \A k \in 1 .. (n + m) : k \in 1 .. n \/ k \in (n + 1) .. (n + m)
      BY <1>1
    <2> QED
      BY <1>1, <1>2, <2>1, <2>2, <2>3 DEF Hits
  <1>6. Hits(s, a) \cap Moved = {}
    BY <1>1 DEF Hits
  <1>7. IsFiniteSet(Moved) /\ Cardinality(Moved) = Cardinality(Hits(t, a))
    <2> DEFINE g == [k \in Hits(t, a) |-> k + n]
    <2>0. Hits(t, a) = {k \in 1 .. m : t[k] = a}
      BY <1>1 DEF Hits
    <2>1. g \in [Hits(t, a) -> Moved]
      <3>1. ASSUME NEW k \in 1 .. m PROVE k + n \in (n + 1) .. (n + m) /\ (k + n) - n = k
        BY <1>1
      <3> QED
        BY <2>0, <3>1
    <2>2. \A j, k \in Hits(t, a) : g[j] = g[k] => j = k
      BY <1>1, <2>0
    <2>3. \A k \in Moved : \E j \in Hits(t, a) : g[j] = k
      <3> SUFFICES ASSUME NEW k \in Moved PROVE k - n \in Hits(t, a) /\ g[k - n] = k
        OBVIOUS
      <3>1. k - n \in 1 .. m /\ (k - n) + n = k
        BY <1>1
      <3> QED
        BY <2>0, <3>1
    <2>4. g \in Bijection(Hits(t, a), Moved)
      BY <2>1, <2>2, <2>3 DEF Bijection, Injection, IsInjective, Surjection
    <2> QED
      BY <1>4, <2>4, FS_Bijection DEF ExistsBijection
  <1>8. /\ Cardinality(Hits(s, a)) \in Nat /\ Cardinality(Hits(t, a)) \in Nat
        /\ Cardinality(Hits(s \o t, a))
               = Cardinality(Hits(s, a)) + Cardinality(Moved) - Cardinality({})
    <2> HIDE DEF Moved
    <2> QED
      BY <1>4, <1>5, <1>6, <1>7, FS_Union, FS_CardinalityType
  <1> QED
    BY <1>4, <1>7, <1>8, FS_EmptySet

\* The layers with maps of this size, from one on.
LayersFrom(inputSize, strides, size, l) ==
    {k \in LayersOf(inputSize, strides, size) : k >= l}

\* A group has all the anchors its layers have in a cell, and those of no
\* other map.
LEMMA HitsOfGroup ==
    ASSUME NEW inputSize \in Nat \ {0}, NEW strides \in Strides,
           NEW l \in 1 .. Len(strides), NEW size \in Nat \ {0},
           NEW y \in 0 .. (size - 1), NEW x \in 0 .. (size - 1)
    PROVE  Cardinality(Hits(Group(inputSize, strides, l),
                            [map |-> size, y |-> y, x |-> x]))
               = IF MapSize(inputSize, strides[l]) = size THEN PerCell(strides, l) ELSE 0
  <1> DEFINE m == MapSize(inputSize, strides[l])
             p == PerCell(strides, l)
             group == Group(inputSize, strides, l)
             a == [map |-> size, y |-> y, x |-> x]
  <1>1. /\ m \in Nat \ {0} /\ p \in Nat \ {0}
        /\ group = MapAnchors(m, p) /\ group \in Seq(Place)
        /\ Len(group) = m * m * p
        /\ \A k \in 1 .. Len(group) : group[k].map = m
    <2>1. m \in Nat \ {0} /\ p \in Nat \ {0}
      BY GroupOfLayers
    <2>2. group = MapAnchors(m, p) /\ group \in Seq(Place)
      BY GroupOfLayers
    <2>3. Len(group) = m * m * p
      BY GroupOfLayers, Zenon
    <2>4. ASSUME NEW k \in 1 .. Len(group) PROVE group[k].map = m
      <3>1. \A h \in 1 .. Len(group) :
                group[h].map = m /\ CellOf(group[h]) = (h - 1) \div p
        BY GroupOfLayers, Zenon
      <3> QED
        BY <3>1
    <2> QED
      BY <2>1, <2>2, <2>3, <2>4, Zenon
  <1>2. DOMAIN group = 1 .. (m * m * p)
    BY <1>1, LenProperties, Zenon
  <1> HIDE DEF m, p, group
  <1>3. CASE m = size
    <2>1. Hits(group, a) = {k \in 1 .. (m * m * p) : MapAnchors(m, p)[k] = a}
      BY <1>1, <1>2 DEF Hits
    <2>2. Cardinality({k \in 1 .. (m * m * p) :
                           MapAnchors(m, p)[k] = [map |-> m, y |-> y, x |-> x]}) = p
      BY <1>1, <1>3, AnchorsOfCell
    <2> QED
      BY <1>3, <2>1, <2>2 DEF m, p, group
  <1>4. CASE m # size
    <2>1. a.map = size
      OBVIOUS
    <2>2. Hits(group, a) = {}
      BY <1>1, <1>2, <1>4, <2>1 DEF Hits
    <2> QED
      BY <1>4, <2>2, FS_EmptySet DEF m, group
  <1> QED
    BY <1>3, <1>4

\* Of the layers from one on, those of the same stride up to the next have its
\* map or not together.
LEMMA CountLayersFrom ==
    ASSUME NEW inputSize \in Nat \ {0}, NEW strides \in Strides,
           NEW l \in 1 .. Len(strides), NEW size \in Nat \ {0}
    PROVE  LET last == LastSameStrideLayer(strides, l)
               rest == LayersFrom(inputSize, strides, size, last)
           IN  /\ Cardinality(rest) \in Nat
               /\ Cardinality(LayersFrom(inputSize, strides, size, l))
                      = (IF MapSize(inputSize, strides[l]) = size THEN last - l ELSE 0)
                            + Cardinality(rest)
  <1> DEFINE n == Len(strides)
             Layers == LayersOf(inputSize, strides, size)
             last == LastSameStrideLayer(strides, l)
             rest == LayersFrom(inputSize, strides, size, last)
             here == {k \in Layers : l <= k /\ k < last}
  <1>1. n \in Nat /\ Layers = {k \in 1 .. n : MapSize(inputSize, strides[k]) = size}
    BY LayersOfMap, LenProperties DEF Strides
  <1>2. /\ last \in (l + 1) .. (n + 1)
        /\ \A k \in l .. (last - 1) : strides[k] = strides[l]
    BY LastSameStride
  <1> HIDE DEF Layers, n, last
  <1>3. IsFiniteSet(rest) /\ IsFiniteSet(here)
    <2>1. IsFiniteSet(1 .. n)
      BY <1>1, FS_Interval
    <2>2. rest \in SUBSET (1 .. n) /\ here \in SUBSET (1 .. n)
      BY <1>1 DEF LayersFrom, Layers
    <2> QED
      BY <2>1, <2>2, FS_Subset
  <1>4. LayersFrom(inputSize, strides, size, l) = here \cup rest /\ here \cap rest = {}
    <2>1. \A k \in Layers : k \in 1 .. n
      BY <1>1
    <2>2. \A k \in 1 .. n : /\ k >= l <=> (l <= k /\ k < last) \/ k >= last
                            /\ ~(k < last /\ k >= last)
      BY <1>1, <1>2
    <2> QED
      BY <2>1, <2>2 DEF LayersFrom, Layers
  <1>5. Cardinality(here) = IF MapSize(inputSize, strides[l]) = size THEN last - l ELSE 0
    <2>1. \A k \in 1 .. n : l <= k /\ k < last <=> k \in l .. (last - 1)
      BY <1>1, <1>2 DEF n
    <2>2. l .. (last - 1) \subseteq 1 .. n
      BY <1>1, <1>2 DEF n
    <2>3. CASE MapSize(inputSize, strides[l]) = size
      <3>1. here = l .. (last - 1)
        BY <1>1, <1>2, <2>1, <2>2, <2>3
      <3>2. Cardinality(l .. (last - 1)) = last - l
        <4>1. l \in Int /\ last - 1 \in Int /\ ~(l > last - 1) /\ (last - 1) - l + 1 = last - l
          BY <1>1, <1>2
        <4> QED
          BY <4>1, FS_Interval
      <3> QED
        BY <2>3, <3>1, <3>2
    <2>4. CASE MapSize(inputSize, strides[l]) # size
      <3>1. here = {}
        BY <1>1, <1>2, <2>1, <2>4
      <3> QED
        BY <2>4, <3>1, FS_EmptySet
    <2> QED
      BY <2>3, <2>4
  <1>6. /\ Cardinality(here) \in Nat /\ Cardinality(rest) \in Nat
        /\ Cardinality(here \cup rest) = Cardinality(here) + Cardinality(rest) - Cardinality({})
    <2> HIDE DEF here, rest
    <2> QED
      BY <1>3, <1>4, FS_Union, FS_CardinalityType
  <1>7. Cardinality(here \cup rest) = Cardinality(here) + Cardinality(rest)
    <2> HIDE DEF here, rest
    <2> QED
      BY <1>6, FS_EmptySet
  <1> QED
    BY <1>4, <1>5, <1>6, <1>7 DEF last

\* From every layer on.
LEMMA TailsCover ==
    ASSUME NEW inputSize \in Nat \ {0}, NEW strides \in Strides,
           NEW f, f = [l \in Reach(strides) |-> Follows(inputSize, strides, f, l)],
           NEW size \in Nat \ {0},
           NEW y \in 0 .. (size - 1), NEW x \in 0 .. (size - 1),
           NEW l \in Reach(strides)
    PROVE  Cardinality(Hits(f[l], [map |-> size, y |-> y, x |-> x]))
               = 2 * Cardinality(LayersFrom(inputSize, strides, size, l))
  <1> DEFINE n == Len(strides) + 1
             a == [map |-> size, y |-> y, x |-> x]
             Layers(j) == LayersFrom(inputSize, strides, size, j)
             S == {j \in 1 .. n : Cardinality(Hits(f[j], a)) = 2 * Cardinality(Layers(j))}
  <1>1. n \in Nat /\ Len(strides) \in Nat
    BY LenProperties DEF Strides
  <1>2. ASSUME NEW j \in 1 .. n, \A m \in (j + 1) .. n : m \in S
        PROVE  j \in S
    <2>0. f[j] = Follows(inputSize, strides, f, j)
      BY DEF Reach
    <2>1. CASE j > Len(strides)
      <3>1. f[j] = <<>>
        BY <2>0, <2>1 DEF Follows
      <3>2. Hits(<<>>, a) = {}
        BY DEF Hits
      <3>3. Layers(j) = {}
        BY <1>1, <2>1, LayersOfMap DEF LayersFrom
      <3>4. Cardinality(Hits(f[j], a)) = 0 /\ Cardinality(Layers(j)) = 0
        BY <3>1, <3>2, <3>3, FS_EmptySet
      <3> QED
        BY <3>4
    <2>2. CASE ~(j > Len(strides))
      <3> DEFINE last == LastSameStrideLayer(strides, j)
                 group == Group(inputSize, strides, j)
                 rest == f[last]
      <3>1. j \in 1 .. Len(strides)
        BY <1>1, <2>2
      <3>2. f[j] = group \o rest
        BY <2>0, <2>2 DEF Follows
      <3>3. last \in (j + 1) .. n
        BY <3>1, LastSameStride
      <3>4. last \in S
        BY <1>2, <3>3
      <3>5. group \in Seq(Place)
        BY <3>1, GroupOfLayers, Zenon
      <3>6. rest \in Seq(Place)
        <4>1. last \in Reach(strides)
          BY <1>1, <3>3 DEF Reach
        <4> QED
          BY <4>1, TailsCellByCell
      <3>7. Cardinality(Hits(f[j], a)) = Cardinality(Hits(group, a)) + Cardinality(Hits(rest, a))
        <4> HIDE DEF group, rest, a
        <4>1. Cardinality(Hits(group \o rest, a))
                  = Cardinality(Hits(group, a)) + Cardinality(Hits(rest, a))
          BY <3>5, <3>6, HitsOfConcat, Zenon
        <4> QED
          BY <3>2, <4>1, Zenon
      <3>8. Cardinality(Hits(group, a))
                = IF MapSize(inputSize, strides[j]) = size THEN PerCell(strides, j) ELSE 0
        BY <3>1, HitsOfGroup
      <3>9. PerCell(strides, j) = 2 * (last - j)
        BY DEF PerCell, AnchorsPerLayer
      <3>10. /\ Cardinality(Layers(last)) \in Nat
             /\ Cardinality(Layers(j))
                  = (IF MapSize(inputSize, strides[j]) = size THEN last - j ELSE 0)
                        + Cardinality(Layers(last))
        BY <3>1, CountLayersFrom
      <3>11. Cardinality(Hits(rest, a)) = 2 * Cardinality(Layers(last))
        BY <3>4
      <3> HIDE DEF last, group, rest, a, Layers
      <3>12. Cardinality(Hits(f[j], a)) = 2 * Cardinality(Layers(j))
        <4>1. last - j \in Int
          BY <1>1, <3>3
        <4>2. CASE MapSize(inputSize, strides[j]) = size
          BY <3>7, <3>8, <3>9, <3>10, <3>11, <4>1, <4>2
        <4>3. CASE MapSize(inputSize, strides[j]) # size
          BY <3>7, <3>8, <3>10, <3>11, <4>3
        <4> QED
          BY <4>2, <4>3
      <3> QED
        BY <3>12
    <2> QED
      BY <2>1, <2>2
  <1>3. 1 .. n \subseteq S
    <2> HIDE DEF S, n
    <2> QED
      BY <1>1, <1>2, Downwards
  <1> QED
    BY <1>3 DEF Reach

\* generateBlazeFaceAnchors gives every cell of every map, whatever the image
\* and the strides, two anchors for each of its layers: also the cells that the
\* image only partly fills.
THEOREM AnchorsCoverCells ==
    ASSUME NEW inputSize \in Nat \ {0}, NEW strides \in Strides
    PROVE  CellsCovered(inputSize, strides)
  <1>1. ASSUME NEW size \in 1 .. inputSize,
               NEW x \in 0 .. (size - 1), NEW y \in 0 .. (size - 1)
        PROVE  Cardinality(Hits(GenerateAnchors(inputSize, strides),
                                [map |-> size, y |-> y, x |-> x]))
                   = 2 * Cardinality(LayersOf(inputSize, strides, size))
    <2>1. size \in Nat \ {0}
      OBVIOUS
    <2>2. 1 \in Reach(strides)
      BY LenProperties DEF Strides, Reach
    <2>3. LayersFrom(inputSize, strides, size, 1) = LayersOf(inputSize, strides, size)
      BY <2>1, LayersOfMap DEF LayersFrom
    <2> QED
      BY <2>1, <2>2, <2>3, GenerateAnchorsFrom, TailsCover
  <1> QED
    BY <1>1, Zenon DEF CellsCovered, Hits

\* The anchors are numbered as the network numbers its outputs, for the
\* networks of AnchorsMatchOutputs.
THEOREM AnchorsNumbered == Spec => []AnchorsMatchOutputs
  <1>1. SmallSize \in Nat \ {0} /\ FourLayers \subseteq Strides
    <2>1. \A s \in FourLayers : s \in Seq({1, 2, 3})
      BY SeqDef DEF FourLayers
    <2> QED
      BY <2>1, SeqDef DEF SmallSize, FourLayers, Strides
  <1>2. AnchorsMatchOutputs
    BY <1>1, DetectionAssumption, AnchorsInOnePass, AnchorsCoverCells
       DEF AnchorsMatchOutputs, Strides
  <1> QED
    BY <1>2, PTL

\* The detector's network, 128 by 128 with strides of 8, 16, 16 and 16, has two
\* anchors in each of 16 by 16 cells and six in each of 8 by 8: 896, which is
\* kNumAnchors, so that the constructor's comparison does not throw.
THEOREM BlazeFaceAnchors ==
    /\ GenerateAnchors(128, BlazeFace) = MapAnchors(16, 2) \o MapAnchors(8, 6)
    /\ Len(GenerateAnchors(128, BlazeFace)) = 896
  <1> DEFINE n == 128
             s == BlazeFace
  <1>1. s \in Strides /\ Len(s) = 4
        /\ s[1] = 8 /\ s[2] = 16 /\ s[3] = 16 /\ s[4] = 16
    BY DEF BlazeFace, Strides
  <1>4. MapSize(n, 8) = 16 /\ MapSize(n, 16) = 8
    BY DEF MapSize
  <1> HIDE DEF s
  <1>a. ASSUME NEW l \in 1 .. 4
        PROVE  /\ LastSameStrideLayer(s, l) \in (l + 1) .. 5
               /\ \A m \in l .. (LastSameStrideLayer(s, l) - 1) : s[m] = s[l]
               /\ LastSameStrideLayer(s, l) <= 4 => s[LastSameStrideLayer(s, l)] # s[l]
    <2>1. l \in 1 .. Len(s) /\ Len(s) + 1 = 5
      BY <1>1
    <2>2. /\ LastSameStrideLayer(s, l) \in (l + 1) .. (Len(s) + 1)
          /\ \A m \in l .. (LastSameStrideLayer(s, l) - 1) : s[m] = s[l]
          /\ LastSameStrideLayer(s, l) <= Len(s) => s[LastSameStrideLayer(s, l)] # s[l]
      BY <1>1, <2>1, LastSameStride
    <2> QED
      BY <1>1, <2>1, <2>2
  <1>2. LastSameStrideLayer(s, 1) = 2
    <2>1. LastSameStrideLayer(s, 1) \in 2 .. 5
      BY <1>a
    <2>2. ~(LastSameStrideLayer(s, 1) > 2)
      BY <1>1, <1>a, <2>1
    <2> QED
      BY <2>1, <2>2
  <1>3. LastSameStrideLayer(s, 2) = 5
    <2>1. LastSameStrideLayer(s, 2) \in 3 .. 5
      BY <1>a
    <2>2. LastSameStrideLayer(s, 2) # 3 /\ LastSameStrideLayer(s, 2) # 4
      BY <1>1, <1>a, <2>1
    <2> QED
      BY <2>1, <2>2
  <1>5. PICK f : /\ f = [l \in Reach(s) |-> Follows(n, s, f, l)]
                 /\ GenerateAnchors(n, s) = f[1]
    BY <1>1, GenerateAnchorsFrom
  <1> HIDE DEF n
  <1>6. Reach(s) = 1 .. 5
    BY <1>1 DEF Reach
  <1>7. \A l \in 1 .. 5 : f[l] = Follows(n, s, f, l)
    BY <1>5, <1>6
  <1>8. f[5] = <<>>
    BY <1>1, <1>7 DEF Follows
  <1>9. f[2] = Group(n, s, 2) \o f[5] /\ f[1] = Group(n, s, 1) \o f[2]
    <2>1. f[2] = Follows(n, s, f, 2) /\ f[1] = Follows(n, s, f, 1)
      BY <1>7
    <2>2. ~(2 > Len(s)) /\ ~(1 > Len(s))
      BY <1>1
    <2> QED
      BY <1>2, <1>3, <2>1, <2>2, Zenon DEF Follows
  <1>10. Group(n, s, 1) = MapAnchors(16, 2) /\ Group(n, s, 2) = MapAnchors(8, 6)
    BY <1>1, <1>2, <1>3, <1>4 DEF Group, AnchorsPerLayer
  <1>11. /\ Group(n, s, 1) \in Seq(Place) /\ Len(Group(n, s, 1)) = 512
         /\ Group(n, s, 2) \in Seq(Place) /\ Len(Group(n, s, 2)) = 384
    <2>1. ASSUME NEW l \in 1 .. 4
          PROVE  /\ Group(n, s, l) \in Seq(Place)
                 /\ Len(Group(n, s, l))
                       = MapSize(n, s[l]) * MapSize(n, s[l]) * PerCell(s, l)
      <3>1. n \in Nat \ {0} /\ s \in Strides /\ l \in 1 .. Len(s)
        BY <1>1 DEF n
      <3> QED
        BY <3>1, GroupOfLayers, Zenon
    <2>2. PerCell(s, 1) = 2 /\ PerCell(s, 2) = 6
      BY <1>2, <1>3 DEF PerCell, AnchorsPerLayer
    <2>3. /\ Group(n, s, 1) \in Seq(Place) /\ Group(n, s, 2) \in Seq(Place)
          /\ Len(Group(n, s, 1)) = MapSize(n, s[1]) * MapSize(n, s[1]) * PerCell(s, 1)
          /\ Len(Group(n, s, 2)) = MapSize(n, s[2]) * MapSize(n, s[2]) * PerCell(s, 2)
      BY <2>1
    <2> QED
      <3> DEFINE a == MapSize(n, s[1])
                 b == MapSize(n, s[2])
                 p == PerCell(s, 1)
                 q == PerCell(s, 2)
                 g == Len(Group(n, s, 1))
                 h == Len(Group(n, s, 2))
      <3>1. a = 16 /\ b = 8 /\ p = 2 /\ q = 6 /\ g = a * a * p /\ h = b * b * q
        BY <1>1, <1>4, <2>2, <2>3
      <3> HIDE DEF a, b, p, q, g, h
      <3>2. g = 512 /\ h = 384
        BY <3>1
      <3> QED
        BY <2>3, <3>2 DEF g, h
  <1>12. f[1] = MapAnchors(16, 2) \o MapAnchors(8, 6) /\ Len(f[1]) = 896
    <2>1. f[2] = Group(n, s, 2)
      BY <1>8, <1>9, <1>11, ConcatEmptySeq
    <2>2. f[1] = MapAnchors(16, 2) \o MapAnchors(8, 6)
      BY <1>9, <1>10, <2>1, Zenon
    <2>3. Len(Group(n, s, 1) \o Group(n, s, 2)) = Len(Group(n, s, 1)) + Len(Group(n, s, 2))
      <3>1. \A u, v \in Seq(Place) : Len(u \o v) = Len(u) + Len(v)
        BY ConcatProperties
      <3> DEFINE g == Group(n, s, 1)
                 h == Group(n, s, 2)
      <3>2. g \in Seq(Place) /\ h \in Seq(Place)
        BY <1>11
      <3> HIDE DEF g, h, Place
      <3>3. Len(g \o h) = Len(g) + Len(h)
        BY <3>1, <3>2
      <3> QED
        BY <3>3 DEF g, h
    <2> QED
      <3>1. Len(Group(n, s, 1) \o Group(n, s, 2)) = 896
        <4> DEFINE g == Len(Group(n, s, 1))
                   h == Len(Group(n, s, 2))
                   all == Len(Group(n, s, 1) \o Group(n, s, 2))
        <4>1. g = 512 /\ h = 384 /\ all = g + h
          BY <1>11, <2>3, Zenon
        <4> HIDE DEF g, h, all
        <4>2. all = 896
          BY <4>1
        <4> QED
          BY <4>2 DEF all
      <3>2. Group(n, s, 1) \o Group(n, s, 2) = f[1]
        BY <1>9, <2>1
      <3> QED
        BY <2>2, <3>1, <3>2
  <1> QED
    <2>1. GenerateAnchors(n, s) = MapAnchors(16, 2) \o MapAnchors(8, 6)
      BY <1>5, <1>12, Zenon
    <2>2. Len(GenerateAnchors(n, s)) = 896
      BY <1>5, <1>12
    <2> QED
      BY <2>1, <2>2 DEF n, s
=============================================================================
