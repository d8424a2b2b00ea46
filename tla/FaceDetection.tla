----------------------------- MODULE FaceDetection -----------------------------
(***************************************************************************)
(* FaceDetector: the model and its anchors, and countFaces after the       *)
(* network has answered: the detections above the threshold, sorted by     *)
(* score, and the greedy suppression of those that overlap a better one.   *)
(*                                                                         *)
(* Coordinates and scores are small integers; a threshold on a quotient of *)
(* areas is compared by multiplication, so no rounding is lost.  Scores    *)
(* may be equal (the sigmoid saturates), and std::sort leaves equal ones   *)
(* in any order.                                                           *)
(***************************************************************************)
EXTENDS FaceAnchors

CONSTANTS
    Boxes,          \* boxes the network may answer, some of them inverted
    Scores,         \* scores
    InputSize,      \* kInputSize
    LayerStrides,   \* the strides of generateBlazeFaceAnchors
    NumAnchors,     \* kNumAnchors
    Anchors,        \* the anchors that may be answered above every threshold
    Threshold       \* confidenceThreshold

ASSUME DetectionAssumption ==
    /\ Boxes \subseteq [xmin : Int, ymin : Int, xmax : Int, ymax : Int]
    /\ Scores \subseteq Int /\ Threshold \in Int
    /\ InputSize \in Nat \ {0} /\ LayerStrides \in Seq(Nat \ {0})
    /\ NumAnchors \in Nat /\ Anchors \subseteq 1 .. NumAnchors

VARIABLES
    step,           \* where countFaces is
    raw,            \* what the network answers for each anchor
    detections,     \* the anchors of the detections, in their order
    removed,        \* the positions suppressed
    kept,           \* the positions kept
    i,              \* the position the loop is at
    faces           \* the count returned

vars == <<step, raw, detections, removed, kept, i, faces>>

NoAnswer == -1

Init ==
    /\ step = "load" /\ raw = <<>>
    /\ detections = <<>> /\ removed = {} /\ kept = {} /\ i = 0
    /\ faces = NoAnswer

-----------------------------------------------------------------------------
(***************************************************************************)
(* intersectionOverUnion.                                                  *)
(***************************************************************************)
Area(xmin, ymin, xmax, ymax) == Max({0, xmax - xmin}) * Max({0, ymax - ymin})

Intersection(a, b) ==
    Area(Max({a.xmin, b.xmin}), Max({a.ymin, b.ymin}),
         Min({a.xmax, b.xmax}), Min({a.ymax, b.ymax}))

Union(a, b) ==
    Area(a.xmin, a.ymin, a.xmax, a.ymax) + Area(b.xmin, b.ymin, b.xmax, b.ymax)
        - Intersection(a, b)

\* IoU > kNmsThreshold, which is 0.3; two empty boxes do not overlap.
Overlap(a, b) == Union(a, b) > 0 /\ 10 * Intersection(a, b) > 3 * Union(a, b)

BoxAt(k) == raw[detections[k]].box
ScoreAt(k) == raw[detections[k]].score

-----------------------------------------------------------------------------
\* The constructor, which throws when the model does not load, or the anchors
\* are not as many as the outputs that are decoded.
Load ==
    /\ step = "load"
    /\ step' \in IF Len(GenerateAnchors(InputSize, LayerStrides)) = NumAnchors
                  THEN {"invoke", "failed"} ELSE {"failed"}
    /\ UNCHANGED <<raw, detections, removed, kept, i, faces>>

\* An empty frame is not shown to the network and has no faces.
EmptyFrame ==
    /\ step = "invoke"
    /\ step' = "blank" /\ faces' = 0
    /\ UNCHANGED <<raw, detections, removed, kept, i>>

\* A tensor of another type, or an inference that fails.
InferenceFails ==
    /\ step = "invoke"
    /\ step' = "failed"
    /\ UNCHANGED <<raw, detections, removed, kept, i, faces>>

Confident(a) == ~ (raw[a].score < Threshold)

\* Faulty variant: sorts the worst to the front.
BeforeReversed(a, b) == raw[a].score <= raw[b].score

Before(a, b) == raw[a].score >= raw[b].score

Sorted(order) == \A j, k \in DOMAIN order : j < k => Before(order[j], order[k])

\* The network answers.
Invoke ==
    /\ step = "invoke"
    /\ step' = "decode"
    /\ raw' \in [Anchors -> [box : Boxes, score : Scores]]
    /\ UNCHANGED <<detections, removed, kept, i, faces>>

\* decodeDetections and std::sort.
Decode ==
    /\ step = "decode"
    /\ step' = "suppress" /\ i' = 1
    /\ \E order \in SetToSeqs({a \in Anchors : Confident(a)}) :
           Sorted(order) /\ detections' = order
    /\ UNCHANGED <<raw, removed, kept, faces>>

\* Faulty variant: compares with the next detection only.
LaterNext(k) == {k + 1} \cap DOMAIN detections

Later(k) == {l \in DOMAIN detections : l > k}

Skip ==
    /\ step = "suppress" /\ i \in removed
    /\ i' = i + 1
    /\ UNCHANGED <<step, raw, detections, removed, kept, faces>>

\* A detection that is still there is kept, and removes those after it that
\* overlap it.
Keep ==
    /\ step = "suppress" /\ i \in DOMAIN detections \ removed
    /\ kept' = kept \cup {i}
    /\ removed' = removed \cup {l \in Later(i) : Overlap(BoxAt(i), BoxAt(l))}
    /\ i' = i + 1
    /\ UNCHANGED <<step, raw, detections, faces>>

Return ==
    /\ step = "suppress" /\ i > Len(detections)
    /\ step' = "done" /\ faces' = Cardinality(kept)
    /\ UNCHANGED <<raw, detections, removed, kept, i>>

Next ==
    \/ Load \/ EmptyFrame \/ InferenceFails \/ Invoke
    \/ Decode \/ Skip \/ Keep \/ Return

Spec == Init /\ [][Next]_vars

-----------------------------------------------------------------------------
(***************************************************************************)
(* Properties.                                                             *)
(***************************************************************************)

\* No face is counted twice: no two detections kept overlap.
KeptDoNotOverlap ==
    \A k, l \in kept : k # l => ~Overlap(BoxAt(k), BoxAt(l))

\* No face is lost: a confident detection that is not kept overlaps one that
\* is, with a score at least as high ("If the IoU exceeds the configured
\* threshold 0.3, the detection with the lower confidence score is discarded").
SuppressedByBetter ==
    step = "done" =>
        \A a \in Anchors : raw[a].score >= Threshold =>
            \E k \in kept :
                \/ detections[k] = a
                \/ Overlap(BoxAt(k), raw[a].box) /\ ScoreAt(k) >= raw[a].score
=============================================================================
