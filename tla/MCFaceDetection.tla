---------------------------- MODULE MCFaceDetection ----------------------------
(***************************************************************************)
(* Instances of FaceDetection, and its anchors for more networks than one, *)
(* looked at once, when the model is loaded.                               *)
(***************************************************************************)
EXTENDS FaceDetection

Box(x1, y1, x2, y2) == [xmin |-> x1, ymin |-> y1, xmax |-> x2, ymax |-> y2]

\* Neighbours that overlap by a third, two that just miss it or have nothing
\* in common, one around the others, an empty one and an inverted one.
ChainOfBoxes ==
    {Box(0, 0, 2, 1), Box(1, 0, 3, 1), Box(2, 0, 4, 1), Box(0, 0, 4, 1),
     Box(0, 0, 2, 2), Box(1, 0, 3, 2), Box(1, 0, 1, 1), Box(3, 0, 1, 1)}

BlazeFace == <<8, 16, 16, 16>>

\* An image of 5 by 5, which strides of 2 and 3 do not divide.
SmallSize == 5
FourLayers == [1 .. 4 -> {1, 2, 3}]

\* Every layer has two anchors in every cell that it sees, also in one that
\* the image only partly fills ("16x16 -> 2 anchors per cell, 8x8 -> 6 anchors
\* per cell"); the anchors of a group of layers come cell by cell, row by row,
\* as the network numbers its outputs: no layer of the group begins a second
\* pass.
AnchorsMatchOutputs ==
    step = "load" =>
        /\ \A strides \in FourLayers :
               CellsCovered(SmallSize, strides) /\ InOnePass(SmallSize, strides)
        /\ InOnePass(InputSize, LayerStrides)
=============================================================================
