------------------------------ MODULE FaceAnchors ------------------------------
(***************************************************************************)
(* generateBlazeFaceAnchors: anchors for the cells of each feature map,    *)
(* consecutive layers of one stride sharing a map.  The network's outputs  *)
(* carry no place of their own, so that a detection is put where the       *)
(* anchor of its number is.                                                *)
(*                                                                         *)
(* An anchor is the size of its map and its cell; its width and height are *)
(* 1, whatever the scales computed on the way, which only count.           *)
(***************************************************************************)
EXTENDS Integers, SequencesExt

\* Faulty variant: takes the next layer on its own.
LastSameStrideLayerOne(strides, layerId) == layerId + 1

\* The first layer after this one with another stride.
LastSameStrideLayer(strides, layerId) ==
    Min({l \in layerId .. (Len(strides) + 1) :
            l = Len(strides) + 1 \/ strides[l] # strides[layerId]})

MapSize(inputSize, stride) == (inputSize + stride - 1) \div stride

\* One scale of each layer, and one between it and the next.
AnchorsPerLayer == 2

Anchor(size, cell) == [map |-> size, y |-> cell \div size, x |-> cell % size]

MapAnchors(size, perCell) ==
    [k \in 1 .. (size * size * perCell) |-> Anchor(size, (k - 1) \div perCell)]

GenerateAnchors(inputSize, strides) ==
    LET From[layerId \in 1 .. (Len(strides) + 1)] ==
            IF layerId > Len(strides) THEN <<>>
            ELSE LET last == LastSameStrideLayer(strides, layerId)
                 IN  MapAnchors(MapSize(inputSize, strides[layerId]),
                                AnchorsPerLayer * (last - layerId))
                         \o From[last]
    IN  From[1]

-----------------------------------------------------------------------------
(***************************************************************************)
(* What the numbering has to be.                                           *)
(***************************************************************************)

\* The layers whose map has so many rows: the last of them begins inside the
\* image, and ends at its edge or beyond.
LayersOf(inputSize, strides, size) ==
    {l \in DOMAIN strides : (size - 1) * strides[l] < inputSize
                                /\ size * strides[l] >= inputSize}

CellsCovered(inputSize, strides) ==
    LET anchors == GenerateAnchors(inputSize, strides)
        Count(a) == Cardinality({k \in DOMAIN anchors : anchors[k] = a})
    IN  \A size \in 1 .. inputSize : \A x, y \in 0 .. (size - 1) :
            Count([map |-> size, y |-> y, x |-> x])
                = 2 * Cardinality(LayersOf(inputSize, strides, size))

InOnePass(inputSize, strides) ==
    LET anchors == GenerateAnchors(inputSize, strides)
        Strides(size) == {strides[l] : l \in LayersOf(inputSize, strides, size)}
    IN  \A k \in 2 .. Len(anchors) :
            LET before == anchors[k - 1]
                now == anchors[k]
            IN  before.map = now.map /\ Cardinality(Strides(now.map)) = 1 =>
                    now.y * now.map + now.x \in
                        {before.y * now.map + before.x + d : d \in {0, 1}}
=============================================================================
