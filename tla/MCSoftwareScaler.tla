--------------------------- MODULE MCSoftwareScaler ---------------------------
(***************************************************************************)
(* Instances of SoftwareScaler.                                            *)
(***************************************************************************)
EXTENDS SoftwareScaler

\* Every rectangle at most one pixel beyond the frame, and none at all.
CropsAround ==
    [x : -1 .. (Width - 1), y : -1 .. (Height - 1), w : 1 .. Width, h : 1 .. Height]
        \cup {Unset.crop, [x |-> 1, y |-> 1, w |-> 0, h |-> 1]}
=============================================================================
