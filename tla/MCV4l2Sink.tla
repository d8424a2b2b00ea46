------------------------------ MODULE MCV4l2Sink ------------------------------
(***************************************************************************)
(* Instances of V4l2Sink for TLC.                                          *)
(***************************************************************************)
EXTENDS V4l2Sink, TLC

CONSTANTS p1, p2, l1, l2, l3, fA, fB, fBad

\* fBad is a format whose layout imageSizeBytes rejects.
MCMinSize == [f \in Formats |-> IF f = fBad THEN 0 ELSE 2]

Symmetry == Permutations(Pools) \cup Permutations(Leases)
=============================================================================
