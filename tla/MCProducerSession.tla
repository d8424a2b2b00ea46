--------------------------- MODULE MCProducerSession ---------------------------
(***************************************************************************)
(* Instances of ProducerSession for TLC.                                   *)
(***************************************************************************)
EXTENDS ProducerSession

CONSTANTS small, large
=============================================================================
