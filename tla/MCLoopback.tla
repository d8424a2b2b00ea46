------------------------------ MODULE MCLoopback ------------------------------
(***************************************************************************)
(* Instances of Loopback.                                                  *)
(***************************************************************************)
EXTENDS Loopback

CONSTANTS small, large
=============================================================================
