------------------------------- MODULE MCNxQueue -------------------------------
(* Instances of NxQueue for TLC. *)
EXTENDS NxQueue
=============================================================================
