------------------------------ MODULE MCVipCapture ------------------------------
(* Instances of VipCapture for TLC. *)
EXTENDS VipCapture
=============================================================================
