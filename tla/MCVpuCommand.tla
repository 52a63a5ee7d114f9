----------------------------- MODULE MCVpuCommand -----------------------------
(* Instances of VpuCommand for TLC. *)
EXTENDS VpuCommand
=============================================================================
