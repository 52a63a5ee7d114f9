----------------------------- MODULE MCVpuDriver -----------------------------
(* Instances of VpuDriver for TLC.  Files only differ in name. *)
EXTENDS VpuDriver, TLC

FileSymmetry == Permutations(Files)
=============================================================================
