----------------------------- MODULE InstancePool -----------------------------
(***************************************************************************)
(* What the VPU driver promises its clients about codec instances: a file   *)
(* leases at most one instance, an instance is leased to at most one file,  *)
(* and no more than MaxDec decoders and MaxEnc encoders are leased at once. *)
(* VpuDriver implements this specification (VpuDriver!Pool).                *)
(***************************************************************************)
EXTENDS Integers, FiniteSets

CONSTANTS Files, MaxInstance, MaxEnc, MaxDec

NoLease == <<>>
PoolKinds == {"dec", "enc", "jpg"}
Leases == (0 .. MaxInstance - 1) \X PoolKinds

VARIABLE lease            \* what each file holds: NoLease or <<instance, kind>>

PoolTypeOK == lease \in [Files -> Leases \cup {NoLease}]

Leased == {f \in Files : lease[f] # NoLease}
Decoders == {f \in Leased : lease[f][2] = "dec"}
Encoders == {f \in Leased : lease[f][2] # "dec"}

PoolInit == lease = [f \in Files |-> NoLease]

\* A file takes an instance nobody holds, within the quota of its kind.
Acquire(f) ==
  /\ lease[f] = NoLease
  /\ \E s \in 0 .. MaxInstance - 1, k \in PoolKinds :
       /\ \A g \in Leased : lease[g][1] # s
       /\ IF k = "dec" THEN Cardinality(Decoders) < MaxDec
                       ELSE Cardinality(Encoders) < MaxEnc
       /\ lease' = [lease EXCEPT ![f] = <<s, k>>]

\* A file gives its instance back; only the file itself can.
Release(f) ==
  /\ lease[f] # NoLease
  /\ lease' = [lease EXCEPT ![f] = NoLease]

PoolNext == \E f \in Files : Acquire(f) \/ Release(f)

PoolSpec == PoolInit /\ [][PoolNext]_lease
=============================================================================
