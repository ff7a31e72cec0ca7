-------------------------- MODULE MCScalewayCloud --------------------------
(* Instances of ScalewayCloud for TLC.                                     *)
EXTENDS ScalewayCloud, TLC

(* Runs, ids, volumes and addresses are only compared for equality.        *)
Symmetry ==
  Permutations(Creators) \cup Permutations(Deleters) \cup Permutations(Disks)
    \cup Permutations(HostIds \ Foreign) \cup Permutations(Addresses)

=============================================================================
