----------------------------- MODULE MCEc2Cloud -----------------------------
(* Instances of Ec2Cloud for TLC.                                          *)
EXTENDS Ec2Cloud, TLC

(* Runs, ids and addresses are only compared for equality.                 *)
Symmetry ==
  Permutations(Creators) \cup Permutations(Deleters)
    \cup Permutations(HostIds \ Foreign) \cup Permutations(GroupIds)
    \cup Permutations(Addresses)

=============================================================================
