------------------------- MODULE MCSingleCallCloud -------------------------
(* Instances of SingleCallCloud for TLC.                                   *)
EXTENDS SingleCallCloud, TLC

(* Runs, host ids and addresses that are only compared for equality.  The  *)
(* foreign machine is not interchangeable with the others.                 *)
Symmetry ==
  Permutations(Creators) \cup Permutations(Deleters)
    \cup Permutations(HostIds \ Foreign) \cup Permutations(Addresses)

=============================================================================
