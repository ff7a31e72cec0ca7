----------------------------- MODULE MCDownload -----------------------------
(* Instances of Download for TLC.                                          *)
EXTENDS Download, TLC

CONSTANTS r1, r2, r3, v1, v2, temp, bin

(* A long release and a short one.                                         *)
Sizes == (v1 :> 3) @@ (v2 :> 1)

(* r1 and r2 download to one directory, r3 to the temporary one.           *)
Destinations == [r \in Downloads |-> IF r = r3 THEN temp ELSE bin]

Symmetry == Permutations(Files)

=============================================================================
