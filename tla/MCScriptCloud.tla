--------------------------- MODULE MCScriptCloud ---------------------------
(* Instances of ScriptCloud for TLC.                                       *)
EXTENDS ScriptCloud, TLC

(* Runs, ids, names and addresses are only compared for equality.          *)
Symmetry ==
  Permutations(Creators) \cup Permutations(Deleters)
    \cup Permutations(HostIds \ Foreign) \cup Permutations(Names)
    \cup Permutations(Addresses) \cup Permutations(ScriptIds \ OtherScripts)

=============================================================================
