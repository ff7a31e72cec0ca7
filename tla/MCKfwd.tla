------------------------------- MODULE MCKfwd -------------------------------
(* Instances of Kfwd for TLC.                                              *)
EXTENDS Kfwd

CONSTANTS u1, u2

(* Deployments for a service in two namespaces, and for another service:   *)
(* two runs may name the same, two that share a file, or two that do not.  *)
ClientNames == {<<u1, "ns1">>, <<u1, "ns2">>, <<u2, "ns1">>}
ServiceOf == [t \in ClientNames |-> t[1]]

=============================================================================
