---------------------------- MODULE MCAzureCloud ----------------------------
(* Instances of AzureCloud for TLC.                                        *)
EXTENDS AzureCloud

CONSTANTS c1, c2, tunnel

(* A create of each kind, both of one name.                                *)
OneName == [c \in {c1, c2} |-> tunnel]
TcpAndHttps == [c \in {c1, c2} |-> IF c = c1 THEN "tcp" ELSE "https"]

(* One create alone.                                                       *)
JustOne == [c \in {c1} |-> tunnel]
JustHttps == [c \in {c1} |-> "https"]

=============================================================================
