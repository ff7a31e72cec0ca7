----------------------------- MODULE MCGceCloud -----------------------------
(* Instances of GceCloud for TLC.                                          *)
EXTENDS GceCloud

CONSTANTS c1, c2, tunnel, earlier, a1

(* Two creates are given the same name.                                    *)
OneName == [c \in {c1, c2} |-> tunnel]

OneBefore == [h \in {earlier} |-> a1]

(* One of the tunnels is for TCP, the other for HTTPS.                     *)
BothKinds == [c \in {c1, c2} |-> IF c = c1 THEN "tcp" ELSE "https"]

=============================================================================
