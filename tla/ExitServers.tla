---------------------------- MODULE ExitServers ----------------------------
(***************************************************************************)
(* What inletsctl promises about exit-servers, whatever the provider.      *)
(*                                                                         *)
(* A server is launched at most once, may come up and go down on its own,  *)
(* and disappears only after somebody asked for it to be deleted           *)
(* ("inletsctl does not automatically delete your exit nodes", README.md). *)
(* The connection summary of a server is handed out only once the server   *)
(* has been up.                                                            *)
(***************************************************************************)
CONSTANT Servers

VARIABLES
  life,       \* the state of each server in the account
  wasUp,      \* the servers that have been active at some time
  condemned,  \* the servers a delete has been aimed at
  announced   \* the servers whose connection summary has been handed out

serverVars == <<life, wasUp, condemned, announced>>

Init ==
  /\ life \in [Servers -> {"none", "up"}]
  /\ wasUp = {s \in Servers : life[s] = "up"}
  /\ condemned = {}
  /\ announced = {}

Launch(s) ==
  /\ life[s] = "none"
  /\ life' = [life EXCEPT ![s] = "down"]
  /\ UNCHANGED <<wasUp, condemned, announced>>

ComeUp(s) ==
  /\ life[s] = "down"
  /\ life' = [life EXCEPT ![s] = "up"]
  /\ wasUp' = wasUp \cup {s}
  /\ UNCHANGED <<condemned, announced>>

GoDown(s) ==
  /\ life[s] = "up"
  /\ life' = [life EXCEPT ![s] = "down"]
  /\ UNCHANGED <<wasUp, condemned, announced>>

(* The server may be down or gone again by the time its summary is out.    *)
Announce(s) ==
  /\ s \in wasUp
  /\ announced' = announced \cup {s}
  /\ UNCHANGED <<life, wasUp, condemned>>

Condemn(s) ==
  /\ condemned' = condemned \cup {s}
  /\ UNCHANGED <<life, wasUp, announced>>

Remove(s) ==
  /\ s \in condemned
  /\ life[s] \in {"up", "down"}
  /\ life' = [life EXCEPT ![s] = "gone"]
  /\ UNCHANGED <<wasUp, condemned, announced>>

Next ==
  \E s \in Servers :
    \/ Launch(s) \/ ComeUp(s) \/ GoDown(s)
    \/ Announce(s) \/ Condemn(s) \/ Remove(s)

Spec == Init /\ [][Next]_serverVars

=============================================================================
