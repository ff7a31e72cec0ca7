--------------------------- MODULE ScalewayCloud ---------------------------
(***************************************************************************)
(* create and delete against Scaleway (scaleway.go).                       *)
(*                                                                         *)
(* Provision makes a server that is off, gives it its user-data and powers *)
(* it on.  Delete asks for the volumes of the server, powers it off and    *)
(* waits, deletes it, and then its volumes one by one: the volumes outlive *)
(* the server and cost money by themselves.  A server has a public address *)
(* only while it is on.                                                    *)
(***************************************************************************)
EXTENDS CloudAccount

CONSTANTS Disks  \* the volumes of a server, which its image and plan decide

VARIABLES
  at,       \* the next request of each run in Provision or Delete
  made,     \* server.ID of each create, NoHost before it has an answer
  volumes,  \* the volumes each delete has still to remove
  volume,   \* the volumes there are, each with the server it was made for
  ready     \* the servers that have been given their user-data

scalewayVars == <<at, made, volumes, volume, ready>>
vars == <<cliVars, accountVars, scalewayVars>>

CreateRequests == {"server", "userdata", "poweron"}
DeleteRequests == {"get", "poweroff", "remove", "volumes"}

TypeOK ==
  /\ CliTypeOK
  /\ AccountTypeOK
  /\ at \in [Runs -> CreateRequests \cup DeleteRequests]
  /\ made \in [Creators -> HostIds \cup {NoHost}]
  /\ volumes \in [Deleters -> SUBSET (HostIds \X Disks)]
  /\ volume \subseteq HostIds \X Disks
  /\ ready \subseteq HostIds

First(p) == IF p \in Creators THEN "server" ELSE "get"

Init ==
  /\ CliInit
  /\ AccountInit
  /\ at = [p \in Runs |-> First(p)]
  /\ made = [c \in Creators |-> NoHost]
  /\ volumes = [d \in Deleters |-> {}]
  /\ volume = Foreign \X Disks
  /\ ready = Foreign

Asks(p, label, request) == pc[p] = label /\ at[p] = request
GoesOn(p, request) == at' = [at EXCEPT ![p] = request]

----------------------------------------------------------------------------
(* The cloud                                                               *)

(* A server comes up once somebody has powered it on.                      *)
CloudStep(h) ==
  /\ \/ Boot(h) /\ (host[h] = "creating" \/ h \in wasUp)
     \/ StopAndRelease(h)
  /\ UNCHANGED scalewayVars

----------------------------------------------------------------------------
(* create                                                                  *)

CreateServer(c) ==
  /\ Asks(c, "provision", "server")
  /\ \E h \in HostIds :
       /\ host[h] = "absent"
       /\ host' = [host EXCEPT ![h] = "off"]
       /\ owner' = [owner EXCEPT ![h] = c]
       /\ volume' = volume \cup ({h} \X Disks)
       /\ \/ /\ made' = [made EXCEPT ![c] = h]
             /\ GoesOn(c, "userdata")
             /\ UNCHANGED cliVars
          \/ /\ ProvisionFails(c)
             /\ UNCHANGED <<at, made>>
  /\ UNCHANGED <<addr, wasUp, target, victim, volumes, ready>>

SetUserData(c) ==
  /\ Asks(c, "provision", "userdata")
  /\ Present(made[c])
  /\ ready' = ready \cup {made[c]}
  /\ \/ GoesOn(c, "poweron") /\ UNCHANGED cliVars
     \/ ProvisionFails(c) /\ UNCHANGED at
  /\ UNCHANGED <<accountVars, made, volumes, volume>>

(* Mutant: the server is powered on before it has its user-data.           *)
PowerOnFirst(c) ==
  /\ pc[c] = "provision"
  /\ at[c] \in {"userdata", "poweron"}
  /\ host[made[c]] = "off"
  /\ host' = [host EXCEPT ![made[c]] = "creating"]
  /\ ProvisionReturns(c, made[c]) \/ ProvisionFails(c)
  /\ UNCHANGED <<addr, owner, wasUp, target, victim, scalewayVars>>

PowerOn(c) ==
  /\ Asks(c, "provision", "poweron")
  /\ host[made[c]] = "off"
  /\ host' = [host EXCEPT ![made[c]] = "creating"]
  /\ ProvisionReturns(c, made[c]) \/ ProvisionFails(c)
  /\ UNCHANGED <<addr, owner, wasUp, target, victim, scalewayVars>>

(* A request is refused.  The server made before that stays, off.          *)
ProvisionRefused(c) ==
  /\ ProvisionFails(c)
  /\ UNCHANGED <<accountVars, scalewayVars>>

CreateStep(c) ==
  \/ /\ \/ AcceptCreate(c) \/ RejectArgs(c) \/ PrintHost(c) \/ HandleStatus(c)
        \/ StatusFails(c)
     /\ UNCHANGED <<accountVars, scalewayVars>>
  \/ CreateServer(c) \/ SetUserData(c) \/ PowerOn(c) \/ ProvisionRefused(c)
  \/ Status(c) /\ UNCHANGED scalewayVars

----------------------------------------------------------------------------
(* delete                                                                  *)

(* List reads the address of every server with the tag, and does not       *)
(* survive one that has none (DeleteRefused).                              *)
LookupServer(d) ==
  /\ \A h \in Listed : addr[h] # NoAddr
  /\ Lookup(d)
  /\ UNCHANGED scalewayVars

GetServer(d) ==
  /\ Asks(d, "delete", "get")
  /\ victim[d] # NoHost
  /\ Present(victim[d])
  /\ volumes' = [volumes EXCEPT ![d] = {v \in volume : v[1] = victim[d]}]
  /\ GoesOn(d, "poweroff")
  /\ UNCHANGED <<cliVars, accountVars, made, volume, ready>>

(* ServerActionAndWait takes effect: the server is off, or still about to  *)
(* be, when the wait gives up.                                             *)
PowerOff(d) ==
  LET h == victim[d] IN
  /\ Asks(d, "delete", "poweroff")
  /\ Present(h)
  /\ host' = [host EXCEPT ![h] = "off"]
  /\ addr' = [addr EXCEPT ![h] = NoAddr]
  /\ \/ GoesOn(d, "remove") /\ UNCHANGED cliVars
     \/ DeleteFails(d) /\ UNCHANGED at
  /\ UNCHANGED <<owner, wasUp, target, victim, made, volumes, volume, ready>>

(* Only a server that is off can be deleted.                               *)
DeleteServer(d) ==
  /\ Asks(d, "delete", "remove")
  /\ host[victim[d]] = "off"
  /\ Erase(victim[d])
  /\ \/ GoesOn(d, "volumes") /\ UNCHANGED cliVars
     \/ DeleteFails(d) /\ UNCHANGED at
  /\ UNCHANGED <<target, victim, made, volumes, volume, ready>>

(* Mutant: a volume that cannot be deleted is passed over.                 *)
DeleteVolumeUnchecked(d) ==
  /\ Asks(d, "delete", "volumes")
  /\ \E v \in volumes[d] :
       /\ volumes' = [volumes EXCEPT ![d] = @ \ {v}]
       /\ volume' \in {volume, volume \ {v}}
  /\ UNCHANGED <<cliVars, accountVars, at, made, ready>>

(* One round of the loop; only a volume without a server can be deleted.   *)
DeleteVolume(d) ==
  /\ Asks(d, "delete", "volumes")
  /\ \E v \in volumes[d] \cap volume :
       /\ ~Present(v[1])
       /\ volume' = volume \ {v}
       /\ volumes' = [volumes EXCEPT ![d] = @ \ {v}]
  /\ UNCHANGED cliVars \/ DeleteFails(d)
  /\ UNCHANGED <<accountVars, at, made, ready>>

DeleteDone(d) ==
  /\ Asks(d, "delete", "volumes")
  /\ volumes[d] = {}
  /\ DeleteReturns(d)
  /\ UNCHANGED <<accountVars, scalewayVars>>

(* No server has the IP, a server with the tag has none, a request is      *)
(* refused, or the wait is over after five minutes.                        *)
DeleteRefused(d) ==
  /\ at[d] = "volumes" => volumes[d] # {}
  /\ DeleteFails(d)
  /\ UNCHANGED <<accountVars, scalewayVars>>

DeleteStep(d) ==
  \/ /\ StartDelete(d) \/ (RejectArgs(d) /\ UNCHANGED accountVars)
     /\ UNCHANGED scalewayVars
  \/ LookupServer(d) \/ GetServer(d) \/ PowerOff(d) \/ DeleteServer(d)
  \/ DeleteVolume(d) \/ DeleteDone(d) \/ DeleteRefused(d)

----------------------------------------------------------------------------

Kill(p) ==
  /\ Interrupt(p)
  /\ UNCHANGED <<accountVars, scalewayVars>>

Next ==
  \/ \E c \in Creators : CreateStep(c)
  \/ \E d \in Deleters : DeleteStep(d)
  \/ \E p \in Runs : Kill(p)
  \/ \E h \in HostIds : CloudStep(h)

Spec == Init /\ [][Next]_vars

----------------------------------------------------------------------------
(* Properties                                                              *)

(* A volume without its server is left behind only by a delete that said   *)
(* so or was killed: some delete of that server still has the volume ahead *)
(* of it, or did not end well.  Deletes that ended with status 0 leave     *)
(* none, in whatever order they overtook each other (scaleway.go:108-151). *)
NoSilentVolume ==
  \A v \in volume :
    \/ Present(v[1])
    \/ \E d \in Deleters :
         victim[d] = v[1] /\ v \in volumes[d] /\ exit[d] # "ok"

(* A server runs only with its user-data, and with it the tunnel server:   *)
(* one left over by a failed Provision stays off (scaleway.go:56-87).      *)
UpWithUserData ==
  \A h \in HostIds : Present(h) /\ h \notin ready => host[h] = "off"

(* The whole keeps the promise of the simpler providers: a server goes     *)
(* only when a delete is aimed at it, and only servers that were up are    *)
(* announced (README.md:67, scaleway.go:92-153).                           *)
KeepsThePromise == Promise!Spec

=============================================================================
