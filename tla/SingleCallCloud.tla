-------------------------- MODULE SingleCallCloud --------------------------
(***************************************************************************)
(* create and delete against a provider whose Provision makes one resource *)
(* with one request and whose Delete removes it with one request, after a  *)
(* list when only an IP was given: DigitalOcean, Hetzner and OVH.  The     *)
(* definitions follow digitalocean.go.                                     *)
(***************************************************************************)
EXTENDS CloudAccount

vars == <<cliVars, cloudVars, target, victim>>

TypeOK == CliTypeOK /\ AccountTypeOK

Init == CliInit /\ AccountInit

----------------------------------------------------------------------------
(* create                                                                  *)

(* The request to make the host takes effect; its answer may be lost, and  *)
(* then the run never learns the id.                                       *)
Provision(c) ==
  /\ \E h \in HostIds :
       /\ Make(c, h)
       /\ ProvisionReturns(c, h) \/ ProvisionFails(c)
  /\ UNCHANGED <<target, victim>>

ProvisionRefused(c) ==
  /\ ProvisionFails(c)
  /\ UNCHANGED <<cloudVars, target, victim>>

(* The host is gone, or the request failed.                                *)
StatusRefused(c) ==
  /\ StatusFails(c)
  /\ UNCHANGED <<cloudVars, target, victim>>

CreateStep(c) ==
  \/ /\ AcceptCreate(c) \/ RejectArgs(c) \/ PrintHost(c) \/ HandleStatus(c)
     /\ UNCHANGED <<cloudVars, target, victim>>
  \/ Provision(c) \/ ProvisionRefused(c)
  \/ Status(c) \/ StatusRefused(c)

----------------------------------------------------------------------------
(* delete                                                                  *)

(* The request to remove the host takes effect; its answer may be lost.    *)
Remove(d) ==
  /\ victim[d] # NoHost
  /\ Erase(victim[d])
  /\ DeleteReturns(d) \/ DeleteFails(d)
  /\ UNCHANGED <<target, victim>>

(* No host has the IP, the host is gone, or a request failed.              *)
DeleteRefused(d) ==
  /\ DeleteFails(d)
  /\ UNCHANGED <<cloudVars, target, victim>>

DeleteStep(d) ==
  \/ RejectArgs(d) /\ UNCHANGED <<cloudVars, target, victim>>
  \/ StartDelete(d) \/ Lookup(d) \/ Remove(d) \/ DeleteRefused(d)

----------------------------------------------------------------------------

Kill(p) ==
  /\ Interrupt(p)
  /\ UNCHANGED <<cloudVars, target, victim>>

Next ==
  \/ \E c \in Creators : CreateStep(c)
  \/ \E d \in Deleters : DeleteStep(d)
  \/ \E p \in Runs : Kill(p)
  \/ \E h \in HostIds : Boot(h) \/ Stop(h)

(* A run is a process the operating system schedules, and the HTTP clients *)
(* of the providers answer every request, with an error if need be.        *)
(* Nothing obliges the cloud to boot a host or a user to kill a run.       *)
Fairness ==
  /\ \A c \in Creators : WF_vars(CreateStep(c))
  /\ \A d \in Deleters : WF_vars(DeleteStep(d))

SafeSpec == Init /\ [][Next]_vars
Spec == SafeSpec /\ Fairness

----------------------------------------------------------------------------
(* Properties                                                              *)

(* Every run ends, whatever the host and the other runs do: the polls are  *)
(* bounded and a host that is gone is an error (create.go:346-412).        *)
EveryRunEnds == \A p \in Runs : <>(pc[p] = "exited")

(* Hosts are launched once, never come back, disappear only after a delete *)
(* was aimed at them, and are announced only after they were up            *)
(* (README.md:67, create.go:358, delete.go:163).                           *)
KeepsThePromise == Promise!Spec

=============================================================================
