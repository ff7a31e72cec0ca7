----------------------------- MODULE AzureCloud -----------------------------
(***************************************************************************)
(* create and delete against Azure (azure.go).                             *)
(*                                                                         *)
(* Provision makes the resource group of a name and begins a deployment in *)
(* it, of one virtual machine and its network; it waits for neither.  The  *)
(* id of a host is the group and the deployment.  Status looks at the      *)
(* deployment, and Delete begins the end of the group, with all there is   *)
(* in it.  Users that choose one name share the group, the machine, its    *)
(* address and its rules, but not the deployment: that one is known by the *)
(* run that began it.                                                      *)
(***************************************************************************)
EXTENDS Cli

CONSTANTS
  Names,   \* the values of --name
  NameOf,  \* the name of the host of each create
  KindOf,  \* the kind of tunnel of each create
  Nobody   \* no run

Kinds == {"tcp", "https"}

ASSUME AzureAssumption ==
  /\ HostIds = Creators
  /\ NameOf \in [Creators -> Names]
  /\ KindOf \in [Creators -> Kinds]
  /\ Nobody \notin Creators

VARIABLES
  at,          \* the next request of each create in Provision
  victim,      \* the --id of each delete, NoHost before it has one
  group,       \* the state of the resource group of each name
  machine,     \* the run whose deployment made the machine of each name
  address,     \* the public address in each group
  open,        \* the ports the security group of each name lets in
  deployment,  \* the state of the deployment of each create
  publicIP     \* the output of the deployment of each create

groupVars == <<machine, address, open>>
azureVars == <<at, victim, group, groupVars, deployment, publicIP>>
vars == <<cliVars, azureVars>>

(* The port of the tunnel server, and one a user of a TCP tunnel forwards. *)
ControlPort == 8123
UserPort == 2222
AllPorts == {80, 443, 8080, ControlPort, UserPort}

(* getSecurityRuleList                                                     *)
Rules(c) == IF KindOf[c] = "tcp" THEN AllPorts ELSE {443, 80, 8080}

DeploymentStates ==
  {"none", "begun", "network", "Succeeded", "Failed", "gone"}

TypeOK ==
  /\ CliTypeOK
  /\ at \in [Creators -> {"group", "deployment"}]
  /\ victim \in [Deleters -> HostIds \cup {NoHost}]
  /\ group \in [Names -> {"absent", "present", "deleting"}]
  /\ machine \in [Names -> Creators \cup {Nobody}]
  /\ address \in [Names -> Addresses \cup {NoAddr}]
  /\ open \in [Names -> SUBSET AllPorts]
  /\ deployment \in [Creators -> DeploymentStates]
  /\ publicIP \in [Creators -> Addresses \cup {NoAddr}]

Init ==
  /\ CliInit
  /\ at = [c \in Creators |-> "group"]
  /\ victim = [d \in Deleters |-> NoHost]
  /\ group = [n \in Names |-> "absent"]
  /\ machine = [n \in Names |-> Nobody]
  /\ address = [n \in Names |-> NoAddr]
  /\ open = [n \in Names |-> {}]
  /\ deployment = [c \in Creators |-> "none"]
  /\ publicIP = [c \in Creators |-> NoAddr]

----------------------------------------------------------------------------
(* The cloud works on a deployment in the order of its "dependsOn", and    *)
(* may fail at any point of it.                                            *)

DeployNetwork(c) ==
  LET n == NameOf[c] IN
  /\ deployment[c] = "begun"
  /\ deployment' = [deployment EXCEPT ![c] = "network"]
  /\ open' = [open EXCEPT ![n] = Rules(c)]
  /\ \/ address[n] # NoAddr /\ UNCHANGED address
     \/ /\ address[n] = NoAddr
        /\ \E a \in Addresses :
             /\ \A m \in Names : address[m] # a
             /\ address' = [address EXCEPT ![n] = a]
  /\ UNCHANGED <<cliVars, at, victim, group, machine, publicIP>>

(* The machine boots with the user-data of its deployment, which cannot be *)
(* changed later: where there is a machine, another deployment of it fails.*)
DeployMachine(c) ==
  LET n == NameOf[c] IN
  /\ deployment[c] = "network"
  /\ machine[n] = Nobody
  /\ machine' = [machine EXCEPT ![n] = c]
  /\ deployment' = [deployment EXCEPT ![c] = "Succeeded"]
  /\ publicIP' = [publicIP EXCEPT ![c] = address[n]]
  /\ UNCHANGED <<cliVars, at, victim, group, address, open>>

DeploymentFails(c) ==
  /\ deployment[c] \in {"begun", "network"}
  /\ deployment' = [deployment EXCEPT ![c] = "Failed"]
  /\ UNCHANGED <<cliVars, at, victim, group, groupVars, publicIP>>

(* The group is gone, with the machine, the network and the deployments.   *)
GroupGone(n) ==
  /\ group[n] = "deleting"
  /\ group' = [group EXCEPT ![n] = "absent"]
  /\ machine' = [machine EXCEPT ![n] = Nobody]
  /\ address' = [address EXCEPT ![n] = NoAddr]
  /\ open' = [open EXCEPT ![n] = {}]
  /\ deployment' = [c \in Creators |->
       IF NameOf[c] = n /\ deployment[c] # "none" THEN "gone" ELSE deployment[c]]
  /\ UNCHANGED <<cliVars, at, victim, publicIP>>

----------------------------------------------------------------------------
(* create                                                                  *)

(* A group that is there is taken as it is; not so one on its way out.     *)
CreateGroup(c) ==
  /\ pc[c] = "provision"
  /\ at[c] = "group"
  /\ group[NameOf[c]] # "deleting"
  /\ group' = [group EXCEPT ![NameOf[c]] = "present"]
  /\ \/ at' = [at EXCEPT ![c] = "deployment"] /\ UNCHANGED cliVars
     \/ ProvisionFails(c) /\ UNCHANGED at
  /\ UNCHANGED <<victim, groupVars, deployment, publicIP>>

(* createDeployment takes effect; its answer may be lost.                  *)
CreateDeployment(c) ==
  /\ at[c] = "deployment"
  /\ group[NameOf[c]] = "present"
  /\ deployment' = [deployment EXCEPT ![c] = "begun"]
  /\ ProvisionReturns(c, c) \/ ProvisionFails(c)
  /\ UNCHANGED <<at, victim, group, groupVars, publicIP>>

(* A request is refused; a group made before that stays.                   *)
ProvisionRefused(c) ==
  /\ ProvisionFails(c)
  /\ UNCHANGED azureVars

(* Mutant: the deployment is looked up by the group alone.                 *)
StatusOfGroup(c) ==
  /\ \E b \in Creators :
       /\ NameOf[b] = NameOf[c]
       /\ deployment[b] = "Succeeded"
       /\ StatusReturns(c, [status |-> ActiveStatus, ip |-> publicIP[b]])
  /\ UNCHANGED azureVars

Status(c) ==
  LET state == deployment[hostID[c]] IN
  /\ pc[c] = "status"
  /\ state # "gone"
  /\ StatusReturns(c,
       CASE state = "Succeeded" ->
              [status |-> ActiveStatus, ip |-> publicIP[hostID[c]]]
         [] state = "Failed" -> [status |-> "off", ip |-> NoAddr]
         [] OTHER -> [status |-> "creating", ip |-> NoAddr])
  /\ UNCHANGED azureVars

CreateStep(c) ==
  \/ /\ \/ AcceptCreate(c) \/ RejectArgs(c) \/ PrintHost(c) \/ HandleStatus(c)
        \/ StatusFails(c)
     /\ UNCHANGED azureVars
  \/ CreateGroup(c) \/ CreateDeployment(c) \/ ProvisionRefused(c) \/ Status(c)

----------------------------------------------------------------------------
(* delete                                                                  *)

(* The user gives the id of a host there is or was, or an IP.              *)
StartDelete(d) ==
  /\ AcceptDelete(d)
  /\ \/ UNCHANGED victim
     \/ \E c \in Creators :
          /\ deployment[c] # "none"
          /\ victim' = [victim EXCEPT ![d] = c]
  /\ UNCHANGED <<at, group, groupVars, deployment, publicIP>>

(* Mutant: the error of the request is dropped.                            *)
BeginDeleteUnchecked(d) ==
  LET n == NameOf[victim[d]] IN
  /\ victim[d] # NoHost
  /\ group' \in {group, [group EXCEPT ![n] = "deleting"]}
  /\ DeleteReturns(d)
  /\ UNCHANGED <<at, victim, groupVars, deployment, publicIP>>

(* The end of the group begins; nobody waits for it.                       *)
BeginDelete(d) ==
  LET n == NameOf[victim[d]] IN
  /\ victim[d] # NoHost
  /\ group[n] # "absent"
  /\ group' = [group EXCEPT ![n] = "deleting"]
  /\ DeleteReturns(d) \/ DeleteFails(d)
  /\ UNCHANGED <<at, victim, groupVars, deployment, publicIP>>

(* There is no group, or the request fails.  Delete takes its group from   *)
(* the id alone, so that with an IP it always fails.                       *)
DeleteRefused(d) ==
  /\ DeleteFails(d)
  /\ UNCHANGED azureVars

DeleteStep(d) ==
  \/ RejectArgs(d) /\ UNCHANGED azureVars
  \/ StartDelete(d) \/ BeginDelete(d) \/ DeleteRefused(d)

----------------------------------------------------------------------------

Kill(p) == Interrupt(p) /\ UNCHANGED azureVars

CloudStep ==
  \/ \E c \in Creators :
       DeployNetwork(c) \/ DeployMachine(c) \/ DeploymentFails(c)
  \/ \E n \in Names : GroupGone(n)

Next ==
  \/ \E c \in Creators : CreateStep(c)
  \/ \E d \in Deleters : DeleteStep(d)
  \/ \E p \in Runs : Kill(p)
  \/ CloudStep

Spec == Init /\ [][Next]_vars

----------------------------------------------------------------------------
(* Properties                                                              *)

(* A summary is about the machine of this very run, which has the token    *)
(* the summary prints, and its URL leads there, as long as no delete is    *)
(* aimed at the group: users of one name do not end up with each other's   *)
(* machine, because each asks for its own deployment (azure.go:126-183).   *)
SummaryIsOwnMachine ==
  \A c \in Creators :
    /\ "summary" \in printed[c]
    /\ \A d \in Deleters : victim[d] # NoHost => NameOf[victim[d]] # NameOf[c]
    => machine[NameOf[c]] = c /\ address[NameOf[c]] = reply[c].ip

(* A machine is unknown to its user only when its create ended with an     *)
(* error or was killed, although nothing waits for the deployment that     *)
(* brings the machine about (azure.go:140-149, create.go:339-344).         *)
NoSilentMachine ==
  \A n \in Names : \A c \in Creators :
    machine[n] = c /\ exit[c] = "ok" => "id" \in printed[c] /\ hostID[c] = c

(* After a delete that reports success the deployment of its host is gone  *)
(* or going, and no later create of the same name brings it back, although *)
(* nothing waits for the group to be gone (azure.go:186-197).              *)
DeletedStaysDeleted ==
  \A d \in Deleters : exit[d] = "ok" =>
    \/ deployment[victim[d]] = "gone"
    \/ group[NameOf[victim[d]]] = "deleting"

(* Every announced machine can be reached at the port of its tunnel        *)
(* server: the summary says `--url "wss://%s:%d"` with 8123                *)
(* (create.go:367-392).  It does not hold for HTTPS: getSecurityRuleList   *)
(* opens 443, 80 and 8080 (azure.go:215-229).                              *)
ControlPortOpen ==
  \A c \in Creators :
    "summary" \in printed[c] /\ machine[NameOf[c]] = c =>
      ControlPort \in open[NameOf[c]]

=============================================================================
