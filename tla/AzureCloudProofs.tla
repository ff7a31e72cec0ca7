-------------------------- MODULE AzureCloudProofs --------------------------
(***************************************************************************)
(* Proofs about AzureCloud, for every set of runs and names, every choice  *)
(* of names and kinds and every number of polls.                           *)
(*                                                                         *)
(* Runs of one name meet in the group of the name, and only the deployment *)
(* is a run's own.  The inductive invariant therefore ties what they share *)
(* to the deployments: the machine of a group is the one of its deployment *)
(* that succeeded (MachineInv), the last answer of Status is the state of  *)
(* the run's own deployment or older than a delete (ReplyInv), and nothing *)
(* is removed but by a delete that was aimed at the group (DeleteInv).     *)
(* PortsInv says what the groups of TCP tunnels let in.                    *)
(***************************************************************************)
EXTENDS AzureCloud, CliProofs

(* Somebody aims a delete at the group of the name n.                      *)
Aimed(n) == \E d \in Deleters : victim[d] # NoHost /\ NameOf[victim[d]] = n

(* A run begins one deployment, with the step that ends its Provision, and *)
(* its host is that deployment.                                            *)
CreateInv ==
  \A c \in Creators :
    /\ deployment[c] # "none" => pc[c] \notin {"args", "provision"}
    /\ hostID[c] \in {c, NoHost}
    /\ deployment[c] # "none" => hostID[c] = c \/ exit[c] \in {"error", "killed"}

MachineInv ==
  \A c \in Creators :
    /\ \A n \in Names :
         machine[n] = c <=> NameOf[c] = n /\ deployment[c] = "Succeeded"
    /\ deployment[c] \in {"network", "Succeeded"} => address[NameOf[c]] # NoAddr
    /\ deployment[c] = "Succeeded" => publicIP[c] = address[NameOf[c]]

ReplyInv ==
  \A c \in Creators : reply[c].status = ActiveStatus =>
    \/ deployment[c] = "gone"
    \/ deployment[c] = "Succeeded" /\ reply[c].ip = publicIP[c]

DeleteInv ==
  /\ \A n \in Names : group[n] = "deleting" => Aimed(n)
  /\ \A c \in Creators : deployment[c] = "gone" => Aimed(NameOf[c])
  /\ \A d \in Deleters :
       /\ pc[d] = "args" => victim[d] = NoHost
       /\ victim[d] # NoHost => deployment[victim[d]] # "none"
       /\ exit[d] = "ok" => victim[d] # NoHost
  /\ DeletedStaysDeleted

IInv ==
  /\ TypeOK
  /\ CliInv
  /\ CreateInv
  /\ MachineInv
  /\ ReplyInv
  /\ DeleteInv

(* A step of a run that leaves the deployments and their outcomes alone.   *)
RunsMove ==
  /\ UNCHANGED <<azureVars, hostID, reply>>
  /\ \A p \in Runs : pc[p] # "args" => pc'[p] # "args"
  /\ \A c \in Creators : pc[c] \notin {"args", "provision"} =>
       pc'[c] # "provision"
  /\ \A p \in Runs : exit[p] # "running" => exit'[p] = exit[p]
  /\ \A d \in Deleters : exit'[d] = "ok" => exit[d] = "ok"

----------------------------------------------------------------------------
(* The initial states                                                      *)

LEMMA InitIInv == Init => IInv
<1>. SUFFICES ASSUME Init PROVE IInv
  OBVIOUS
<1>1. CliInv
  BY CliInvInit DEF Init
<1>2. TypeOK
  BY <1>1, AzureAssumption DEF Init, TypeOK, CliInv, DeploymentStates
<1>3. CreateInv
  BY DEF Init, CliInit, CreateInv
<1>4. MachineInv
  BY AzureAssumption DEF Init, MachineInv
<1>5. ReplyInv
  BY DEF Init, CliInit, ReplyInv, NoReply, ActiveStatus
<1>6. DeleteInv
  BY DEF Init, CliInit, DeleteInv, DeletedStaysDeleted, Runs
<1>7. QED
  BY <1>1, <1>2, <1>3, <1>4, <1>5, <1>6 DEF IInv

----------------------------------------------------------------------------
(* Steps of a run that leave the deployments alone                         *)

LEMMA RunsMoveStep ==
  ASSUME IInv, CliInv', RunsMove
  PROVE  IInv'
<1>1. TypeOK'
  BY DEF IInv, TypeOK, CliInv, RunsMove, azureVars, groupVars
<1>2. CreateInv'
  BY DEF IInv, CreateInv, RunsMove, azureVars, Runs
<1>3. MachineInv'
  BY DEF IInv, MachineInv, RunsMove, azureVars, groupVars
<1>4. ReplyInv'
  BY DEF IInv, ReplyInv, RunsMove, azureVars
<1>5. DeleteInv'
  BY DEF IInv, DeleteInv, DeletedStaysDeleted, Aimed, RunsMove, azureVars,
     Runs
<1>6. QED
  BY <1>1, <1>2, <1>3, <1>4, <1>5 DEF IInv

LEMMA AcceptCreateStep ==
  ASSUME IInv, NEW c \in Creators, AcceptCreate(c), UNCHANGED azureVars
  PROVE  IInv'
<1>1. CliInv'
  BY CliAcceptCreate DEF IInv
<1>2. RunsMove
  BY DEF RunsMove, AcceptCreate, Goto
<1>3. QED
  BY <1>1, <1>2, RunsMoveStep

LEMMA RejectArgsStep ==
  ASSUME IInv, NEW p \in Runs, RejectArgs(p), UNCHANGED azureVars
  PROVE  IInv'
<1>1. CliInv'
  BY CliRejectArgs DEF IInv
<1>2. RunsMove
  BY DEF RunsMove, RejectArgs, Exit, Goto, IInv, CliInv, ExitIsFinal
<1>3. QED
  BY <1>1, <1>2, RunsMoveStep

LEMMA PrintHostStep ==
  ASSUME IInv, NEW c \in Creators, PrintHost(c), UNCHANGED azureVars
  PROVE  IInv'
<1>1. CliInv'
  BY CliPrintHost DEF IInv
<1>2. RunsMove
  BY DEF RunsMove, PrintHost, Goto
<1>3. QED
  BY <1>1, <1>2, RunsMoveStep

LEMMA HandleStatusStep ==
  ASSUME IInv, NEW c \in Creators, HandleStatus(c), UNCHANGED azureVars
  PROVE  IInv'
<1>1. CliInv'
  BY CliHandleStatus DEF IInv
<1>2. RunsMove
  BY CliAssumption DEF RunsMove, HandleStatus, PrintSummary, NextRound, Exit,
     Goto, IInv, CliInv, CliTypeOK, ExitIsFinal, Runs
<1>3. QED
  BY <1>1, <1>2, RunsMoveStep

LEMMA StatusFailsStep ==
  ASSUME IInv, NEW c \in Creators, StatusFails(c), UNCHANGED azureVars
  PROVE  IInv'
<1>1. CliInv'
  BY CliStatusFails DEF IInv
<1>2. RunsMove
  BY DEF RunsMove, StatusFails, Exit, Goto, IInv, CliInv, ExitIsFinal
<1>3. QED
  BY <1>1, <1>2, RunsMoveStep

LEMMA ProvisionRefusedStep ==
  ASSUME IInv, NEW c \in Creators, ProvisionRefused(c)
  PROVE  IInv'
<1>1. CliInv'
  BY CliProvisionFails DEF IInv, ProvisionRefused
<1>2. RunsMove
  BY CliAssumption DEF RunsMove, ProvisionRefused, ProvisionFails, Exit, Goto,
     IInv, CliInv, ExitIsFinal
<1>3. QED
  BY <1>1, <1>2, RunsMoveStep

LEMMA DeleteRefusedStep ==
  ASSUME IInv, NEW d \in Deleters, DeleteRefused(d)
  PROVE  IInv'
<1>1. CliInv'
  BY CliDeleteFails DEF IInv, DeleteRefused
<1>2. RunsMove
  BY CliAssumption DEF RunsMove, DeleteRefused, DeleteFails, Exit, Goto, IInv,
     CliInv, ExitIsFinal
<1>3. QED
  BY <1>1, <1>2, RunsMoveStep

LEMMA KillStep ==
  ASSUME IInv, NEW p \in Runs, Kill(p)
  PROVE  IInv'
<1>1. CliInv'
  BY CliInterrupt DEF IInv, Kill
<1>2. RunsMove
  BY DEF RunsMove, Kill, Interrupt, Exit, Goto, IInv, CliInv, ExitIsFinal
<1>3. QED
  BY <1>1, <1>2, RunsMoveStep

----------------------------------------------------------------------------
(* Requests and the cloud                                                  *)

LEMMA CreateGroupStep ==
  ASSUME IInv, NEW c \in Creators, CreateGroup(c)
  PROVE  IInv'
<1>1. CliInv'
  BY CliUnchanged, CliProvisionFails DEF IInv, CreateGroup
<1>2. TypeOK'
  BY <1>1, CliAssumption, AzureAssumption DEF IInv, TypeOK, CliInv, groupVars,
     CreateGroup
<1>3. CreateInv'
  BY CliAssumption, AzureAssumption DEF CreateInv, IInv, CliInv, CliTypeOK,
     Runs, cliVars, CreateGroup, ProvisionFails, Exit, Goto
<1>4. MachineInv'
  BY CliAssumption, AzureAssumption DEF MachineInv, IInv, groupVars,
     CreateGroup
<1>5. ReplyInv'
  BY CliAssumption, AzureAssumption DEF ReplyInv, IInv, cliVars, CreateGroup,
     ProvisionFails
<1>6. DeleteInv'
  BY CliAssumption, AzureAssumption DEF DeleteInv, DeletedStaysDeleted, Aimed,
     IInv, CliInv, CliTypeOK, Runs, cliVars, CreateGroup, ProvisionFails,
     Exit, Goto
<1>7. QED
  BY <1>1, <1>2, <1>3, <1>4, <1>5, <1>6 DEF IInv

LEMMA CreateDeploymentStep ==
  ASSUME IInv, NEW c \in Creators, CreateDeployment(c)
  PROVE  IInv'
<1>1. CliInv'
  BY CliProvisionReturns, CliProvisionFails, AzureAssumption DEF IInv,
     CreateDeployment
<1>2. TypeOK'
  BY <1>1, CliAssumption, AzureAssumption DEF IInv, TypeOK, CliInv,
     DeploymentStates, groupVars, CreateDeployment
<1>3. CreateInv'
  BY CliAssumption, AzureAssumption DEF CreateInv, IInv, CliInv, CliTypeOK,
     Runs, CreateDeployment, ProvisionReturns, ProvisionFails, Exit, Goto
<1>4. MachineInv'
  BY CliAssumption, AzureAssumption DEF MachineInv, CreateInv, IInv,
     groupVars, CreateDeployment, ProvisionReturns, ProvisionFails
<1>5. ReplyInv'
  BY CliAssumption, AzureAssumption DEF ReplyInv, CreateInv, IInv,
     CreateDeployment, ProvisionReturns, ProvisionFails
<1>6. DeleteInv'
  BY CliAssumption, AzureAssumption DEF DeleteInv, DeletedStaysDeleted, Aimed,
     CreateInv, IInv, CliInv, CliTypeOK, Runs, CreateDeployment,
     ProvisionReturns, ProvisionFails, Exit, Goto
<1>7. QED
  BY <1>1, <1>2, <1>3, <1>4, <1>5, <1>6 DEF IInv

LEMMA StatusStep ==
  ASSUME IInv, NEW c \in Creators, Status(c)
  PROVE  IInv'
<1>1. hostID[c] = c /\ deployment[c] # "gone" /\ pc[c] = "status"
  BY DEF IInv, CreateInv, CliInv, IdSinceProvision, Status
<1>2. PICK r \in Replies :
        /\ StatusReturns(c, r)
        /\ r.status = ActiveStatus =>
             deployment[c] = "Succeeded" /\ r.ip = publicIP[c]
  BY <1>1 DEF Status, Replies, Statuses, ActiveStatus, IInv, TypeOK
<1>3. CliInv'
  BY <1>2, CliStatusReturns DEF IInv
<1>4. TypeOK'
  BY <1>3 DEF IInv, TypeOK, CliInv, Status, azureVars, groupVars
<1>5. CreateInv'
  BY <1>2 DEF IInv, CreateInv, Status, StatusReturns, Goto, azureVars
<1>6. MachineInv'
  BY DEF IInv, MachineInv, Status, azureVars, groupVars
<1>7. ReplyInv'
  BY <1>2 DEF IInv, ReplyInv, Status, StatusReturns, azureVars
<1>8. DeleteInv'
  BY <1>2, CliAssumption DEF IInv, DeleteInv, DeletedStaysDeleted, Aimed,
     Status, StatusReturns, Goto, azureVars
<1>9. QED
  BY <1>3, <1>4, <1>5, <1>6, <1>7, <1>8 DEF IInv

LEMMA StartDeleteStep ==
  ASSUME IInv, NEW d \in Deleters, StartDelete(d)
  PROVE  IInv'
<1>1. CliInv'
  BY CliAcceptDelete DEF IInv, StartDelete
<1>2. TypeOK'
  BY <1>1, CliAssumption, AzureAssumption DEF IInv, TypeOK, CliInv, groupVars,
     StartDelete
<1>3. CreateInv'
  BY CliAssumption, AzureAssumption DEF CreateInv, IInv, StartDelete,
     AcceptDelete, Goto
<1>4. MachineInv'
  BY CliAssumption, AzureAssumption DEF MachineInv, IInv, groupVars,
     StartDelete
<1>5. ReplyInv'
  BY CliAssumption, AzureAssumption DEF ReplyInv, IInv, StartDelete,
     AcceptDelete
<1>6. DeleteInv'
  BY CliAssumption, AzureAssumption DEF DeleteInv, DeletedStaysDeleted, Aimed,
     IInv, TypeOK, CliTypeOK, Runs, StartDelete, AcceptDelete, Goto
<1>7. QED
  BY <1>1, <1>2, <1>3, <1>4, <1>5, <1>6 DEF IInv

LEMMA BeginDeleteStep ==
  ASSUME IInv, NEW d \in Deleters, BeginDelete(d)
  PROVE  IInv'
<1>1. CliInv'
  BY CliDeleteReturns, CliDeleteFails DEF IInv, BeginDelete
<1>2. TypeOK'
  BY <1>1, CliAssumption, AzureAssumption DEF IInv, TypeOK, CliInv, groupVars,
     BeginDelete
<1>3. CreateInv'
  BY CliAssumption, AzureAssumption DEF CreateInv, IInv, CliInv, CliTypeOK,
     Runs, BeginDelete, DeleteReturns, DeleteFails, Exit, Goto
<1>4. MachineInv'
  BY CliAssumption, AzureAssumption DEF MachineInv, IInv, groupVars,
     BeginDelete
<1>5. ReplyInv'
  BY CliAssumption, AzureAssumption DEF ReplyInv, IInv, BeginDelete,
     DeleteReturns, DeleteFails
<1>6. DeleteInv'
  BY CliAssumption, AzureAssumption DEF DeleteInv, DeletedStaysDeleted, Aimed,
     IInv, TypeOK, CliTypeOK, Runs, BeginDelete, DeleteReturns, DeleteFails,
     Exit, Goto
<1>7. QED
  BY <1>1, <1>2, <1>3, <1>4, <1>5, <1>6 DEF IInv

LEMMA DeployNetworkStep ==
  ASSUME IInv, NEW c \in Creators, DeployNetwork(c)
  PROVE  IInv'
<1>1. CliInv'
  BY CliUnchanged DEF IInv, DeployNetwork, cliVars
<1>2. TypeOK'
  <2>1. NameOf[c] \in Names
    BY AzureAssumption
  <2>2. address' \in [Names -> Addresses \cup {NoAddr}]
    BY <2>1 DEF IInv, TypeOK, DeployNetwork
  <2>3. Rules(c) \subseteq AllPorts
    BY DEF Rules, AllPorts
  <2>4. open' \in [Names -> SUBSET AllPorts]
    BY <2>1, <2>3 DEF IInv, TypeOK, DeployNetwork
  <2>5. deployment' \in [Creators -> DeploymentStates]
    BY DEF IInv, TypeOK, DeploymentStates, DeployNetwork
  <2>6. QED
    BY <1>1, <2>2, <2>4, <2>5 DEF IInv, TypeOK, CliInv, DeployNetwork
<1>3. CreateInv'
  BY CliAssumption, AzureAssumption DEF CreateInv, IInv, cliVars,
     DeployNetwork
<1>4. MachineInv'
  <2>1. NameOf[c] \in Names
    BY AzureAssumption
  <2>2. \A m \in Names : address[m] # NoAddr => address'[m] = address[m]
    BY DEF IInv, TypeOK, DeployNetwork
  <2>3. address'[NameOf[c]] # NoAddr
    BY <2>1, CliAssumption DEF IInv, TypeOK, DeployNetwork
  <2>4. \A b \in Creators :
          /\ deployment'[b] = "Succeeded" <=> deployment[b] = "Succeeded"
          /\ b # c => deployment'[b] = deployment[b]
    BY DEF IInv, TypeOK, DeployNetwork
  <2>5. UNCHANGED <<machine, publicIP>>
    BY DEF DeployNetwork
  <2>6. QED
    BY <2>2, <2>3, <2>4, <2>5, AzureAssumption DEF IInv, MachineInv
<1>5. ReplyInv'
  BY CliAssumption, AzureAssumption DEF ReplyInv, IInv, cliVars, DeployNetwork
<1>6. DeleteInv'
  BY CliAssumption, AzureAssumption DEF DeleteInv, DeletedStaysDeleted, Aimed,
     IInv, cliVars, DeployNetwork
<1>7. QED
  BY <1>1, <1>2, <1>3, <1>4, <1>5, <1>6 DEF IInv

LEMMA DeployMachineStep ==
  ASSUME IInv, NEW c \in Creators, DeployMachine(c)
  PROVE  IInv'
<1>1. CliInv'
  BY CliUnchanged DEF IInv, DeployMachine, cliVars
<1>2. TypeOK'
  <2>1. NameOf[c] \in Names
    BY AzureAssumption
  <2>2. publicIP' \in [Creators -> Addresses \cup {NoAddr}]
    BY <2>1 DEF IInv, TypeOK, DeployMachine
  <2>3. machine' \in [Names -> Creators \cup {Nobody}]
    BY DEF IInv, TypeOK, DeployMachine
  <2>4. deployment' \in [Creators -> DeploymentStates]
    BY DEF IInv, TypeOK, DeploymentStates, DeployMachine
  <2>5. QED
    BY <1>1, <2>2, <2>3, <2>4 DEF IInv, TypeOK, CliInv, DeployMachine
<1>3. CreateInv'
  BY CliAssumption, AzureAssumption DEF CreateInv, IInv, cliVars,
     DeployMachine
<1>4. MachineInv'
  BY CliAssumption, AzureAssumption DEF MachineInv, IInv, TypeOK,
     DeployMachine
<1>5. ReplyInv'
  BY CliAssumption, AzureAssumption DEF ReplyInv, IInv, cliVars, DeployMachine
<1>6. DeleteInv'
  BY CliAssumption, AzureAssumption DEF DeleteInv, DeletedStaysDeleted, Aimed,
     IInv, cliVars, DeployMachine
<1>7. QED
  BY <1>1, <1>2, <1>3, <1>4, <1>5, <1>6 DEF IInv

LEMMA DeploymentFailsStep ==
  ASSUME IInv, NEW c \in Creators, DeploymentFails(c)
  PROVE  IInv'
<1>1. CliInv'
  BY CliUnchanged DEF IInv, DeploymentFails, cliVars
<1>2. TypeOK'
  BY <1>1, CliAssumption, AzureAssumption DEF IInv, TypeOK, CliInv,
     DeploymentStates, groupVars, DeploymentFails
<1>3. CreateInv'
  BY CliAssumption, AzureAssumption DEF CreateInv, IInv, cliVars,
     DeploymentFails
<1>4. MachineInv'
  BY CliAssumption, AzureAssumption DEF MachineInv, IInv, groupVars,
     DeploymentFails
<1>5. ReplyInv'
  BY CliAssumption, AzureAssumption DEF ReplyInv, IInv, cliVars,
     DeploymentFails
<1>6. DeleteInv'
  BY CliAssumption, AzureAssumption DEF DeleteInv, DeletedStaysDeleted, Aimed,
     IInv, cliVars, DeploymentFails
<1>7. QED
  BY <1>1, <1>2, <1>3, <1>4, <1>5, <1>6 DEF IInv

LEMMA GroupGoneStep ==
  ASSUME IInv, NEW n \in Names, GroupGone(n)
  PROVE  IInv'
<1>1. CliInv'
  BY CliUnchanged DEF IInv, GroupGone, cliVars
<1>2. TypeOK'
  BY <1>1, CliAssumption, AzureAssumption DEF IInv, TypeOK, CliInv,
     DeploymentStates, GroupGone
<1>3. CreateInv'
  BY CliAssumption, AzureAssumption DEF CreateInv, IInv, cliVars, GroupGone
<1>4. MachineInv'
  BY CliAssumption, AzureAssumption DEF MachineInv, IInv, TypeOK, GroupGone
<1>5. ReplyInv'
  BY CliAssumption, AzureAssumption DEF ReplyInv, IInv, cliVars, GroupGone
<1>6. DeleteInv'
  BY CliAssumption, AzureAssumption DEF DeleteInv, DeletedStaysDeleted, Aimed,
     IInv, TypeOK, cliVars, GroupGone
<1>7. QED
  BY <1>1, <1>2, <1>3, <1>4, <1>5, <1>6 DEF IInv

----------------------------------------------------------------------------
(* Theorems                                                                *)

LEMMA NextIInv == IInv /\ [Next]_vars => IInv'
<1>. SUFFICES ASSUME IInv, [Next]_vars PROVE IInv'
  OBVIOUS
<1>1. CASE UNCHANGED vars
  <2>1. CliInv'
    BY <1>1, CliUnchanged DEF IInv, vars
  <2>2. RunsMove
    BY <1>1 DEF RunsMove, vars, cliVars
  <2>3. QED
    BY <2>1, <2>2, RunsMoveStep
<1>2. ASSUME NEW c \in Creators, CreateStep(c) PROVE IInv'
  BY <1>2, AcceptCreateStep, RejectArgsStep, PrintHostStep, HandleStatusStep,
     StatusFailsStep, CreateGroupStep, CreateDeploymentStep,
     ProvisionRefusedStep, StatusStep DEF CreateStep, Runs
<1>3. ASSUME NEW d \in Deleters, DeleteStep(d) PROVE IInv'
  BY <1>3, RejectArgsStep, StartDeleteStep, BeginDeleteStep,
     DeleteRefusedStep DEF DeleteStep, Runs
<1>4. ASSUME NEW p \in Runs, Kill(p) PROVE IInv'
  BY <1>4, KillStep
<1>5. ASSUME CloudStep PROVE IInv'
  BY <1>5, DeployNetworkStep, DeployMachineStep, DeploymentFailsStep,
     GroupGoneStep DEF CloudStep
<1>6. QED
  BY <1>1, <1>2, <1>3, <1>4, <1>5 DEF Next

LEMMA Invariance == Spec => []IInv
BY InitIInv, NextIInv, PTL DEF Spec

(* Every variable keeps its type, and the loop of create its bound         *)
(* (create.go:347).                                                        *)
THEOREM TypeCorrect == Spec => []TypeOK
<1>1. IInv => TypeOK
  BY DEF IInv
<1>2. QED
  BY <1>1, Invariance, PTL

(* However many runs share a name, a summary leads to the machine that     *)
(* its own run deployed, until a delete is aimed at the group              *)
(* (azure.go:126-183).                                                     *)
THEOREM SummaryIsOwnMachineAlways == Spec => []SummaryIsOwnMachine
<1>1. IInv => SummaryIsOwnMachine
  <2>. SUFFICES ASSUME IInv, NEW c \in Creators, "summary" \in printed[c],
                       ~Aimed(NameOf[c])
                PROVE  machine[NameOf[c]] = c
                         /\ address[NameOf[c]] = reply[c].ip
    BY DEF SummaryIsOwnMachine, Aimed
  <2>1. NameOf[c] \in Names
    BY AzureAssumption
  <2>2. deployment[c] = "Succeeded" /\ reply[c].ip = publicIP[c]
    BY DEF IInv, CliInv, SummaryIsLast, ReplyInv, DeleteInv
  <2>3. QED
    BY <2>1, <2>2 DEF IInv, MachineInv
<1>2. QED
  BY <1>1, Invariance, PTL

(* Whenever the cloud gets to a deployment, the run it belongs to has told *)
(* its user the id, or has not ended well (azure.go:140-149).              *)
THEOREM NoSilentMachineAlways == Spec => []NoSilentMachine
<1>1. IInv => NoSilentMachine
  <2>. SUFFICES ASSUME IInv, NEW n \in Names, NEW c \in Creators,
                       machine[n] = c, exit[c] = "ok"
                PROVE  "id" \in printed[c] /\ hostID[c] = c
    BY DEF NoSilentMachine
  <2>1. deployment[c] # "none"
    BY DEF IInv, MachineInv
  <2>2. QED
    BY <2>1 DEF IInv, CreateInv, CliInv, IdSinceProvision
<1>2. QED
  BY <1>1, Invariance, PTL

(* Nothing brings a deleted deployment back, in whatever order the group's *)
(* end, later creates of its name and further deletes come                 *)
(* (azure.go:186-197).                                                     *)
THEOREM DeletedStaysDeletedAlways == Spec => []DeletedStaysDeleted
<1>1. IInv => DeletedStaysDeleted
  BY DEF IInv, DeleteInv
<1>2. QED
  BY <1>1, Invariance, PTL

----------------------------------------------------------------------------
(* What is left of ControlPortOpen, which an HTTPS tunnel refutes: between *)
(* tunnels of TCP every deployment of a network opens the control port,    *)
(* and the port stays open as long as the network is there.                *)

PortsInv ==
  \A c \in Creators : deployment[c] \in {"network", "Succeeded"} =>
    ControlPort \in open[NameOf[c]]

LEMMA PortsNext ==
  ASSUME \A c \in Creators : KindOf[c] = "tcp"
  PROVE  IInv /\ PortsInv /\ [Next]_vars => PortsInv'
<1>. SUFFICES ASSUME IInv, PortsInv, [Next]_vars PROVE PortsInv'
  OBVIOUS
<1>. /\ open \in [Names -> SUBSET AllPorts]
     /\ deployment \in [Creators -> DeploymentStates]
     /\ \A c \in Creators : NameOf[c] \in Names
  BY AzureAssumption DEF IInv, TypeOK
<1>1. ASSUME NEW c \in Creators, DeployNetwork(c) PROVE PortsInv'
  <2>1. ControlPort \in Rules(c)
    BY DEF Rules, AllPorts
  <2>2. /\ open' = [open EXCEPT ![NameOf[c]] = Rules(c)]
        /\ deployment' = [deployment EXCEPT ![c] = "network"]
    BY <1>1 DEF DeployNetwork
  <2>3. QED
    BY <2>1, <2>2 DEF PortsInv
<1>2. ASSUME NEW c \in Creators, DeployMachine(c) \/ DeploymentFails(c)
      PROVE  PortsInv'
  BY <1>2 DEF DeployMachine, DeploymentFails, groupVars, PortsInv
<1>3. ASSUME NEW n \in Names, GroupGone(n) PROVE PortsInv'
  BY <1>3 DEF GroupGone, PortsInv
<1>4. ASSUME NEW c \in Creators, CreateStep(c) PROVE PortsInv'
  <2>1. /\ UNCHANGED open
        /\ deployment' \in {deployment, [deployment EXCEPT ![c] = "begun"]}
    BY <1>4 DEF CreateStep, CreateGroup, CreateDeployment, ProvisionRefused,
       Status, azureVars, groupVars
  <2>2. QED
    BY <2>1 DEF PortsInv
<1>5. ASSUME NEW d \in Deleters, DeleteStep(d) PROVE PortsInv'
  BY <1>5 DEF DeleteStep, StartDelete, BeginDelete, DeleteRefused, azureVars,
     groupVars, PortsInv
<1>6. ASSUME NEW p \in Runs, Kill(p) PROVE PortsInv'
  BY <1>6 DEF Kill, azureVars, groupVars, PortsInv
<1>7. CASE UNCHANGED vars
  BY <1>7 DEF vars, azureVars, groupVars, PortsInv
<1>8. QED
  BY <1>1, <1>2, <1>3, <1>4, <1>5, <1>6, <1>7 DEF Next, CloudStep

(* Between tunnels of TCP the summary is about a machine whose control     *)
(* port is open, whichever of the runs of its name deployed the network    *)
(* last (azure.go:215-229, create.go:577).                                  *)
THEOREM ControlPortOpenForTcp ==
  ASSUME \A c \in Creators : KindOf[c] = "tcp"
  PROVE  Spec => []ControlPortOpen
<1>1. Init => PortsInv
  BY DEF Init, PortsInv
<1>2. IInv /\ PortsInv => ControlPortOpen
  BY AzureAssumption DEF IInv, MachineInv, PortsInv, ControlPortOpen
<1>3. QED
  BY <1>1, <1>2, InitIInv, NextIInv, PortsNext, PTL DEF Spec

=============================================================================
