------------------------ MODULE ScalewayCloudProofs ------------------------
(***************************************************************************)
(* Proofs about ScalewayCloud, for every set of runs, servers, volumes and *)
(* addresses and every number of polls.                                    *)
(*                                                                         *)
(* To what CliProofs says of every run, the inductive invariant adds which *)
(* requests lie behind a run (CreateInv), that a delete has noted every    *)
(* volume of the server it is about to remove (DeleteInv), and that a      *)
(* server which was up, or is about to be powered on, has its user-data    *)
(* (ReadyInv).  RunsInv, proved on top of it, follows each run to the one  *)
(* server it makes or removes.                                             *)
(***************************************************************************)
EXTENDS ScalewayCloud, CloudAccountProofs

(* A create holds the id of its server once the request for it came back,  *)
(* and a server whose run does not know it is of a run that ended badly.   *)
CreateInv ==
  \A c \in Creators :
    /\ at[c] # "server" => made[c] # NoHost
    /\ pc[c] = "args" => at[c] = "server"
    /\ \A h \in HostIds : owner[h] = c =>
         \/ pc[c] = "provision" /\ at[c] # "server" /\ made[c] = h
         \/ hostID[c] = h
         \/ exit[c] \in {"error", "killed"}

(* A delete is aimed at a server that was made, as soon as it asks for it. *)
AimedAtServer ==
  \A d \in Deleters :
    /\ victim[d] # NoHost => host[victim[d]] # "absent"
    /\ at[d] # "get" => victim[d] # NoHost
    /\ pc[d] = "args" => at[d] = "get"

(* The volumes a delete has noted are its victim's, and while the victim   *)
(* is there they are all of them.                                          *)
VolumesNoted ==
  \A d \in Deleters :
    /\ \A v \in volumes[d] : at[d] # "get" /\ v[1] = victim[d]
    /\ at[d] # "get" /\ Present(victim[d]) =>
         \A v \in volume : v[1] = victim[d] => v \in volumes[d]

(* A delete that ended well has removed all it had noted.                  *)
NothingLeftBehind ==
  \A d \in Deleters : exit[d] = "ok" => volumes[d] = {}

DeleteInv == AimedAtServer /\ VolumesNoted /\ NothingLeftBehind

(* A server that has been powered on has its user-data.                    *)
ReadyInv ==
  /\ wasUp \subseteq ready
  /\ \A c \in Creators : at[c] = "poweron" => made[c] \in ready
  /\ UpWithUserData

IInv ==
  /\ TypeOK
  /\ CliInv
  /\ CreateInv
  /\ DeleteInv
  /\ NoSilentVolume
  /\ ReadyInv

(* A step of a run that leaves the account alone: a run never returns to   *)
(* its flags, an exit status stays, Provision is left before it returned   *)
(* an id only with an error, and Delete ends well only when it is through. *)
RunsMove ==
  /\ UNCHANGED <<accountVars, scalewayVars, hostID>>
  /\ \A p \in Runs : pc[p] # "args" => pc'[p] # "args"
  /\ \A p \in Runs : exit[p] # "running" => exit'[p] = exit[p]
  /\ \A c \in Creators : pc[c] = "provision" =>
       pc'[c] = "provision" \/ exit'[c] \in {"error", "killed"}
  /\ \A d \in Deleters : exit'[d] = "ok" /\ exit[d] = "running" =>
       volumes[d] = {}

----------------------------------------------------------------------------
(* The initial states                                                      *)

LEMMA InitIInv == Init => IInv
<1>. SUFFICES ASSUME Init PROVE IInv
  OBVIOUS
<1>1. CliInv
  BY CliInvInit DEF Init
<1>2. TypeOK
  BY <1>1, CliAssumption, CloudAssumption DEF Init, AccountInit, TypeOK,
     CliInv, AccountTypeOK, HostStates, Statuses, First, CreateRequests,
     DeleteRequests
<1>3. CreateInv
  BY CloudAssumption DEF Init, AccountInit, CreateInv, Runs, First
<1>4. DeleteInv
  BY CliAssumption DEF Init, AccountInit, DeleteInv, AimedAtServer,
     VolumesNoted, NothingLeftBehind, Runs, First
<1>5. NoSilentVolume
  BY CloudAssumption DEF Init, AccountInit, NoSilentVolume, Present, Statuses
<1>6. ReadyInv
  BY CloudAssumption DEF Init, AccountInit, ReadyInv, UpWithUserData, Present,
     Statuses, ActiveStatus, Runs, First
<1>7. QED
  BY <1>1, <1>2, <1>3, <1>4, <1>5, <1>6 DEF IInv

----------------------------------------------------------------------------
(* Steps of a run that leave the account alone                             *)

LEMMA RunsMoveStep ==
  ASSUME IInv, CliInv', RunsMove
  PROVE  IInv'
<1>1. TypeOK'
  BY DEF IInv, TypeOK, CliInv, AccountTypeOK, RunsMove, accountVars,
     cloudVars, scalewayVars
<1>2. CreateInv'
  BY DEF IInv, CreateInv, RunsMove, accountVars, cloudVars, scalewayVars, Runs
<1>3. DeleteInv'
  BY DEF IInv, DeleteInv, AimedAtServer, VolumesNoted, NothingLeftBehind,
     Present, RunsMove, accountVars, cloudVars, scalewayVars, Runs
<1>4. NoSilentVolume'
  BY DEF IInv, NoSilentVolume, Present, RunsMove, accountVars, cloudVars,
     scalewayVars, Runs
<1>5. ReadyInv'
  BY DEF IInv, ReadyInv, UpWithUserData, Present, RunsMove, accountVars,
     cloudVars, scalewayVars
<1>6. QED
  BY <1>1, <1>2, <1>3, <1>4, <1>5 DEF IInv

LEMMA AcceptCreateStep ==
  ASSUME IInv, NEW c \in Creators, AcceptCreate(c),
         UNCHANGED <<accountVars, scalewayVars>>
  PROVE  IInv'
<1>1. CliInv'
  BY CliAcceptCreate DEF IInv
<1>2. RunsMove
  BY DEF RunsMove, AcceptCreate, Goto
<1>3. QED
  BY <1>1, <1>2, RunsMoveStep

LEMMA RejectArgsStep ==
  ASSUME IInv, NEW p \in Runs, RejectArgs(p),
         UNCHANGED <<accountVars, scalewayVars>>
  PROVE  IInv'
<1>1. CliInv'
  BY CliRejectArgs DEF IInv
<1>2. RunsMove
  BY DEF RunsMove, RejectArgs, Exit, Goto, IInv, CliInv, ExitIsFinal
<1>3. QED
  BY <1>1, <1>2, RunsMoveStep

LEMMA PrintHostStep ==
  ASSUME IInv, NEW c \in Creators, PrintHost(c),
         UNCHANGED <<accountVars, scalewayVars>>
  PROVE  IInv'
<1>1. CliInv'
  BY CliPrintHost DEF IInv
<1>2. RunsMove
  BY DEF RunsMove, PrintHost, Goto
<1>3. QED
  BY <1>1, <1>2, RunsMoveStep

LEMMA HandleStatusStep ==
  ASSUME IInv, NEW c \in Creators, HandleStatus(c),
         UNCHANGED <<accountVars, scalewayVars>>
  PROVE  IInv'
<1>1. CliInv'
  BY CliHandleStatus DEF IInv
<1>2. RunsMove
  BY CliAssumption DEF RunsMove, HandleStatus, PrintSummary, NextRound, Exit,
     Goto, IInv, CliInv, CliTypeOK, ExitIsFinal, Runs
<1>3. QED
  BY <1>1, <1>2, RunsMoveStep

LEMMA StatusFailsStep ==
  ASSUME IInv, NEW c \in Creators, StatusFails(c),
         UNCHANGED <<accountVars, scalewayVars>>
  PROVE  IInv'
<1>1. CliInv'
  BY CliStatusFails DEF IInv
<1>2. RunsMove
  BY DEF RunsMove, StatusFails, Exit, Goto, IInv, CliInv, ExitIsFinal
<1>3. QED
  BY <1>1, <1>2, RunsMoveStep

LEMMA StatusStep ==
  ASSUME IInv, NEW c \in Creators, Status(c), UNCHANGED scalewayVars
  PROVE  IInv'
<1>. DEFINE r == [status |-> host[hostID[c]], ip |-> addr[hostID[c]]]
<1>1. StatusReturns(c, r) /\ Present(hostID[c])
  BY DEF Status
<1>2. hostID[c] \in HostIds
  BY <1>1 DEF IInv, CliInv, CliTypeOK, IdSinceProvision, StatusReturns
<1>3. r \in Replies
  BY <1>1, <1>2 DEF Replies, Present, IInv, TypeOK, AccountTypeOK
<1>. HIDE DEF r
<1>4. CliInv'
  BY <1>1, <1>3, CliStatusReturns DEF IInv
<1>5. RunsMove
  BY <1>1 DEF RunsMove, Status, StatusReturns, Goto, accountVars
<1>6. QED
  BY <1>4, <1>5, RunsMoveStep

LEMMA ProvisionRefusedStep ==
  ASSUME IInv, NEW c \in Creators, ProvisionRefused(c)
  PROVE  IInv'
<1>1. CliInv'
  BY CliProvisionFails DEF IInv, ProvisionRefused
<1>2. RunsMove
  BY DEF RunsMove, ProvisionRefused, ProvisionFails, Exit, Goto, IInv, CliInv,
     CliTypeOK, ExitIsFinal
<1>3. QED
  BY <1>1, <1>2, RunsMoveStep

LEMMA DeleteDoneStep ==
  ASSUME IInv, NEW d \in Deleters, DeleteDone(d)
  PROVE  IInv'
<1>1. CliInv'
  BY CliDeleteReturns DEF IInv, DeleteDone
<1>2. RunsMove
  BY CliAssumption DEF RunsMove, DeleteDone, DeleteReturns, Exit, Goto, IInv,
     CliInv, ExitIsFinal
<1>3. QED
  BY <1>1, <1>2, RunsMoveStep

LEMMA DeleteRefusedStep ==
  ASSUME IInv, NEW d \in Deleters, DeleteRefused(d)
  PROVE  IInv'
<1>1. CliInv'
  BY CliDeleteFails DEF IInv, DeleteRefused
<1>2. RunsMove
  BY CliAssumption DEF RunsMove, DeleteRefused, DeleteFails, Exit, Goto, IInv,
     CliInv, ExitIsFinal
<1>3. QED
  BY <1>1, <1>2, RunsMoveStep

LEMMA KillStep ==
  ASSUME IInv, NEW p \in Runs, Kill(p)
  PROVE  IInv'
<1>1. CliInv'
  BY CliInterrupt DEF IInv, Kill
<1>2. RunsMove
  BY DEF RunsMove, Kill, Interrupt, Exit, Goto, IInv, CliInv, CliTypeOK,
     ExitIsFinal
<1>3. QED
  BY <1>1, <1>2, RunsMoveStep

----------------------------------------------------------------------------
(* Requests and the cloud                                                  *)

LEMMA CreateServerStep ==
  ASSUME IInv, NEW c \in Creators, CreateServer(c)
  PROVE  IInv'
<1>1. CliInv'
  BY CliUnchanged, CliProvisionFails DEF IInv, CreateServer
<1>2. AccountTypeOK'
  BY CliAssumption DEF IInv, TypeOK, AccountTypeOK, HostStates, Statuses,
     CreateServer
<1>3. TypeOK'
  BY <1>1, <1>2, CliAssumption DEF IInv, TypeOK, CliInv, CreateRequests,
     CreateServer, GoesOn
<1>4. CreateInv'
  BY CliAssumption DEF CreateInv, IInv, TypeOK, CliTypeOK, Runs, cliVars,
     CreateServer, ProvisionFails, Asks, GoesOn, Exit, Goto
<1>5. DeleteInv'
  BY CliAssumption DEF DeleteInv, AimedAtServer, VolumesNoted,
     NothingLeftBehind, Present, IInv, TypeOK, CliTypeOK, Runs, cliVars,
     CreateServer, ProvisionFails, GoesOn, Exit, Goto
<1>6. NoSilentVolume'
  BY CliAssumption DEF NoSilentVolume, Present, Statuses, IInv, TypeOK,
     AccountTypeOK, CliTypeOK, Runs, cliVars, CreateServer, ProvisionFails,
     Exit
<1>7. ReadyInv'
  BY CliAssumption DEF ReadyInv, UpWithUserData, Present, IInv, TypeOK, Runs,
     CreateServer, GoesOn
<1>8. QED
  BY <1>1, <1>2, <1>3, <1>4, <1>5, <1>6, <1>7 DEF IInv

LEMMA SetUserDataStep ==
  ASSUME IInv, NEW c \in Creators, SetUserData(c)
  PROVE  IInv'
<1>1. CliInv'
  BY CliUnchanged, CliProvisionFails DEF IInv, SetUserData
<1>2. AccountTypeOK'
  BY CliAssumption DEF IInv, TypeOK, AccountTypeOK, accountVars, cloudVars,
     SetUserData
<1>3. TypeOK'
  BY <1>1, <1>2, CliAssumption DEF IInv, TypeOK, CliInv, CreateRequests,
     SetUserData, Asks, GoesOn, CreateInv
<1>4. CreateInv'
  BY CliAssumption DEF CreateInv, IInv, TypeOK, CliTypeOK, Runs, accountVars,
     cloudVars, cliVars, SetUserData, ProvisionFails, Asks, GoesOn, Exit, Goto
<1>5. DeleteInv'
  BY CliAssumption DEF DeleteInv, AimedAtServer, VolumesNoted,
     NothingLeftBehind, Present, IInv, TypeOK, CliTypeOK, Runs, accountVars,
     cloudVars, cliVars, SetUserData, ProvisionFails, GoesOn, Exit, Goto
<1>6. NoSilentVolume'
  BY CliAssumption DEF NoSilentVolume, Present, IInv, CliInv, CliTypeOK, Runs,
     accountVars, cloudVars, cliVars, SetUserData, ProvisionFails, Exit
<1>7. ReadyInv'
  BY CliAssumption DEF ReadyInv, UpWithUserData, Present, IInv, TypeOK, Runs,
     accountVars, cloudVars, SetUserData, GoesOn
<1>8. QED
  BY <1>1, <1>2, <1>3, <1>4, <1>5, <1>6, <1>7 DEF IInv

LEMMA PowerOnStep ==
  ASSUME IInv, NEW c \in Creators, PowerOn(c)
  PROVE  IInv'
<1>1. CliInv'
  BY CliProvisionReturns, CliProvisionFails DEF IInv, PowerOn, TypeOK,
     CreateInv, Asks
<1>2. AccountTypeOK'
  BY CliAssumption DEF IInv, TypeOK, AccountTypeOK, HostStates, Statuses,
     PowerOn
<1>3. TypeOK'
  BY <1>1, <1>2, CliAssumption DEF IInv, TypeOK, CliInv, scalewayVars, PowerOn
<1>4. CreateInv'
  BY CliAssumption DEF CreateInv, IdSinceProvision, IInv, CliInv, CliTypeOK,
     Runs, scalewayVars, PowerOn, ProvisionReturns, ProvisionFails, Exit, Goto
<1>5. DeleteInv'
  BY CliAssumption DEF DeleteInv, AimedAtServer, VolumesNoted,
     NothingLeftBehind, Present, Statuses, IInv, CliInv, CliTypeOK, Runs,
     scalewayVars, PowerOn, ProvisionReturns, ProvisionFails, Exit, Goto
<1>6. NoSilentVolume'
  BY CliAssumption DEF NoSilentVolume, Present, Statuses, IInv, CliInv,
     CliTypeOK, Runs, scalewayVars, PowerOn, ProvisionReturns, ProvisionFails,
     Exit
<1>7. ReadyInv'
  BY CliAssumption DEF ReadyInv, UpWithUserData, Present, IInv, scalewayVars,
     PowerOn, Asks
<1>8. QED
  BY <1>1, <1>2, <1>3, <1>4, <1>5, <1>6, <1>7 DEF IInv

LEMMA StartDeleteStep ==
  ASSUME IInv, NEW d \in Deleters,
         StartDelete(d), UNCHANGED scalewayVars
  PROVE  IInv'
<1>1. CliInv'
  BY CliAcceptDelete DEF IInv, StartDelete
<1>2. AccountTypeOK'
  BY DEF IInv, TypeOK, AccountTypeOK, cloudVars, StartDelete
<1>3. TypeOK'
  BY <1>1, <1>2 DEF IInv, TypeOK, CliInv, scalewayVars
<1>4. CreateInv'
  BY DEF CreateInv, IInv, cloudVars, scalewayVars, StartDelete, AcceptDelete,
     Goto
<1>5. DeleteInv'
  BY DEF DeleteInv, AimedAtServer, VolumesNoted, NothingLeftBehind, Present,
     IInv, TypeOK, AccountTypeOK, cloudVars, scalewayVars, StartDelete,
     AcceptDelete, Goto
<1>6. NoSilentVolume'
  BY DEF NoSilentVolume, DeleteInv, AimedAtServer, VolumesNoted, Present,
     IInv, TypeOK, AccountTypeOK, cloudVars, scalewayVars, StartDelete,
     AcceptDelete
<1>7. ReadyInv'
  BY DEF ReadyInv, UpWithUserData, Present, IInv, cloudVars, scalewayVars,
     StartDelete
<1>8. QED
  BY <1>1, <1>2, <1>3, <1>4, <1>5, <1>6, <1>7 DEF IInv

LEMMA LookupServerStep ==
  ASSUME IInv, NEW d \in Deleters, LookupServer(d)
  PROVE  IInv'
<1>1. CliInv'
  BY CliUnchanged DEF IInv, LookupServer, Lookup
<1>2. AccountTypeOK'
  BY CliAssumption DEF IInv, TypeOK, AccountTypeOK, cloudVars, LookupServer,
     Lookup, Listed
<1>3. TypeOK'
  BY <1>1, <1>2, CliAssumption DEF IInv, TypeOK, CliInv, scalewayVars,
     LookupServer
<1>4. CreateInv'
  BY CliAssumption DEF CreateInv, IInv, cloudVars, scalewayVars, cliVars,
     LookupServer, Lookup
<1>5. DeleteInv'
  BY CliAssumption DEF DeleteInv, AimedAtServer, VolumesNoted,
     NothingLeftBehind, Present, Statuses, ActiveStatus, IInv, cloudVars,
     scalewayVars, cliVars, LookupServer, Lookup, Listed
<1>6. NoSilentVolume'
  BY CliAssumption DEF NoSilentVolume, DeleteInv, AimedAtServer, VolumesNoted,
     Present, IInv, cloudVars, scalewayVars, cliVars, LookupServer, Lookup
<1>7. ReadyInv'
  BY CliAssumption DEF ReadyInv, UpWithUserData, Present, IInv, cloudVars,
     scalewayVars, LookupServer, Lookup
<1>8. QED
  BY <1>1, <1>2, <1>3, <1>4, <1>5, <1>6, <1>7 DEF IInv

LEMMA GetServerStep ==
  ASSUME IInv, NEW d \in Deleters, GetServer(d)
  PROVE  IInv'
<1>1. CliInv'
  BY CliUnchanged DEF IInv, GetServer
<1>2. AccountTypeOK'
  BY CliAssumption DEF IInv, TypeOK, AccountTypeOK, accountVars, cloudVars,
     GetServer
<1>3. TypeOK'
  BY <1>1, <1>2, CliAssumption DEF IInv, TypeOK, CliInv, DeleteRequests,
     GetServer, GoesOn
<1>4. CreateInv'
  BY CliAssumption DEF CreateInv, IInv, accountVars, cloudVars, cliVars,
     GetServer, GoesOn
<1>5. DeleteInv'
  BY CliAssumption DEF DeleteInv, AimedAtServer, VolumesNoted,
     NothingLeftBehind, ExitIsFinal, Present, IInv, TypeOK, CliInv, Runs,
     accountVars, cloudVars, cliVars, GetServer, Asks, GoesOn
<1>6. NoSilentVolume'
  BY CliAssumption DEF NoSilentVolume, Present, IInv, accountVars, cloudVars,
     cliVars, GetServer
<1>7. ReadyInv'
  BY CliAssumption DEF ReadyInv, UpWithUserData, Present, IInv, accountVars,
     cloudVars, GetServer, GoesOn
<1>8. QED
  BY <1>1, <1>2, <1>3, <1>4, <1>5, <1>6, <1>7 DEF IInv

LEMMA PowerOffStep ==
  ASSUME IInv, NEW d \in Deleters, PowerOff(d)
  PROVE  IInv'
<1>1. CliInv'
  BY CliUnchanged, CliDeleteFails DEF IInv, PowerOff
<1>2. AccountTypeOK'
  BY CliAssumption DEF IInv, TypeOK, AccountTypeOK, HostStates, Statuses,
     PowerOff
<1>3. TypeOK'
  BY <1>1, <1>2, CliAssumption DEF IInv, TypeOK, CliInv, DeleteRequests,
     PowerOff, GoesOn
<1>4. CreateInv'
  BY CliAssumption DEF CreateInv, IInv, TypeOK, CliTypeOK, Runs, cliVars,
     PowerOff, DeleteFails, GoesOn, Exit, Goto
<1>5. DeleteInv'
  BY CliAssumption DEF DeleteInv, AimedAtServer, VolumesNoted,
     NothingLeftBehind, Present, IInv, TypeOK, CliTypeOK, Runs, cliVars,
     PowerOff, DeleteFails, Asks, GoesOn, Exit, Goto
<1>6. NoSilentVolume'
  BY CliAssumption DEF NoSilentVolume, Present, Statuses, IInv, CliInv,
     CliTypeOK, Runs, cliVars, PowerOff, DeleteFails, Exit
<1>7. ReadyInv'
  BY CliAssumption DEF ReadyInv, UpWithUserData, Present, IInv, TypeOK, Runs,
     PowerOff, GoesOn
<1>8. QED
  BY <1>1, <1>2, <1>3, <1>4, <1>5, <1>6, <1>7 DEF IInv

LEMMA DeleteServerStep ==
  ASSUME IInv, NEW d \in Deleters, DeleteServer(d)
  PROVE  IInv'
<1>1. CliInv'
  BY CliUnchanged, CliDeleteFails DEF IInv, DeleteServer
<1>2. AccountTypeOK'
  BY CliAssumption DEF IInv, TypeOK, AccountTypeOK, HostStates, DeleteServer,
     Erase
<1>3. TypeOK'
  BY <1>1, <1>2, CliAssumption DEF IInv, TypeOK, CliInv, DeleteRequests,
     DeleteServer, GoesOn
<1>4. CreateInv'
  BY CliAssumption DEF CreateInv, IInv, TypeOK, CliTypeOK, Runs, cliVars,
     DeleteServer, Erase, DeleteFails, GoesOn, Exit, Goto
<1>5. DeleteInv'
  BY CliAssumption DEF DeleteInv, AimedAtServer, VolumesNoted,
     NothingLeftBehind, Present, IInv, TypeOK, CliTypeOK, Runs, cliVars,
     DeleteServer, Erase, DeleteFails, Asks, GoesOn, Exit, Goto
<1>6. NoSilentVolume'
  BY CliAssumption DEF NoSilentVolume, DeleteInv, VolumesNoted, ExitIsFinal,
     Present, IInv, CliInv, CliTypeOK, Runs, cliVars, DeleteServer, Erase,
     DeleteFails, Asks, Exit
<1>7. ReadyInv'
  BY CliAssumption DEF ReadyInv, UpWithUserData, Present, Statuses,
     ActiveStatus, IInv, TypeOK, Runs, DeleteServer, Erase, GoesOn
<1>8. QED
  BY <1>1, <1>2, <1>3, <1>4, <1>5, <1>6, <1>7 DEF IInv

LEMMA DeleteVolumeStep ==
  ASSUME IInv, NEW d \in Deleters, DeleteVolume(d)
  PROVE  IInv'
<1>1. CliInv'
  BY CliUnchanged, CliDeleteFails DEF IInv, DeleteVolume
<1>2. AccountTypeOK'
  BY CliAssumption DEF IInv, TypeOK, AccountTypeOK, accountVars, cloudVars,
     DeleteVolume
<1>3. TypeOK'
  <2>1. PICK v \in volumes[d] \cap volume :
          /\ volume' = volume \ {v}
          /\ volumes' = [volumes EXCEPT ![d] = @ \ {v}]
    BY DEF DeleteVolume
  <2>2. volumes' \in [Deleters -> SUBSET (HostIds \X Disks)]
    BY <2>1 DEF IInv, TypeOK
  <2>3. volume' \subseteq HostIds \X Disks
    BY <2>1 DEF IInv, TypeOK
  <2>4. QED
    BY <1>1, <1>2, <2>2, <2>3 DEF IInv, TypeOK, CliInv, DeleteVolume
<1>4. CreateInv'
  BY CliAssumption DEF CreateInv, IInv, CliInv, CliTypeOK, Runs, accountVars,
     cloudVars, cliVars, DeleteVolume, DeleteFails, Exit, Goto
<1>5. DeleteInv'
  BY CliAssumption DEF DeleteInv, AimedAtServer, VolumesNoted,
     NothingLeftBehind, Present, IInv, TypeOK, CliTypeOK, Runs, accountVars,
     cloudVars, cliVars, DeleteVolume, DeleteFails, Exit, Goto
<1>6. NoSilentVolume'
  BY CliAssumption DEF NoSilentVolume, Present, IInv, CliInv, CliTypeOK, Runs,
     accountVars, cloudVars, cliVars, DeleteVolume, DeleteFails, Exit
<1>7. ReadyInv'
  BY CliAssumption DEF ReadyInv, UpWithUserData, Present, IInv, accountVars,
     cloudVars, DeleteVolume
<1>8. QED
  BY <1>1, <1>2, <1>3, <1>4, <1>5, <1>6, <1>7 DEF IInv

LEMMA CloudStepStep ==
  ASSUME IInv, NEW h \in HostIds, CloudStep(h)
  PROVE  IInv'
<1>1. CliInv'
  BY CliUnchanged DEF IInv, CloudStep, Boot, StopAndRelease, cliVars
<1>2. AccountTypeOK'
  BY DEF IInv, TypeOK, AccountTypeOK, HostStates, Statuses, CloudStep, Boot,
     StopAndRelease
<1>3. TypeOK'
  BY <1>1, <1>2 DEF IInv, TypeOK, CliInv, scalewayVars, CloudStep
<1>4. CreateInv'
  BY DEF CreateInv, IInv, scalewayVars, cliVars, CloudStep, Boot,
     StopAndRelease
<1>5. DeleteInv'
  BY DEF DeleteInv, AimedAtServer, VolumesNoted, NothingLeftBehind, Present,
     ActiveStatus, IInv, TypeOK, AccountTypeOK, scalewayVars, cliVars,
     CloudStep, Boot, StopAndRelease
<1>6. NoSilentVolume'
  BY DEF NoSilentVolume, Present, Statuses, IInv, TypeOK, AccountTypeOK,
     scalewayVars, cliVars, CloudStep, Boot, StopAndRelease
<1>7. ReadyInv'
  BY DEF ReadyInv, UpWithUserData, Present, IInv, TypeOK, AccountTypeOK,
     scalewayVars, CloudStep, Boot, StopAndRelease
<1>8. QED
  BY <1>1, <1>2, <1>3, <1>4, <1>5, <1>6, <1>7 DEF IInv

----------------------------------------------------------------------------
(* Theorems                                                                *)

LEMMA NextIInv == IInv /\ [Next]_vars => IInv'
<1>. SUFFICES ASSUME IInv, [Next]_vars PROVE IInv'
  OBVIOUS
<1>1. CASE UNCHANGED vars
  <2>1. CliInv'
    BY <1>1, CliUnchanged DEF IInv, vars
  <2>2. RunsMove
    BY <1>1 DEF RunsMove, vars, cliVars
  <2>3. QED
    BY <2>1, <2>2, RunsMoveStep
<1>2. ASSUME NEW c \in Creators, CreateStep(c) PROVE IInv'
  BY <1>2, AcceptCreateStep, RejectArgsStep, PrintHostStep, HandleStatusStep,
     StatusFailsStep, CreateServerStep, SetUserDataStep, PowerOnStep,
     ProvisionRefusedStep, StatusStep DEF CreateStep, Runs
<1>3. ASSUME NEW d \in Deleters, DeleteStep(d) PROVE IInv'
  BY <1>3, StartDeleteStep, RejectArgsStep, LookupServerStep, GetServerStep,
     PowerOffStep, DeleteServerStep, DeleteVolumeStep, DeleteDoneStep,
     DeleteRefusedStep DEF DeleteStep, Runs
<1>4. ASSUME NEW p \in Runs, Kill(p) PROVE IInv'
  BY <1>4, KillStep
<1>5. ASSUME NEW h \in HostIds, CloudStep(h) PROVE IInv'
  BY <1>5, CloudStepStep
<1>6. QED
  BY <1>1, <1>2, <1>3, <1>4, <1>5 DEF Next

LEMMA Invariance == Spec => []IInv
BY InitIInv, NextIInv, PTL DEF Spec

(* Every variable keeps its type, and the loop of create its bound         *)
(* (create.go:347).                                                        *)
THEOREM TypeCorrect == Spec => []TypeOK
<1>1. IInv => TypeOK
  BY DEF IInv
<1>2. QED
  BY <1>1, Invariance, PTL

(* However the requests of any number of deletes and creates interleave,   *)
(* fail or are cut off, a volume outlives its server only where a delete   *)
(* of that server failed or has the volume ahead of it                     *)
(* (scaleway.go:108-151).                                                  *)
THEOREM NoSilentVolumeAlways == Spec => []NoSilentVolume
<1>1. IInv => NoSilentVolume
  BY DEF IInv
<1>2. QED
  BY <1>1, Invariance, PTL

(* No server is on that did not get its user-data (scaleway.go:66-87).     *)
THEOREM UpWithUserDataAlways == Spec => []UpWithUserData
<1>1. IInv => UpWithUserData
  BY DEF IInv, ReadyInv
<1>2. QED
  BY <1>1, Invariance, PTL

(* A create that ends with status 0 has told its user the id of the server *)
(* it made, also when the three requests were spread among the steps of    *)
(* others (scaleway.go:45-89, create.go:339-344).                          *)
THEOREM NoSilentOrphanAlways == Spec => []NoSilentOrphan
<1>1. IInv => NoSilentOrphan
  BY CliAssumption DEF IInv, CliInv, IdSinceProvision, CreateInv,
     NoSilentOrphan
<1>2. QED
  BY <1>1, Invariance, PTL

----------------------------------------------------------------------------
(* The promise: every step of the commands and of the cloud is a step of   *)
(* ExitServers or leaves its variables alone.                              *)

LEMMA PromiseStep == IInv /\ PromiseInv /\ [Next]_vars => PromiseInv' /\ Promised
<1>. SUFFICES ASSUME IInv, PromiseInv, [Next]_vars
              PROVE  PromiseInv' /\ Promised
  OBVIOUS
<1>. CliInv /\ AccountTypeOK
  BY DEF IInv, TypeOK
<1>1. ASSUME NEW c \in Creators, CreateStep(c) PROVE PromiseInv' /\ Promised
  <2>1. CASE CreateServer(c)
    <3>1. PICK h \in HostIds :
            host[h] = "absent" /\ host' = [host EXCEPT ![h] = "off"]
      BY <2>1 DEF CreateServer
    <3>2. QED
      BY <2>1, <3>1, LaunchKeeps DEF CreateServer
  <2>2. CASE PowerOn(c)
    <3>1. made[c] \in HostIds
      BY <2>2 DEF IInv, CreateInv, TypeOK, PowerOn, Asks
    <3>2. QED
      BY <2>2, <3>1, ProvisionKeeps DEF PowerOn, Present, Statuses
  <2>3. CASE SetUserData(c) \/ ProvisionRefused(c)
    BY <2>3, QuietCreate DEF SetUserData, ProvisionRefused, accountVars,
       cloudVars
  <2>4. CASE Status(c)
    BY <2>4, StatusKeeps
  <2>5. CASE /\ \/ AcceptCreate(c) \/ RejectArgs(c) \/ PrintHost(c)
                \/ HandleStatus(c) \/ StatusFails(c)
             /\ UNCHANGED <<accountVars, scalewayVars>>
    BY <2>5, QuietCreate, HandleStatusKeeps DEF accountVars, cloudVars
  <2>6. QED
    BY <1>1, <2>1, <2>2, <2>3, <2>4, <2>5 DEF CreateStep
<1>2. ASSUME NEW d \in Deleters, DeleteStep(d) PROVE PromiseInv' /\ Promised
  <2>1. at[d] # "get" => victim[d] \in HostIds
    BY DEF IInv, DeleteInv, AimedAtServer, AccountTypeOK
  <2>2. CASE StartDelete(d) \/ LookupServer(d)
    BY <2>2, AimKeeps DEF LookupServer
  <2>3. CASE PowerOff(d)
    BY <2>1, <2>3, PowerOffKeeps DEF PowerOff, Asks
  <2>4. CASE DeleteServer(d)
    BY <2>1, <2>4, EraseKeeps DEF DeleteServer, Asks
  <2>5. CASE \/ RejectArgs(d) /\ UNCHANGED accountVars
             \/ GetServer(d) \/ DeleteVolume(d) \/ DeleteDone(d)
             \/ DeleteRefused(d)
    BY <2>5, QuietDelete DEF GetServer, DeleteVolume, DeleteDone,
       DeleteRefused, accountVars, cloudVars
  <2>6. QED
    BY <1>2, <2>2, <2>3, <2>4, <2>5 DEF DeleteStep
<1>3. ASSUME NEW p \in Runs, Kill(p) PROVE PromiseInv' /\ Promised
  BY <1>3, InterruptKeeps DEF Kill, accountVars, cloudVars
<1>4. ASSUME NEW h \in HostIds, CloudStep(h) PROVE PromiseInv' /\ Promised
  BY <1>4, BootKeeps, StopKeeps DEF CloudStep
<1>5. CASE UNCHANGED vars
  BY <1>5, StutterKeeps DEF vars, accountVars, cloudVars
<1>6. QED
  BY <1>1, <1>2, <1>3, <1>4, <1>5 DEF Next

(* The three requests of Provision and the volumes of Delete are invisible *)
(* to the user: create and delete against Scaleway keep the promise that   *)
(* the one-request providers keep (README.md:67, scaleway.go:92-153).      *)
THEOREM Implements == Spec => KeepsThePromise
<1>1. Init => PromiseInv /\ Promise!Init
  BY PromiseInit, PromiseInvInit DEF Init
<1>2. IInv /\ PromiseInv /\ [Next]_vars =>
        PromiseInv' /\ [Promise!Next]_(Promise!serverVars)
  BY PromiseStep DEF Promised
<1>3. QED
  BY <1>1, <1>2, Invariance, PTL DEF Spec, KeepsThePromise, Promise!Spec

----------------------------------------------------------------------------
(* What Scaleway shares with the providers of one request: one server per  *)
(* run, which is the one the summary is about, a delete that hits its      *)
(* target, and by IP an exit-node only.                                    *)

(* The connection summary a create prints is about the server this run     *)
(* made, which has been up, and has its user-data with the token the       *)
(* summary shows (scaleway.go:45-105, create.go:358-411).                  *)
SummaryIsOwnServer ==
  \A c \in Creators : "summary" \in printed[c] =>
    owner[hostID[c]] = c /\ hostID[c] \in wasUp \cap ready

RunsInv ==
  /\ OneHostPerRun
  /\ \A h \in HostIds : host[h] = "absent" => owner[h] = Nobody
  /\ \A c \in Creators :
       /\ made[c] # NoHost => owner[made[c]] = c
       /\ hostID[c] # NoHost => hostID[c] = made[c]
  /\ \A d \in Deleters :
       /\ at[d] = "volumes" => host[victim[d]] = "deleted"
       /\ exit[d] = "ok" => at[d] = "volumes"
       /\ pc[d] = "args" => target[d] = NoAddr /\ victim[d] = NoHost

(* A step that makes no server, aims no delete and takes none past the     *)
(* request that removes its server.                                        *)
RunsStay ==
  /\ UNCHANGED <<owner, made, target, victim>>
  /\ \A h \in HostIds :
       /\ host[h] = "deleted" => host'[h] = "deleted"
       /\ host'[h] = "absent" => host[h] = "absent"
  /\ \A c \in Creators : hostID'[c] \in {hostID[c], made[c]}
  /\ \A d \in Deleters :
       /\ pc'[d] = "args" => pc[d] = "args"
       /\ at'[d] = "volumes" => at[d] = "volumes"
       /\ exit'[d] = "ok" => at'[d] = "volumes"

LEMMA RunsStayStep ==
  ASSUME IInv, RunsInv, RunsStay
  PROVE  RunsInv'
<1>1. \A d \in Deleters : at[d] = "volumes" => victim[d] \in HostIds
  BY DEF IInv, DeleteInv, AimedAtServer, TypeOK, AccountTypeOK
<1>2. OneHostPerRun'
  BY DEF RunsInv, OneHostPerRun, RunsStay
<1>3. QED
  BY <1>1, <1>2 DEF RunsInv, RunsStay

(* The servers as the requests and the cloud change them.                  *)
LEMMA DeletedStays ==
  ASSUME AccountTypeOK,
         \/ UNCHANGED host
         \/ \E h \in HostIds :
              \/ Boot(h) \/ StopAndRelease(h) \/ Erase(h)
              \/ /\ Present(h)
                 /\ \E s \in {"creating", "off"} :
                      host' = [host EXCEPT ![h] = s]
  PROVE  \A h \in HostIds :
           /\ host[h] = "deleted" => host'[h] = "deleted"
           /\ host'[h] = "absent" => host[h] = "absent"
BY DEF AccountTypeOK, Boot, StopAndRelease, Erase, Present, Statuses,
   ActiveStatus

LEMMA CreatesStay ==
  ASSUME IInv, RunsInv, NEW c \in Creators, CreateStep(c), ~CreateServer(c)
  PROVE  RunsStay
<1>. /\ CliTypeOK /\ AccountTypeOK
     /\ at \in [Runs -> CreateRequests \cup DeleteRequests]
  BY DEF IInv, TypeOK
<1>1. UNCHANGED <<owner, made, target, victim>>
  BY DEF CreateStep, SetUserData, PowerOn, ProvisionRefused, Status,
     accountVars, cloudVars, scalewayVars
<1>2. \/ UNCHANGED host
      \/ PowerOn(c) /\ host' = [host EXCEPT ![made[c]] = "creating"]
  BY DEF CreateStep, SetUserData, PowerOn, ProvisionRefused, Status,
     accountVars, cloudVars
<1>3. PowerOn(c) => Present(made[c]) /\ made[c] \in HostIds
  BY DEF PowerOn, Asks, Present, Statuses, IInv, TypeOK, CreateInv
<1>4. \A h \in HostIds :
        /\ host[h] = "deleted" => host'[h] = "deleted"
        /\ host'[h] = "absent" => host[h] = "absent"
  BY <1>2, <1>3, DeletedStays
<1>5. hostID' \in {hostID, [hostID EXCEPT ![c] = made[c]]}
  BY DEF CreateStep, SetUserData, PowerOn, ProvisionRefused, Status,
     AcceptCreate, RejectArgs, PrintHost, HandleStatus, StatusFails,
     PrintSummary, NextRound, ProvisionFails, ProvisionReturns, StatusReturns,
     cliVars
<1>6. /\ at' \in {at, [at EXCEPT ![c] = "poweron"]}
      /\ \E k \in {"ok", "error"} : exit' \in {exit, [exit EXCEPT ![c] = k]}
      /\ \E l \in {"provision", "created", "status", "answered", "exited"} :
           pc' \in {pc, [pc EXCEPT ![c] = l]}
  BY DEF CreateStep, SetUserData, PowerOn, ProvisionRefused, Status, GoesOn,
     AcceptCreate, RejectArgs, PrintHost, HandleStatus, StatusFails,
     PrintSummary, NextRound, ProvisionFails, ProvisionReturns, StatusReturns,
     Exit, Goto, cliVars, scalewayVars
<1>7. \A d \in Deleters :
        at'[d] = at[d] /\ exit'[d] = exit[d] /\ pc'[d] = pc[d]
  BY <1>6, CliAssumption DEF CliTypeOK, Runs
<1>8. \A b \in Creators : hostID'[b] \in {hostID[b], made[b]}
  BY <1>5 DEF CliTypeOK
<1>9. QED
  BY <1>1, <1>4, <1>7, <1>8 DEF RunsStay, RunsInv

LEMMA CreateServerMakesOne ==
  ASSUME IInv, RunsInv, NEW c \in Creators, CreateServer(c)
  PROVE  RunsInv'
<1>. AccountTypeOK /\ CliTypeOK /\ made \in [Creators -> HostIds \cup {NoHost}]
  BY DEF IInv, TypeOK
<1>1. PICK h \in HostIds :
        /\ host[h] = "absent"
        /\ host' = [host EXCEPT ![h] = "off"]
        /\ owner' = [owner EXCEPT ![h] = c]
        /\ \/ /\ made' = [made EXCEPT ![c] = h]
              /\ GoesOn(c, "userdata")
              /\ UNCHANGED cliVars
           \/ /\ ProvisionFails(c)
              /\ UNCHANGED <<at, made>>
  BY DEF CreateServer
<1>2. pc[c] = "provision" /\ at[c] = "server" /\ UNCHANGED <<target, victim>>
  BY DEF CreateServer, Asks
<1>3. hostID[c] = NoHost /\ \A i \in HostIds : owner[i] # c
  <2>1. hostID[c] = NoHost
    BY <1>2 DEF IInv, CliInv, IdSinceProvision
  <2>2. exit[c] = "running"
    BY <1>2 DEF IInv, CliInv, ExitIsFinal, Runs
  <2>3. QED
    BY <1>2, <2>1, <2>2, CliAssumption DEF IInv, CreateInv
<1>4. /\ owner'[h] = c
      /\ \A i \in HostIds : i # h => owner'[i] = owner[i] /\ host'[i] = host[i]
      /\ host'[h] = "off"
  BY <1>1 DEF AccountTypeOK
<1>5. OneHostPerRun'
  BY <1>3, <1>4 DEF OneHostPerRun, RunsInv
<1>6. \A i \in HostIds : host'[i] = "absent" => owner'[i] = Nobody
  BY <1>4 DEF RunsInv
<1>7. \A b \in Creators :
        /\ made'[b] # NoHost => owner'[made'[b]] = b
        /\ hostID'[b] # NoHost => hostID'[b] = made'[b]
  <2>. SUFFICES ASSUME NEW b \in Creators
                PROVE  /\ made'[b] # NoHost => owner'[made'[b]] = b
                       /\ hostID'[b] # NoHost => hostID'[b] = made'[b]
    OBVIOUS
  <2>1. hostID' = hostID
    BY <1>1 DEF cliVars, ProvisionFails
  <2>2. made'[b] = made[b] \/ (b = c /\ made'[b] = h)
    BY <1>1
  <2>3. made[b] # h
    BY <1>1, CloudAssumption, CliAssumption DEF RunsInv
  <2>4. QED
    BY <1>3, <1>4, <2>1, <2>2, <2>3 DEF RunsInv
<1>8. \A d \in Deleters :
        at'[d] = at[d] /\ exit'[d] = exit[d] /\ pc'[d] = pc[d]
  BY <1>1, CliAssumption DEF GoesOn, cliVars, ProvisionFails, Exit, Goto, IInv,
     TypeOK, CliTypeOK, Runs
<1>9. \A d \in Deleters : at[d] = "volumes" => victim[d] \in HostIds
  BY DEF IInv, DeleteInv, AimedAtServer, AccountTypeOK
<1>10. \A i \in HostIds : host[i] = "deleted" => host'[i] = "deleted"
  BY <1>1, <1>4
<1>11. QED
  BY <1>2, <1>5, <1>6, <1>7, <1>8, <1>9, <1>10 DEF RunsInv

LEMMA DeletesHit ==
  ASSUME IInv, RunsInv, NEW d \in Deleters, DeleteStep(d)
  PROVE  RunsInv'
<1>. /\ AccountTypeOK /\ CliTypeOK /\ CliInv /\ AimedAtServer /\ d \in Runs
     /\ at \in [Runs -> CreateRequests \cup DeleteRequests]
  BY DEF IInv, TypeOK, DeleteInv, Runs
<1>1. \A e \in Deleters : e \in Runs
  BY DEF Runs
<1>2. CASE StartDelete(d) /\ UNCHANGED scalewayVars
  <2>1. /\ UNCHANGED <<host, owner, exit, at, made, hostID>>
        /\ at[d] = "get" /\ exit[d] # "ok"
        /\ \A e \in Deleters \ {d} :
             /\ victim'[e] = victim[e] /\ target'[e] = target[e]
             /\ pc'[e] = pc[e]
        /\ victim'[d] = NoHost \/ target'[d] = NoAddr
        /\ pc'[d] = "delete"
    BY <1>1, <1>2 DEF RunsInv, Goto, CliTypeOK, StartDelete, AcceptDelete,
       cloudVars, scalewayVars, AimedAtServer, CliInv, ExitIsFinal,
       AccountTypeOK
  <2>2. QED
    BY <2>1, CloudAssumption, CliAssumption DEF RunsInv, OneHostPerRun
<1>3. CASE LookupServer(d)
  <2>1. /\ UNCHANGED <<host, owner, pc, exit, at, made, hostID, target>>
        /\ pc[d] = "delete" /\ victim[d] = NoHost /\ victim'[d] \in Listed
        /\ \A e \in Deleters \ {d} : victim'[e] = victim[e]
    BY <1>3 DEF LookupServer, Lookup, cliVars, cloudVars, scalewayVars,
       AccountTypeOK
  <2>2. exit[d] # "ok" /\ at[d] = "get"
    BY <1>3, <2>1 DEF LookupServer, Lookup, CliInv, ExitIsFinal, AimedAtServer
  <2>3. QED
    BY <2>1, <2>2 DEF RunsInv, OneHostPerRun
<1>4. CASE DeleteServer(d)
  <2>1. victim[d] \in HostIds
    BY <1>4 DEF DeleteServer, Asks, AimedAtServer, AccountTypeOK
  <2>2. host'[victim[d]] = "deleted"
    BY <1>4, <2>1 DEF DeleteServer, Erase, AccountTypeOK
  <2>3. \A h \in HostIds :
          /\ host[h] = "deleted" => host'[h] = "deleted"
          /\ host'[h] = "absent" => host[h] = "absent"
    BY <1>4, <2>1, DeletedStays DEF DeleteServer
  <2>4. UNCHANGED <<owner, made, hostID, target, victim>>
    BY <1>4 DEF DeleteServer, Erase, cliVars, DeleteFails
  <2>5. \A e \in Deleters \ {d} :
          at'[e] = at[e] /\ exit'[e] = exit[e] /\ pc'[e] = pc[e]
    BY <1>1, <1>4 DEF DeleteServer, GoesOn, cliVars, DeleteFails, Exit, Goto,
       CliTypeOK
  <2>6. exit'[d] # "ok" /\ pc'[d] # "args"
    BY <1>4 DEF DeleteServer, Asks, cliVars, DeleteFails, Exit, Goto,
       CliTypeOK, CliInv, ExitIsFinal
  <2>7. \A e \in Deleters : at[e] = "volumes" => victim[e] \in HostIds
    BY DEF AimedAtServer, AccountTypeOK
  <2>8. QED
    BY <2>2, <2>3, <2>4, <2>5, <2>6, <2>7 DEF RunsInv, OneHostPerRun
<1>5. CASE \/ RejectArgs(d) /\ UNCHANGED <<accountVars, scalewayVars>>
           \/ GetServer(d) \/ PowerOff(d) \/ DeleteVolume(d) \/ DeleteDone(d)
           \/ DeleteRefused(d)
  <2>1. UNCHANGED <<owner, made, hostID, target, victim>>
    BY <1>5 DEF RejectArgs, GetServer, PowerOff, DeleteVolume, DeleteDone,
       DeleteRefused, DeleteReturns, DeleteFails, accountVars, cloudVars,
       scalewayVars, cliVars
  <2>2. \A h \in HostIds :
          /\ host[h] = "deleted" => host'[h] = "deleted"
          /\ host'[h] = "absent" => host[h] = "absent"
    <3>1. \/ UNCHANGED host
          \/ PowerOff(d) /\ host' = [host EXCEPT ![victim[d]] = "off"]
      BY <1>5 DEF GetServer, PowerOff, DeleteVolume, DeleteDone, DeleteRefused,
         accountVars, cloudVars
    <3>2. PowerOff(d) => Present(victim[d]) /\ victim[d] \in HostIds
      BY DEF PowerOff, Asks, AimedAtServer, AccountTypeOK
    <3>3. QED
      BY <3>1, <3>2, DeletedStays
  <2>3. \A e \in Deleters \ {d} :
          at'[e] = at[e] /\ exit'[e] = exit[e] /\ pc'[e] = pc[e]
    BY <1>1, <1>5 DEF RejectArgs, GetServer, PowerOff, DeleteVolume,
       DeleteDone, DeleteRefused, DeleteReturns, DeleteFails, Exit, Goto,
       GoesOn, cliVars, scalewayVars, CliTypeOK
  <2>4. /\ pc'[d] # "args"
        /\ at'[d] = "volumes" => at[d] = "volumes"
        /\ exit'[d] = "ok" => at'[d] = "volumes"
    BY <1>5 DEF RejectArgs, GetServer, PowerOff, DeleteVolume, DeleteDone,
       DeleteRefused, Asks, DeleteReturns, DeleteFails, Exit, Goto, GoesOn,
       cliVars, scalewayVars, CliTypeOK, CliInv, ExitIsFinal, RunsInv
  <2>5. RunsStay
    BY <2>1, <2>2, <2>3, <2>4 DEF RunsStay, RunsInv
  <2>6. QED
    BY <2>5, RunsStayStep
<1>6. QED
  BY <1>2, <1>3, <1>4, <1>5 DEF DeleteStep

LEMMA RunsNext == IInv /\ RunsInv /\ [Next]_vars => RunsInv'
<1>. SUFFICES ASSUME IInv, RunsInv, [Next]_vars PROVE RunsInv'
  OBVIOUS
<1>. AccountTypeOK /\ CliTypeOK
  BY DEF IInv, TypeOK
<1>1. ASSUME NEW c \in Creators, CreateStep(c) PROVE RunsInv'
  BY <1>1, CreatesStay, CreateServerMakesOne, RunsStayStep
<1>2. ASSUME NEW d \in Deleters, DeleteStep(d) PROVE RunsInv'
  BY <1>2, DeletesHit
<1>3. ASSUME NEW p \in Runs, Kill(p) PROVE RunsInv'
  <2>1. RunsStay
    BY <1>3 DEF Kill, Interrupt, Exit, Goto, CliTypeOK, Runs, RunsStay,
       RunsInv, accountVars, cloudVars, scalewayVars
  <2>2. QED
    BY <2>1, RunsStayStep
<1>4. ASSUME NEW h \in HostIds, CloudStep(h) PROVE RunsInv'
  <2>1. \A i \in HostIds :
          /\ host[i] = "deleted" => host'[i] = "deleted"
          /\ host'[i] = "absent" => host[i] = "absent"
    BY <1>4, DeletedStays DEF CloudStep
  <2>2. UNCHANGED <<owner, made, hostID, target, victim, at, pc, exit>>
    BY <1>4 DEF CloudStep, Boot, StopAndRelease, cliVars, scalewayVars
  <2>3. QED
    BY <2>1, <2>2, RunsStayStep DEF RunsStay, RunsInv
<1>5. CASE UNCHANGED vars
  <2>1. RunsStay
    BY <1>5 DEF RunsStay, RunsInv, vars, accountVars, cloudVars, cliVars,
       scalewayVars
  <2>2. QED
    BY <2>1, RunsStayStep
<1>6. QED
  BY <1>1, <1>2, <1>3, <1>4, <1>5 DEF Next

LEMMA RunsInvariance == Spec => [](IInv /\ PromiseInv /\ RunsInv)
<1>1. Init => RunsInv
  BY CliAssumption, CloudAssumption DEF Init, CliInit, AccountInit, RunsInv,
     OneHostPerRun, First, Runs
<1>2. Init => PromiseInv
  BY PromiseInvInit DEF Init
<1>3. QED
  BY <1>1, <1>2, InitIInv, NextIInv, RunsNext, PromiseStep, PTL DEF Spec

(* One run of create makes at most one server, even when the answer to the *)
(* request for it is lost (scaleway.go:45-89, create.go:339-342).          *)
THEOREM OneHost == Spec => []OneHostPerRun
<1>1. RunsInv => OneHostPerRun
  BY DEF RunsInv
<1>2. QED
  BY <1>1, RunsInvariance, PTL

(* The summary is about the run's own server, and that one has been up     *)
(* with its user-data (scaleway.go:45-105, create.go:358-411).             *)
THEOREM SummaryIsOwnServerAlways == Spec => []SummaryIsOwnServer
<1>1. IInv /\ PromiseInv /\ RunsInv => SummaryIsOwnServer
  <2>. SUFFICES ASSUME IInv, PromiseInv, RunsInv, NEW c \in Creators,
                       "summary" \in printed[c]
                PROVE  owner[hostID[c]] = c /\ hostID[c] \in wasUp \cap ready
    BY DEF SummaryIsOwnServer
  <2>1. hostID[c] \in wasUp
    BY DEF IInv, CliInv, SummaryIsLast, PromiseInv
  <2>2. hostID[c] \in ready
    BY <2>1 DEF IInv, ReadyInv
  <2>3. hostID[c] # NoHost
    BY <2>1, CliAssumption DEF IInv, TypeOK, AccountTypeOK
  <2>4. QED
    BY <2>1, <2>2, <2>3 DEF RunsInv
<1>2. QED
  BY <1>1, RunsInvariance, PTL

(* A delete that reports success has removed the server it was aimed at,   *)
(* and nothing brings that back (scaleway.go:129-153, delete.go:163).      *)
THEOREM DeletedIsGoneAlways == Spec => []DeletedIsGone
<1>1. IInv /\ RunsInv => DeletedIsGone
  BY DEF IInv, RunsInv, DeleteInv, AimedAtServer, DeletedIsGone
<1>2. QED
  BY <1>1, RunsInvariance, PTL

----------------------------------------------------------------------------
(* What is left of a server after a delete that reports success.           *)

(* A delete that reports success and was the only one aimed at its server  *)
(* has removed the volumes with it (scaleway.go:108-151).                  *)
LoneDeleteLeavesNothing ==
  \A d \in Deleters :
    /\ exit[d] = "ok"
    /\ \A e \in Deleters : victim[e] = victim[d] => e = d
    => \A v \in volume : v[1] # victim[d]

(* The volumes of a server go with it when one delete alone was aimed at   *)
(* it and reports success (scaleway.go:108-151, delete.go:163).            *)
THEOREM LoneDeleteLeavesNothingAlways == Spec => []LoneDeleteLeavesNothing
<1>1. IInv /\ RunsInv => LoneDeleteLeavesNothing
  <2>. SUFFICES ASSUME IInv, RunsInv, NEW d \in Deleters, exit[d] = "ok",
                       \A e \in Deleters : victim[e] = victim[d] => e = d,
                       NEW v \in volume, v[1] = victim[d]
                PROVE  FALSE
    BY DEF LoneDeleteLeavesNothing
  <2>1. host[victim[d]] = "deleted"
    BY DEF RunsInv
  <2>2. PICK e \in Deleters :
          victim[e] = v[1] /\ v \in volumes[e] /\ exit[e] # "ok"
    BY <2>1 DEF IInv, NoSilentVolume, Present, Statuses, ActiveStatus
  <2>3. QED
    BY <2>2
<1>2. QED
  BY <1>1, RunsInvariance, PTL

=============================================================================
