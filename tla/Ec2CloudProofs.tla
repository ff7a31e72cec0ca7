--------------------------- MODULE Ec2CloudProofs ---------------------------
(***************************************************************************)
(* Proofs about Ec2Cloud, for every set of runs, instances, groups and     *)
(* addresses and every number of polls.                                    *)
(*                                                                         *)
(* A security group has a chain of keepers: the create that made it, then  *)
(* the instance that uses it, then a delete that saw the instance before   *)
(* it went.  The inductive invariant follows the chain: CreateInv and      *)
(* GroupInv from the create to its group, InstanceInv from an instance to  *)
(* the group, DeleteInv and KeptByDelete from a terminated instance to a   *)
(* delete that has the group on its list.  AnswerInv is about the summary, *)
(* and RunsInv, at the end, about the instances alone.                     *)
(***************************************************************************)
EXTENDS Ec2Cloud, CloudAccountProofs

CreateInv ==
  \A c \in Creators :
    /\ at[c] \in CreateRequests
    /\ pc[c] = "args" => at[c] = "group"
    /\ at[c] = "group" <=> groupID[c] = NoGroup
    /\ groupID[c] # NoGroup => group[groupID[c]] # "absent"
    /\ at[c] = "run" => pc[c] = "provision" \/ exit[c] = "killed"
    /\ pc[c] \in {"created", "status", "answered"} \/ exit[c] = "ok" =>
         at[c] \in {"health", "address"}
    /\ at[c] \in {"tags", "health", "address"} => \E h \in HostIds : owner[h] = c

(* A group its create does not know of is the one whose answer was lost.   *)
GroupInv ==
  \A g \in GroupIds :
    /\ group[g] # "absent" => maker[g] \in Creators
    /\ \A c \in Creators : maker[g] = c =>
         groupID[c] = g \/ (exit[c] = "error" /\ at[c] = "group")

InstanceInv ==
  \A h \in HostIds :
    /\ host[h] = "absent" \/ h \in Foreign => owner[h] = Nobody
    /\ h \in Foreign \/ h \in wasUp => host[h] # "absent"
    /\ host[h] = ActiveStatus => h \in wasUp
    /\ \A c \in Creators : owner[h] = c =>
         /\ at[c] \in {"cleanup", "tags", "health", "address"}
         /\ host[h] = "deleted" \/ uses[h] = groupID[c]

DeleteInv ==
  \A d \in Deleters :
    /\ victim[d] # NoHost => host[victim[d]] # "absent"
    /\ at[d] \in DeleteRequests
    /\ at[d] # "describe" => victim[d] # NoHost
    /\ at[d] = "describe" => groups[d] = {}
    /\ pc[d] = "args" => at[d] = "describe"
    /\ at[d] = "terminate" /\ host[victim[d]] # "deleted" =>
         groups[d] = {uses[victim[d]]} \ {NoGroup}
    /\ exit[d] = "ok" => groups[d] = {}

(* The group of a terminated instance is on the list of some delete.       *)
KeptByDelete ==
  \A h \in HostIds : \A c \in Creators :
    /\ owner[h] = c
    /\ host[h] = "deleted"
    /\ group[groupID[c]] = "present"
    => \E d \in Deleters : groupID[c] \in groups[d]

(* What both requests of a Status said is true until the instance stops.   *)
AnswerInv ==
  /\ \A h \in wasUp : Present(h) /\ h \notin stopped =>
       host[h] = ActiveStatus /\ addr[h] # NoAddr
  /\ \A c \in Creators :
       LET h == hostID[c] IN
       /\ h # NoHost => owner[h] = c
       /\ pc[c] = "answered" \/ "summary" \in printed[c] => at[c] = "health"
       /\ reply[c].status = ActiveStatus => h \in wasUp
       /\ /\ reply[c].status = ActiveStatus
          /\ at[c] = "health"
          /\ Present(h)
          /\ h \notin stopped
          => addr[h] = reply[c].ip

IInv ==
  /\ TypeOK
  /\ CliInv
  /\ CreateInv
  /\ GroupInv
  /\ InstanceInv
  /\ DeleteInv
  /\ KeptByDelete
  /\ AnswerInv

(* A step of a run that leaves the account alone.                          *)
RunsMove ==
  /\ UNCHANGED <<accountVars, at, ec2Vars, hostID, reply>>
  /\ \A p \in Runs : pc[p] # "args" => pc'[p] # "args"
  /\ \A p \in Runs : exit[p] # "running" => exit'[p] = exit[p]
  /\ \A c \in Creators :
       /\ pc'[c] \in {"created", "status", "answered"} \/ exit'[c] = "ok" =>
            pc[c] \in {"created", "status", "answered"} \/ exit[c] = "ok"
       /\ pc'[c] = "answered" \/ "summary" \in printed'[c] =>
            pc[c] = "answered" \/ "summary" \in printed[c]
       /\ at[c] = "run" /\ pc[c] = "provision" =>
            pc'[c] = "provision" \/ exit'[c] = "killed"
  /\ \A d \in Deleters : exit'[d] = "ok" => exit[d] = "ok" \/ groups[d] = {}

----------------------------------------------------------------------------
(* The initial states                                                      *)

LEMMA InitIInv == Init => IInv
<1>. SUFFICES ASSUME Init PROVE IInv
  OBVIOUS
<1>1. CliInv
  BY CliInvInit DEF Init
<1>2. TypeOK
  BY <1>1, CliAssumption, CloudAssumption DEF Init, AccountInit, TypeOK,
     CliInv, AccountTypeOK, HostStates, Statuses, CreateRequests,
     DeleteRequests
<1>3. CreateInv
  BY CliAssumption DEF Init, CliInit, CreateInv, Runs, CreateRequests
<1>4. GroupInv /\ InstanceInv /\ KeptByDelete
  BY CloudAssumption DEF Init, AccountInit, GroupInv, InstanceInv,
     KeptByDelete, ActiveStatus
<1>5. DeleteInv
  BY CliAssumption DEF Init, AccountInit, DeleteInv, Runs, DeleteRequests
<1>6. AnswerInv
  BY CliAssumption, CloudAssumption DEF Init, CliInit, AccountInit, AnswerInv,
     NoReply, ActiveStatus, Runs
<1>7. QED
  BY <1>1, <1>2, <1>3, <1>4, <1>5, <1>6 DEF IInv

----------------------------------------------------------------------------
(* Steps of a run that leave the account alone                             *)

LEMMA RunsMoveStep ==
  ASSUME IInv, CliInv', RunsMove
  PROVE  IInv'
<1>. UNCHANGED <<host, addr, owner, wasUp, target, victim, at, groupID, groups,
                 group, uses, maker, tagged, stopped, hostID, reply>>
  BY DEF RunsMove, accountVars, cloudVars, ec2Vars, groupVars
<1>1. TypeOK'
  BY DEF IInv, TypeOK, CliInv, AccountTypeOK
<1>2. CreateInv'
  BY DEF IInv, CreateInv, RunsMove, Runs
<1>3. GroupInv'
  BY DEF IInv, GroupInv, RunsMove, Runs
<1>4. InstanceInv' /\ KeptByDelete'
  BY DEF IInv, InstanceInv, KeptByDelete
<1>5. DeleteInv'
  BY DEF IInv, DeleteInv, RunsMove, Runs
<1>6. AnswerInv'
  BY DEF IInv, AnswerInv, Present, RunsMove
<1>7. QED
  BY <1>1, <1>2, <1>3, <1>4, <1>5, <1>6 DEF IInv

LEMMA AcceptCreateStep ==
  ASSUME IInv, NEW c \in Creators, AcceptCreate(c),
         UNCHANGED <<accountVars, at, ec2Vars>>
  PROVE  IInv'
<1>1. CliInv'
  BY CliAcceptCreate DEF IInv
<1>2. RunsMove
  BY DEF RunsMove, AcceptCreate, Goto
<1>3. QED
  BY <1>1, <1>2, RunsMoveStep

LEMMA RejectArgsStep ==
  ASSUME IInv, NEW p \in Runs, RejectArgs(p),
         UNCHANGED <<accountVars, at, ec2Vars>>
  PROVE  IInv'
<1>1. CliInv'
  BY CliRejectArgs DEF IInv
<1>2. RunsMove
  BY DEF RunsMove, RejectArgs, Exit, Goto, IInv, CliInv, ExitIsFinal
<1>3. QED
  BY <1>1, <1>2, RunsMoveStep

LEMMA PrintHostStep ==
  ASSUME IInv, NEW c \in Creators, PrintHost(c),
         UNCHANGED <<accountVars, at, ec2Vars>>
  PROVE  IInv'
<1>1. CliInv'
  BY CliPrintHost DEF IInv
<1>2. RunsMove
  BY DEF RunsMove, PrintHost, Goto
<1>3. QED
  BY <1>1, <1>2, RunsMoveStep

LEMMA HandleStatusStep ==
  ASSUME IInv, NEW c \in Creators, HandleStatus(c),
         UNCHANGED <<accountVars, at, ec2Vars>>
  PROVE  IInv'
<1>1. CliInv'
  BY CliHandleStatus DEF IInv
<1>2. RunsMove
  BY CliAssumption DEF RunsMove, HandleStatus, PrintSummary, NextRound, Exit,
     Goto, IInv, CliInv, CliTypeOK, ExitIsFinal, Runs
<1>3. QED
  BY <1>1, <1>2, RunsMoveStep

LEMMA StatusFailsStep ==
  ASSUME IInv, NEW c \in Creators, StatusFails(c),
         UNCHANGED <<accountVars, at, ec2Vars>>
  PROVE  IInv'
<1>1. CliInv'
  BY CliStatusFails DEF IInv
<1>2. RunsMove
  BY DEF RunsMove, StatusFails, Exit, Goto, IInv, CliInv, ExitIsFinal
<1>3. QED
  BY <1>1, <1>2, RunsMoveStep

LEMMA ProvisionRefusedStep ==
  ASSUME IInv, NEW c \in Creators, ProvisionRefused(c)
  PROVE  IInv'
<1>1. CliInv'
  BY CliProvisionFails DEF IInv, ProvisionRefused
<1>2. RunsMove
  BY CliAssumption DEF RunsMove, ProvisionRefused, ProvisionFails, Exit, Goto,
     IInv, CliInv, ExitIsFinal
<1>3. QED
  BY <1>1, <1>2, RunsMoveStep

LEMMA DeleteDoneStep ==
  ASSUME IInv, NEW d \in Deleters, DeleteDone(d)
  PROVE  IInv'
<1>1. CliInv'
  BY CliDeleteReturns DEF IInv, DeleteDone
<1>2. RunsMove
  BY CliAssumption DEF RunsMove, DeleteDone, DeleteReturns, Exit, Goto, IInv,
     CliInv, ExitIsFinal
<1>3. QED
  BY <1>1, <1>2, RunsMoveStep

LEMMA DeleteRefusedStep ==
  ASSUME IInv, NEW d \in Deleters, DeleteRefused(d)
  PROVE  IInv'
<1>1. CliInv'
  BY CliDeleteFails DEF IInv, DeleteRefused
<1>2. RunsMove
  BY CliAssumption DEF RunsMove, DeleteRefused, DeleteFails, Exit, Goto, IInv,
     CliInv, ExitIsFinal
<1>3. QED
  BY <1>1, <1>2, RunsMoveStep

LEMMA KillStep ==
  ASSUME IInv, NEW p \in Runs, Kill(p)
  PROVE  IInv'
<1>1. CliInv'
  BY CliInterrupt DEF IInv, Kill
<1>2. RunsMove
  BY DEF RunsMove, Kill, Interrupt, Exit, Goto, IInv, CliInv, CliTypeOK,
     ExitIsFinal
<1>3. QED
  BY <1>1, <1>2, RunsMoveStep

----------------------------------------------------------------------------
(* Requests and the cloud                                                  *)

LEMMA CreateGroupStep ==
  ASSUME IInv, NEW c \in Creators, CreateGroup(c)
  PROVE  IInv'
<1>1. CliInv'
  BY CliUnchanged, CliProvisionFails DEF IInv, CreateGroup
<1>2. AccountTypeOK'
  BY CliAssumption, CloudAssumption, Ec2Assumption DEF IInv, TypeOK,
     AccountTypeOK, accountVars, cloudVars, CreateGroup
<1>3. TypeOK'
  BY <1>1, <1>2, CliAssumption, CloudAssumption, Ec2Assumption DEF IInv,
     TypeOK, CliInv, CreateRequests, CreateGroup, GoesOn
<1>4. CreateInv'
  BY CliAssumption, CloudAssumption, Ec2Assumption DEF CreateInv,
     CreateRequests, IInv, TypeOK, CliTypeOK, Runs, accountVars, cloudVars,
     cliVars, CreateGroup, ProvisionFails, Asks, GoesOn, Exit, Goto
<1>5. GroupInv'
  BY CliAssumption, CloudAssumption, Ec2Assumption DEF GroupInv, CreateInv,
     ExitIsFinal, IInv, TypeOK, CliInv, CliTypeOK, Runs, cliVars, CreateGroup,
     ProvisionFails, Asks, GoesOn, Exit
<1>6. InstanceInv'
  BY CliAssumption, CloudAssumption, Ec2Assumption DEF InstanceInv, IInv,
     TypeOK, Runs, accountVars, cloudVars, CreateGroup, Asks, GoesOn
<1>7. DeleteInv'
  BY CliAssumption, CloudAssumption, Ec2Assumption DEF DeleteInv, IInv,
     TypeOK, CliTypeOK, Runs, accountVars, cloudVars, cliVars, CreateGroup,
     ProvisionFails, GoesOn, Exit, Goto
<1>8. KeptByDelete'
  BY CliAssumption, CloudAssumption, Ec2Assumption DEF KeptByDelete,
     InstanceInv, CreateInv, IInv, TypeOK, accountVars, cloudVars,
     CreateGroup, Asks
<1>9. AnswerInv'
  BY CliAssumption, CloudAssumption, Ec2Assumption DEF AnswerInv, Present,
     Statuses, IInv, TypeOK, CliTypeOK, Runs, accountVars, cloudVars, cliVars,
     CreateGroup, ProvisionFails, Asks, GoesOn, Exit, Goto
<1>10. QED
  BY <1>1, <1>2, <1>3, <1>4, <1>5, <1>6, <1>7, <1>8, <1>9 DEF IInv

LEMMA AuthorizeRulesStep ==
  ASSUME IInv, NEW c \in Creators, AuthorizeRules(c)
  PROVE  IInv'
<1>1. CliInv'
  BY CliUnchanged DEF IInv, AuthorizeRules
<1>2. AccountTypeOK'
  BY CliAssumption DEF IInv, TypeOK, AccountTypeOK, accountVars, cloudVars,
     AuthorizeRules
<1>3. TypeOK'
  BY <1>1, <1>2, CliAssumption DEF IInv, TypeOK, CliInv, CreateRequests,
     ec2Vars, groupVars, AuthorizeRules, GoesOn
<1>4. CreateInv'
  BY CliAssumption DEF CreateInv, CreateRequests, IInv, accountVars,
     cloudVars, ec2Vars, groupVars, cliVars, AuthorizeRules, Asks, GoesOn
<1>5. GroupInv'
  BY CliAssumption DEF GroupInv, IInv, ec2Vars, groupVars, cliVars,
     AuthorizeRules, Asks, GoesOn
<1>6. InstanceInv'
  BY CliAssumption DEF InstanceInv, IInv, accountVars, cloudVars, ec2Vars,
     groupVars, AuthorizeRules, Asks, GoesOn
<1>7. DeleteInv'
  BY CliAssumption DEF DeleteInv, IInv, accountVars, cloudVars, ec2Vars,
     groupVars, cliVars, AuthorizeRules, GoesOn
<1>8. KeptByDelete'
  BY CliAssumption DEF KeptByDelete, IInv, accountVars, cloudVars, ec2Vars,
     groupVars, AuthorizeRules
<1>9. AnswerInv'
  BY CliAssumption DEF AnswerInv, Present, IInv, accountVars, cloudVars,
     ec2Vars, cliVars, AuthorizeRules, Asks, GoesOn
<1>10. QED
  BY <1>1, <1>2, <1>3, <1>4, <1>5, <1>6, <1>7, <1>8, <1>9 DEF IInv

LEMMA RunInstancesStep ==
  ASSUME IInv, NEW c \in Creators, RunInstances(c)
  PROVE  IInv'
<1>1. CliInv'
  BY CliUnchanged DEF IInv, RunInstances
<1>2. AccountTypeOK'
  BY CliAssumption, CloudAssumption, Ec2Assumption DEF IInv, TypeOK,
     AccountTypeOK, HostStates, Statuses, RunInstances, Make
<1>3. TypeOK'
  BY <1>1, <1>2, CliAssumption, CloudAssumption, Ec2Assumption DEF IInv,
     TypeOK, CliInv, CreateRequests, RunInstances, GoesOn
<1>4. CreateInv'
  <2>1. PICK h \in HostIds : Make(c, h)
    BY DEF RunInstances
  <2>2. owner' = [owner EXCEPT ![h] = c] /\ owner[h] = Nobody
    BY <2>1 DEF Make, IInv, InstanceInv
  <2>3. owner'[h] = c
    BY <2>2 DEF IInv, TypeOK, AccountTypeOK
  <2>4. \A b \in Creators : (\E i \in HostIds : owner[i] = b) =>
          \E i \in HostIds : owner'[i] = b
    BY <2>2, CloudAssumption DEF IInv, TypeOK, AccountTypeOK
  <2>5. /\ UNCHANGED <<pc, exit, groupID, group>>
        /\ pc[c] = "provision" /\ at[c] = "run"
        /\ \/ at' = [at EXCEPT ![c] = "tags"]
           \/ at' = [at EXCEPT ![c] = "cleanup"]
    BY DEF RunInstances, Asks, GoesOn, cliVars
  <2>6. QED
    BY <2>3, <2>4, <2>5, CliAssumption DEF IInv, CreateInv, CreateRequests,
       TypeOK, Runs
<1>5. GroupInv'
  BY CliAssumption, CloudAssumption, Ec2Assumption DEF GroupInv, IInv, TypeOK,
     Runs, cliVars, RunInstances, Asks, GoesOn
<1>6. InstanceInv'
  BY CliAssumption, CloudAssumption, Ec2Assumption DEF InstanceInv,
     ActiveStatus, IInv, TypeOK, AccountTypeOK, Runs, RunInstances, Make,
     GoesOn
<1>7. DeleteInv'
  BY CliAssumption, CloudAssumption, Ec2Assumption DEF DeleteInv, IInv,
     TypeOK, Runs, cliVars, RunInstances, Make, GoesOn
<1>8. KeptByDelete'
  BY CliAssumption, CloudAssumption, Ec2Assumption DEF KeptByDelete, IInv,
     RunInstances, Make
<1>9. AnswerInv'
  BY CliAssumption, CloudAssumption, Ec2Assumption DEF AnswerInv, InstanceInv,
     Present, IInv, TypeOK, Runs, cliVars, RunInstances, Make, Asks, GoesOn
<1>10. QED
  BY <1>1, <1>2, <1>3, <1>4, <1>5, <1>6, <1>7, <1>8, <1>9 DEF IInv

LEMMA RunRefusedStep ==
  ASSUME IInv, NEW c \in Creators, RunRefused(c)
  PROVE  IInv'
<1>1. CliInv'
  BY CliUnchanged DEF IInv, RunRefused
<1>2. AccountTypeOK'
  BY CliAssumption DEF IInv, TypeOK, AccountTypeOK, accountVars, cloudVars,
     RunRefused
<1>3. TypeOK'
  BY <1>1, <1>2, CliAssumption DEF IInv, TypeOK, CliInv, CreateRequests,
     ec2Vars, groupVars, RunRefused, GoesOn
<1>4. CreateInv'
  BY CliAssumption DEF CreateInv, CreateRequests, IInv, accountVars,
     cloudVars, ec2Vars, groupVars, cliVars, RunRefused, Asks, GoesOn
<1>5. GroupInv'
  BY CliAssumption DEF GroupInv, IInv, ec2Vars, groupVars, cliVars,
     RunRefused, Asks, GoesOn
<1>6. InstanceInv'
  BY CliAssumption DEF InstanceInv, IInv, accountVars, cloudVars, ec2Vars,
     groupVars, RunRefused, GoesOn
<1>7. DeleteInv'
  BY CliAssumption DEF DeleteInv, IInv, accountVars, cloudVars, ec2Vars,
     groupVars, cliVars, RunRefused, GoesOn
<1>8. KeptByDelete'
  BY CliAssumption DEF KeptByDelete, IInv, accountVars, cloudVars, ec2Vars,
     groupVars, RunRefused
<1>9. AnswerInv'
  BY CliAssumption DEF AnswerInv, Present, IInv, accountVars, cloudVars,
     ec2Vars, cliVars, RunRefused, Asks, GoesOn
<1>10. QED
  BY <1>1, <1>2, <1>3, <1>4, <1>5, <1>6, <1>7, <1>8, <1>9 DEF IInv

LEMMA CleanUpStep ==
  ASSUME IInv, NEW c \in Creators, CleanUp(c)
  PROVE  IInv'
<1>1. CliInv'
  BY CliProvisionFails DEF IInv, CleanUp
<1>2. AccountTypeOK'
  BY CliAssumption, CloudAssumption, Ec2Assumption DEF IInv, TypeOK,
     AccountTypeOK, accountVars, cloudVars, CleanUp
<1>3. TypeOK'
  BY <1>1, <1>2, CliAssumption, CloudAssumption, Ec2Assumption DEF IInv,
     TypeOK, CliInv, CleanUp
<1>4. CreateInv'
  BY CliAssumption, CloudAssumption, Ec2Assumption DEF CreateInv, IInv,
     accountVars, cloudVars, CleanUp, ProvisionFails, Asks, Exit, Goto
<1>5. GroupInv'
  BY CliAssumption, CloudAssumption, Ec2Assumption DEF GroupInv, CreateInv,
     IInv, CleanUp, ProvisionFails, Exit
<1>6. InstanceInv'
  BY CliAssumption, CloudAssumption, Ec2Assumption DEF InstanceInv, IInv,
     accountVars, cloudVars, CleanUp
<1>7. DeleteInv'
  BY CliAssumption, CloudAssumption, Ec2Assumption DEF DeleteInv, IInv,
     accountVars, cloudVars, CleanUp, ProvisionFails, Exit, Goto
<1>8. KeptByDelete'
  BY CliAssumption, CloudAssumption, Ec2Assumption DEF KeptByDelete, IInv,
     accountVars, cloudVars, CleanUp
<1>9. AnswerInv'
  BY CliAssumption, CloudAssumption, Ec2Assumption DEF AnswerInv, Present,
     IInv, accountVars, cloudVars, CleanUp, ProvisionFails, Exit, Goto
<1>10. QED
  BY <1>1, <1>2, <1>3, <1>4, <1>5, <1>6, <1>7, <1>8, <1>9 DEF IInv

LEMMA CreateTagsStep ==
  ASSUME IInv, NEW c \in Creators, CreateTags(c)
  PROVE  IInv'
<1>1. CliInv'
  BY CliProvisionReturns DEF IInv, CreateTags
<1>2. AccountTypeOK'
  BY CliAssumption, CloudAssumption, Ec2Assumption DEF IInv, TypeOK,
     AccountTypeOK, accountVars, cloudVars, CreateTags
<1>3. TypeOK'
  BY <1>1, <1>2, CliAssumption, CloudAssumption, Ec2Assumption DEF IInv,
     InstanceInv, TypeOK, CliInv, CreateRequests, Runs, groupVars, CreateTags,
     GoesOn
<1>4. CreateInv'
  BY CliAssumption, CloudAssumption, Ec2Assumption DEF CreateInv,
     CreateRequests, IInv, TypeOK, Runs, accountVars, cloudVars, groupVars,
     CreateTags, ProvisionReturns, Asks, GoesOn, Goto
<1>5. GroupInv'
  BY CliAssumption, CloudAssumption, Ec2Assumption DEF GroupInv, IInv,
     groupVars, CreateTags, ProvisionReturns, Asks, GoesOn
<1>6. InstanceInv'
  BY CliAssumption, CloudAssumption, Ec2Assumption DEF InstanceInv, IInv,
     accountVars, cloudVars, groupVars, CreateTags, GoesOn
<1>7. DeleteInv'
  BY CliAssumption, CloudAssumption, Ec2Assumption DEF DeleteInv, IInv,
     accountVars, cloudVars, groupVars, CreateTags, ProvisionReturns, GoesOn,
     Goto
<1>8. KeptByDelete'
  BY CliAssumption, CloudAssumption, Ec2Assumption DEF KeptByDelete, IInv,
     accountVars, cloudVars, groupVars, CreateTags
<1>9. AnswerInv'
  BY CliAssumption, CloudAssumption, Ec2Assumption DEF AnswerInv,
     IdSinceProvision, Present, IInv, TypeOK, AccountTypeOK, CliInv,
     accountVars, cloudVars, CreateTags, ProvisionReturns, GoesOn, Goto
<1>10. QED
  BY <1>1, <1>2, <1>3, <1>4, <1>5, <1>6, <1>7, <1>8, <1>9 DEF IInv

LEMMA AskHealthStep ==
  ASSUME IInv, NEW c \in Creators, AskHealth(c)
  PROVE  IInv'
<1>1. CliInv'
  BY CliAssumption DEF IInv, CliInv, CliTypeOK, ExitIsFinal, PollsLeft,
     IdSinceProvision, SummaryIsLast, OwnSteps, AskHealth, Asks, Replies,
     Statuses
<1>2. AccountTypeOK'
  BY CliAssumption DEF IInv, TypeOK, AccountTypeOK, accountVars, cloudVars,
     AskHealth
<1>3. TypeOK'
  BY <1>1, <1>2, CliAssumption DEF IInv, TypeOK, CliInv, CreateRequests,
     ec2Vars, groupVars, AskHealth, GoesOn
<1>4. CreateInv'
  BY CliAssumption DEF CreateInv, CreateRequests, IInv, accountVars,
     cloudVars, ec2Vars, groupVars, AskHealth, Asks, GoesOn
<1>5. GroupInv'
  BY CliAssumption DEF GroupInv, IInv, ec2Vars, groupVars, AskHealth, Asks,
     GoesOn
<1>6. InstanceInv'
  BY CliAssumption DEF InstanceInv, IInv, accountVars, cloudVars, ec2Vars,
     groupVars, AskHealth, GoesOn
<1>7. DeleteInv'
  BY CliAssumption DEF DeleteInv, IInv, accountVars, cloudVars, ec2Vars,
     groupVars, AskHealth, GoesOn
<1>8. KeptByDelete'
  BY CliAssumption DEF KeptByDelete, IInv, accountVars, cloudVars, ec2Vars,
     groupVars, AskHealth
<1>9. AnswerInv'
  BY CliAssumption DEF AnswerInv, InstanceInv, IdSinceProvision,
     SummaryIsLast, Present, ActiveStatus, IInv, TypeOK, CliInv, CliTypeOK,
     Runs, accountVars, cloudVars, ec2Vars, AskHealth, Asks, GoesOn
<1>10. QED
  BY <1>1, <1>2, <1>3, <1>4, <1>5, <1>6, <1>7, <1>8, <1>9 DEF IInv

LEMMA AskAddressStep ==
  ASSUME IInv, NEW c \in Creators, AskAddress(c)
  PROVE  IInv'
<1>1. CliInv'
  <2>. DEFINE r == [reply[c] EXCEPT !.ip = addr[hostID[c]]]
  <2>1. hostID[c] \in HostIds
    BY DEF IInv, CliInv, CliTypeOK, IdSinceProvision, AskAddress, Asks
  <2>2. r \in Replies
    BY <2>1 DEF Replies, IInv, TypeOK, AccountTypeOK, CliTypeOK
  <2>3. StatusReturns(c, r)
    BY DEF AskAddress
  <2>. HIDE DEF r
  <2>4. QED
    BY <2>2, <2>3, CliStatusReturns DEF IInv
<1>2. AccountTypeOK'
  BY CliAssumption DEF IInv, TypeOK, AccountTypeOK, accountVars, cloudVars,
     AskAddress
<1>3. TypeOK'
  BY <1>1, <1>2, CliAssumption DEF IInv, TypeOK, CliInv, CreateRequests,
     ec2Vars, groupVars, AskAddress, GoesOn
<1>4. CreateInv'
  BY CliAssumption DEF CreateInv, CreateRequests, IInv, accountVars,
     cloudVars, ec2Vars, groupVars, AskAddress, StatusReturns, GoesOn, Goto
<1>5. GroupInv'
  BY CliAssumption DEF GroupInv, IInv, ec2Vars, groupVars, AskAddress,
     StatusReturns, Asks, GoesOn
<1>6. InstanceInv'
  BY CliAssumption DEF InstanceInv, IInv, accountVars, cloudVars, ec2Vars,
     groupVars, AskAddress, GoesOn
<1>7. DeleteInv'
  BY CliAssumption DEF DeleteInv, IInv, accountVars, cloudVars, ec2Vars,
     groupVars, AskAddress, StatusReturns, GoesOn, Goto
<1>8. KeptByDelete'
  BY CliAssumption DEF KeptByDelete, IInv, accountVars, cloudVars, ec2Vars,
     groupVars, AskAddress
<1>9. AnswerInv'
  BY CliAssumption DEF AnswerInv, Present, IInv, TypeOK, CliTypeOK,
     accountVars, cloudVars, ec2Vars, AskAddress, StatusReturns, GoesOn, Goto
<1>10. QED
  BY <1>1, <1>2, <1>3, <1>4, <1>5, <1>6, <1>7, <1>8, <1>9 DEF IInv

LEMMA StartDeleteStep ==
  ASSUME IInv, NEW d \in Deleters, StartDelete(d),
         UNCHANGED <<at, ec2Vars>>
  PROVE  IInv'
<1>1. CliInv'
  BY CliAcceptDelete DEF IInv, StartDelete
<1>2. AccountTypeOK'
  BY CliAssumption DEF IInv, TypeOK, AccountTypeOK, cloudVars, StartDelete
<1>3. TypeOK'
  BY <1>1, <1>2, CliAssumption DEF IInv, TypeOK, CliInv, ec2Vars, groupVars
<1>4. CreateInv'
  BY CliAssumption DEF CreateInv, IInv, cloudVars, ec2Vars, groupVars,
     StartDelete, AcceptDelete, Goto
<1>5. GroupInv'
  BY CliAssumption DEF GroupInv, IInv, ec2Vars, groupVars, StartDelete,
     AcceptDelete
<1>6. InstanceInv'
  BY CliAssumption DEF InstanceInv, IInv, cloudVars, ec2Vars, groupVars,
     StartDelete
<1>7. DeleteInv'
  BY CliAssumption DEF DeleteInv, IInv, TypeOK, AccountTypeOK, cloudVars,
     ec2Vars, groupVars, StartDelete, AcceptDelete, Goto
<1>8. KeptByDelete'
  BY CliAssumption DEF KeptByDelete, IInv, cloudVars, ec2Vars, groupVars,
     StartDelete
<1>9. AnswerInv'
  BY CliAssumption DEF AnswerInv, Present, IInv, cloudVars, ec2Vars,
     StartDelete, AcceptDelete, Goto
<1>10. QED
  BY <1>1, <1>2, <1>3, <1>4, <1>5, <1>6, <1>7, <1>8, <1>9 DEF IInv

LEMMA LookupTaggedStep ==
  ASSUME IInv, NEW d \in Deleters, LookupTagged(d)
  PROVE  IInv'
<1>1. CliInv'
  BY CliUnchanged DEF IInv, LookupTagged, Lookup
<1>2. AccountTypeOK'
  BY CliAssumption DEF IInv, TypeOK, AccountTypeOK, cloudVars, LookupTagged,
     Lookup
<1>3. TypeOK'
  BY <1>1, <1>2, CliAssumption DEF IInv, TypeOK, CliInv, ec2Vars, groupVars,
     LookupTagged
<1>4. CreateInv'
  BY CliAssumption DEF CreateInv, IInv, cloudVars, ec2Vars, groupVars,
     cliVars, LookupTagged, Lookup
<1>5. GroupInv'
  BY CliAssumption DEF GroupInv, IInv, ec2Vars, groupVars, cliVars,
     LookupTagged, Lookup
<1>6. InstanceInv'
  BY CliAssumption DEF InstanceInv, IInv, cloudVars, ec2Vars, groupVars,
     LookupTagged, Lookup
<1>7. DeleteInv'
  BY CliAssumption DEF DeleteInv, Present, Statuses, ActiveStatus, IInv,
     cloudVars, ec2Vars, groupVars, cliVars, LookupTagged, Lookup, Listed
<1>8. KeptByDelete'
  BY CliAssumption DEF KeptByDelete, IInv, cloudVars, ec2Vars, groupVars,
     LookupTagged, Lookup
<1>9. AnswerInv'
  BY CliAssumption DEF AnswerInv, Present, IInv, cloudVars, ec2Vars, cliVars,
     LookupTagged, Lookup
<1>10. QED
  BY <1>1, <1>2, <1>3, <1>4, <1>5, <1>6, <1>7, <1>8, <1>9 DEF IInv

LEMMA DescribeStep ==
  ASSUME IInv, NEW d \in Deleters, Describe(d)
  PROVE  IInv'
<1>1. CliInv'
  BY CliUnchanged DEF IInv, Describe
<1>2. AccountTypeOK'
  BY CliAssumption DEF IInv, TypeOK, AccountTypeOK, accountVars, cloudVars,
     Describe
<1>3. TypeOK'
  <2>1. groups' \in [Deleters -> SUBSET GroupIds]
    BY DEF IInv, TypeOK, AccountTypeOK, Describe
  <2>2. at' \in [Runs -> CreateRequests \cup DeleteRequests]
    BY DEF IInv, TypeOK, DeleteRequests, Describe, GoesOn
  <2>3. group' \in [GroupIds -> {"absent", "present", "deleted"}]
    BY DEF IInv, TypeOK, Describe, groupVars
  <2>4. QED
    BY <1>1, <1>2, <2>1, <2>2, <2>3 DEF IInv, TypeOK, CliInv, Describe,
       groupVars
<1>4. CreateInv'
  BY CliAssumption DEF CreateInv, IInv, accountVars, cloudVars, groupVars,
     cliVars, Describe, GoesOn
<1>5. GroupInv'
  BY CliAssumption DEF GroupInv, IInv, groupVars, cliVars, Describe, GoesOn
<1>6. InstanceInv'
  BY CliAssumption DEF InstanceInv, IInv, accountVars, cloudVars, groupVars,
     Describe, GoesOn
<1>7. DeleteInv'
  BY CliAssumption DEF DeleteInv, DeleteRequests, ExitIsFinal, IInv, TypeOK,
     CliInv, Runs, accountVars, cloudVars, groupVars, cliVars, Describe, Asks,
     GoesOn
<1>8. KeptByDelete'
  BY CliAssumption DEF KeptByDelete, DeleteInv, IInv, accountVars, cloudVars,
     groupVars, Describe, Asks
<1>9. AnswerInv'
  BY CliAssumption DEF AnswerInv, Present, IInv, accountVars, cloudVars,
     cliVars, Describe, GoesOn
<1>10. QED
  BY <1>1, <1>2, <1>3, <1>4, <1>5, <1>6, <1>7, <1>8, <1>9 DEF IInv

LEMMA TerminateStep ==
  ASSUME IInv, NEW d \in Deleters, Terminate(d)
  PROVE  IInv'
<1>1. CliInv'
  BY CliUnchanged, CliDeleteFails DEF IInv, Terminate
<1>2. AccountTypeOK'
  BY CliAssumption, CloudAssumption, Ec2Assumption DEF IInv, TypeOK,
     AccountTypeOK, HostStates, cloudVars, Terminate, Erase
<1>3. TypeOK'
  BY <1>1, <1>2, CliAssumption, CloudAssumption, Ec2Assumption DEF IInv,
     TypeOK, CliInv, DeleteRequests, ec2Vars, groupVars, Terminate, GoesOn
<1>4. CreateInv'
  BY CliAssumption, CloudAssumption, Ec2Assumption DEF CreateInv, IInv,
     TypeOK, CliTypeOK, Runs, cloudVars, ec2Vars, groupVars, cliVars,
     Terminate, Erase, DeleteFails, GoesOn, Exit, Goto
<1>5. GroupInv'
  BY CliAssumption, CloudAssumption, Ec2Assumption DEF GroupInv, IInv, TypeOK,
     CliTypeOK, Runs, ec2Vars, groupVars, cliVars, Terminate, DeleteFails,
     GoesOn, Exit
<1>6. InstanceInv'
  BY CliAssumption, CloudAssumption, Ec2Assumption DEF InstanceInv,
     ActiveStatus, IInv, TypeOK, AccountTypeOK, Runs, cloudVars, ec2Vars,
     groupVars, Terminate, Erase, GoesOn
<1>7. DeleteInv'
  BY CliAssumption, CloudAssumption, Ec2Assumption DEF DeleteInv,
     DeleteRequests, InstanceInv, Present, IInv, TypeOK, AccountTypeOK,
     CliInv, CliTypeOK, Runs, cloudVars, ec2Vars, groupVars, cliVars,
     Terminate, Erase, DeleteFails, Asks, GoesOn, Exit, Goto
<1>8. KeptByDelete'
  BY CliAssumption, CloudAssumption, Ec2Assumption DEF KeptByDelete,
     DeleteInv, InstanceInv, CreateInv, IInv, TypeOK, AccountTypeOK,
     cloudVars, ec2Vars, groupVars, Terminate, Erase, Asks
<1>9. AnswerInv'
  BY CliAssumption, CloudAssumption, Ec2Assumption DEF AnswerInv, Present,
     Statuses, ActiveStatus, IInv, TypeOK, AccountTypeOK, CliTypeOK, Runs,
     cloudVars, ec2Vars, groupVars, cliVars, Terminate, Erase, DeleteFails,
     GoesOn, Exit, Goto
<1>10. QED
  BY <1>1, <1>2, <1>3, <1>4, <1>5, <1>6, <1>7, <1>8, <1>9 DEF IInv

LEMMA WaitUntilTerminatedStep ==
  ASSUME IInv, NEW d \in Deleters, WaitUntilTerminated(d)
  PROVE  IInv'
<1>1. CliInv'
  BY CliUnchanged DEF IInv, WaitUntilTerminated
<1>2. AccountTypeOK'
  BY CliAssumption DEF IInv, TypeOK, AccountTypeOK, accountVars, cloudVars,
     WaitUntilTerminated
<1>3. TypeOK'
  BY <1>1, <1>2, CliAssumption DEF IInv, TypeOK, CliInv, DeleteRequests,
     ec2Vars, groupVars, WaitUntilTerminated, GoesOn
<1>4. CreateInv'
  BY CliAssumption DEF CreateInv, IInv, accountVars, cloudVars, ec2Vars,
     groupVars, cliVars, WaitUntilTerminated, GoesOn
<1>5. GroupInv'
  BY CliAssumption DEF GroupInv, IInv, ec2Vars, groupVars, cliVars,
     WaitUntilTerminated, GoesOn
<1>6. InstanceInv'
  BY CliAssumption DEF InstanceInv, IInv, accountVars, cloudVars, ec2Vars,
     groupVars, WaitUntilTerminated, GoesOn
<1>7. DeleteInv'
  BY CliAssumption DEF DeleteInv, DeleteRequests, IInv, accountVars,
     cloudVars, ec2Vars, groupVars, cliVars, WaitUntilTerminated, Asks, GoesOn
<1>8. KeptByDelete'
  BY CliAssumption DEF KeptByDelete, IInv, accountVars, cloudVars, ec2Vars,
     groupVars, WaitUntilTerminated
<1>9. AnswerInv'
  BY CliAssumption DEF AnswerInv, Present, IInv, accountVars, cloudVars,
     ec2Vars, cliVars, WaitUntilTerminated, GoesOn
<1>10. QED
  BY <1>1, <1>2, <1>3, <1>4, <1>5, <1>6, <1>7, <1>8, <1>9 DEF IInv

LEMMA DeleteGroupStep ==
  ASSUME IInv, NEW d \in Deleters, DeleteGroup(d)
  PROVE  IInv'
<1>1. CliInv'
  BY CliUnchanged, CliDeleteFails DEF IInv, DeleteGroup
<1>2. AccountTypeOK'
  BY CliAssumption DEF IInv, TypeOK, AccountTypeOK, accountVars, cloudVars,
     DeleteGroup
<1>3. TypeOK'
  <2>1. groups' \in [Deleters -> SUBSET GroupIds]
    BY DEF IInv, TypeOK, AccountTypeOK, DeleteGroup
  <2>2. at' \in [Runs -> CreateRequests \cup DeleteRequests]
    BY DEF IInv, TypeOK, DeleteRequests, Runs, DeleteGroup
  <2>3. group' \in [GroupIds -> {"absent", "present", "deleted"}]
    BY DEF IInv, TypeOK, DeleteGroup
  <2>4. QED
    BY <1>1, <1>2, <2>1, <2>2, <2>3 DEF IInv, TypeOK, CliInv, DeleteGroup
<1>4. CreateInv'
  BY CliAssumption DEF CreateInv, IInv, TypeOK, CliTypeOK, Runs, accountVars,
     cloudVars, cliVars, DeleteGroup, DeleteFails, Exit, Goto
<1>5. GroupInv'
  BY CliAssumption DEF GroupInv, IInv, CliInv, CliTypeOK, Runs, cliVars,
     DeleteGroup, DeleteFails, Exit
<1>6. InstanceInv'
  BY CliAssumption DEF InstanceInv, IInv, accountVars, cloudVars, DeleteGroup
<1>7. DeleteInv'
  BY CliAssumption DEF DeleteInv, IInv, CliInv, CliTypeOK, Runs, accountVars,
     cloudVars, cliVars, DeleteGroup, DeleteFails, Asks, Exit, Goto
<1>8. KeptByDelete'
  BY CliAssumption DEF KeptByDelete, IInv, TypeOK, accountVars, cloudVars,
     DeleteGroup
<1>9. AnswerInv'
  BY CliAssumption DEF AnswerInv, Present, IInv, CliInv, CliTypeOK, Runs,
     accountVars, cloudVars, cliVars, DeleteGroup, DeleteFails, Exit, Goto
<1>10. QED
  BY <1>1, <1>2, <1>3, <1>4, <1>5, <1>6, <1>7, <1>8, <1>9 DEF IInv

LEMMA BootStep ==
  ASSUME IInv, NEW h \in HostIds, Boot(h),
         UNCHANGED <<at, ec2Vars>>
  PROVE  IInv'
<1>1. CliInv'
  BY CliUnchanged DEF IInv, Boot, cliVars
<1>2. AccountTypeOK'
  BY CliAssumption DEF IInv, TypeOK, AccountTypeOK, HostStates, Statuses, Boot
<1>3. TypeOK'
  BY <1>1, <1>2, CliAssumption DEF IInv, TypeOK, CliInv, ec2Vars, groupVars
<1>4. CreateInv'
  BY CliAssumption DEF CreateInv, IInv, ec2Vars, groupVars, cliVars, Boot
<1>5. GroupInv'
  BY CliAssumption DEF GroupInv, IInv, ec2Vars, groupVars, cliVars, Boot
<1>6. InstanceInv'
  BY CliAssumption DEF InstanceInv, Present, Statuses, ActiveStatus, IInv,
     ec2Vars, groupVars, Boot
<1>7. DeleteInv'
  BY CliAssumption DEF DeleteInv, Present, Statuses, ActiveStatus, IInv,
     ec2Vars, groupVars, cliVars, Boot
<1>8. KeptByDelete'
  BY CliAssumption DEF KeptByDelete, ActiveStatus, IInv, ec2Vars, groupVars,
     Boot
<1>9. AnswerInv'
  BY CliAssumption DEF AnswerInv, Present, IInv, TypeOK, AccountTypeOK,
     ec2Vars, cliVars, Boot
<1>10. QED
  BY <1>1, <1>2, <1>3, <1>4, <1>5, <1>6, <1>7, <1>8, <1>9 DEF IInv

LEMMA StopInstanceStep ==
  ASSUME IInv, NEW h \in HostIds, StopInstance(h)
  PROVE  IInv'
<1>1. CliInv'
  BY CliUnchanged DEF IInv, StopInstance, StopAndRelease, cliVars
<1>2. AccountTypeOK'
  BY CliAssumption DEF IInv, TypeOK, AccountTypeOK, HostStates, Statuses,
     StopInstance, StopAndRelease
<1>3. TypeOK'
  BY <1>1, <1>2, CliAssumption DEF IInv, TypeOK, CliInv, groupVars,
     StopInstance
<1>4. CreateInv'
  BY CliAssumption DEF CreateInv, IInv, groupVars, cliVars, StopInstance,
     StopAndRelease
<1>5. GroupInv'
  BY CliAssumption DEF GroupInv, IInv, groupVars, cliVars, StopInstance,
     StopAndRelease
<1>6. InstanceInv'
  BY CliAssumption DEF InstanceInv, Present, Statuses, ActiveStatus, IInv,
     groupVars, StopInstance, StopAndRelease
<1>7. DeleteInv'
  BY CliAssumption DEF DeleteInv, Present, Statuses, ActiveStatus, IInv,
     groupVars, cliVars, StopInstance, StopAndRelease
<1>8. KeptByDelete'
  BY CliAssumption DEF KeptByDelete, IInv, groupVars, StopInstance,
     StopAndRelease
<1>9. AnswerInv'
  BY CliAssumption DEF AnswerInv, Present, IInv, cliVars, StopInstance,
     StopAndRelease
<1>10. QED
  BY <1>1, <1>2, <1>3, <1>4, <1>5, <1>6, <1>7, <1>8, <1>9 DEF IInv

LEMMA TerminatedStep ==
  ASSUME IInv, NEW h \in HostIds, Terminated(h)
  PROVE  IInv'
<1>1. CliInv'
  BY CliUnchanged DEF IInv, Terminated
<1>2. AccountTypeOK'
  BY CliAssumption DEF IInv, TypeOK, AccountTypeOK, accountVars, cloudVars,
     Terminated
<1>3. TypeOK'
  BY <1>1, <1>2, CliAssumption DEF IInv, TypeOK, CliInv, Terminated
<1>4. CreateInv'
  BY CliAssumption DEF CreateInv, IInv, accountVars, cloudVars, cliVars,
     Terminated
<1>5. GroupInv'
  BY CliAssumption DEF GroupInv, IInv, cliVars, Terminated
<1>6. InstanceInv'
  BY CliAssumption DEF InstanceInv, IInv, accountVars, cloudVars, Terminated
<1>7. DeleteInv'
  BY CliAssumption DEF DeleteInv, IInv, accountVars, cloudVars, cliVars,
     Terminated
<1>8. KeptByDelete'
  BY CliAssumption DEF KeptByDelete, IInv, accountVars, cloudVars, Terminated
<1>9. AnswerInv'
  BY CliAssumption DEF AnswerInv, Present, IInv, accountVars, cloudVars,
     cliVars, Terminated
<1>10. QED
  BY <1>1, <1>2, <1>3, <1>4, <1>5, <1>6, <1>7, <1>8, <1>9 DEF IInv

----------------------------------------------------------------------------
(* Theorems                                                                *)

LEMMA NextIInv == IInv /\ [Next]_vars => IInv'
<1>. SUFFICES ASSUME IInv, [Next]_vars PROVE IInv'
  OBVIOUS
<1>1. CASE UNCHANGED vars
  <2>1. CliInv'
    BY <1>1, CliUnchanged DEF IInv, vars
  <2>2. RunsMove
    BY <1>1 DEF RunsMove, vars, cliVars
  <2>3. QED
    BY <2>1, <2>2, RunsMoveStep
<1>2. ASSUME NEW c \in Creators, CreateStep(c) PROVE IInv'
  BY <1>2, AcceptCreateStep, RejectArgsStep, PrintHostStep, HandleStatusStep,
     StatusFailsStep, CreateGroupStep, AuthorizeRulesStep, RunInstancesStep,
     RunRefusedStep, CleanUpStep, CreateTagsStep, ProvisionRefusedStep,
     AskHealthStep, AskAddressStep DEF CreateStep, Runs
<1>3. ASSUME NEW d \in Deleters, DeleteStep(d) PROVE IInv'
  BY <1>3, StartDeleteStep, RejectArgsStep, LookupTaggedStep, DescribeStep,
     TerminateStep, WaitUntilTerminatedStep, DeleteGroupStep, DeleteDoneStep,
     DeleteRefusedStep DEF DeleteStep, Runs
<1>4. ASSUME NEW p \in Runs, Kill(p) PROVE IInv'
  BY <1>4, KillStep
<1>5. ASSUME NEW h \in HostIds, CloudStep(h) PROVE IInv'
  BY <1>5, BootStep, StopInstanceStep, TerminatedStep DEF CloudStep
<1>6. QED
  BY <1>1, <1>2, <1>3, <1>4, <1>5 DEF Next

LEMMA Invariance == Spec => []IInv
BY InitIInv, NextIInv, PTL DEF Spec

(* Every variable keeps its type, and the loop of create its bound         *)
(* (create.go:347).                                                        *)
THEOREM TypeCorrect == Spec => []TypeOK
<1>1. IInv => TypeOK
  BY DEF IInv
<1>2. QED
  BY <1>1, Invariance, PTL

(* Two requests make up one Status, and whatever comes between them and    *)
(* after them, the summary is about the run's own instance and leads to it *)
(* unless the instance was stopped (ec2.go:124-157).                       *)
THEOREM SummaryLeadsToHostAlways == Spec => []SummaryLeadsToHost
<1>1. IInv => SummaryLeadsToHost
  BY CliAssumption DEF IInv, TypeOK, AccountTypeOK, CliInv, SummaryIsLast,
     AnswerInv, SummaryLeadsToHost
<1>2. QED
  BY <1>1, Invariance, PTL

(* A security group is left over only by runs that were killed or said     *)
(* that they failed, however many of them there are                        *)
(* (ec2.go:87-97, 178-202).                                                *)
THEOREM NoSilentGroupAlways == Spec => []NoSilentGroup
<1>1. IInv => NoSilentGroup
  <2>. SUFFICES ASSUME IInv, NEW g \in GroupIds, group[g] = "present"
                PROVE  \/ InUse(g)
                       \/ exit[maker[g]] \in {"running", "killed"}
                       \/ /\ exit[maker[g]] = "error"
                          /\ at[maker[g]] \in {"group", "rules", "cleanup"}
                       \/ \E d \in Deleters : exit[d] # "ok" /\ g \in groups[d]
    BY DEF NoSilentGroup
  <2>. DEFINE c == maker[g]
  <2>1. c \in Creators
    BY DEF IInv, GroupInv
  <2>. HIDE DEF c
  <2>2. CASE at[c] \in {"group", "rules", "run", "cleanup"}
    <3>1. exit[c] # "ok" /\ (at[c] = "run" => exit[c] # "error")
      BY <2>1, <2>2 DEF IInv, CreateInv, CliInv, ExitIsFinal, Runs
    <3>2. exit[c] \in {"running", "ok", "error", "killed"}
      BY <2>1 DEF IInv, CliInv, CliTypeOK, Runs
    <3>3. QED
      BY <2>2, <3>1, <3>2 DEF c
  <2>3. CASE at[c] \in {"tags", "health", "address"}
    <3>1. groupID[c] = g
      BY <2>1, <2>3 DEF IInv, GroupInv, c
    <3>2. PICK h \in HostIds : owner[h] = c
      BY <2>1, <2>3 DEF IInv, CreateInv
    <3>3. CASE host[h] # "deleted"
      BY <2>1, <3>1, <3>2, <3>3 DEF IInv, InstanceInv, InUse
    <3>4. CASE host[h] = "deleted"
      <4>1. PICK d \in Deleters : g \in groups[d]
        BY <2>1, <3>1, <3>2, <3>4 DEF IInv, KeptByDelete
      <4>2. exit[d] # "ok"
        BY <4>1 DEF IInv, DeleteInv
      <4>3. QED
        BY <4>1, <4>2
    <3>5. QED
      BY <3>3, <3>4
  <2>4. QED
    BY <2>1, <2>2, <2>3 DEF IInv, CreateInv, CreateRequests
<1>2. QED
  BY <1>1, Invariance, PTL

----------------------------------------------------------------------------
(* The promise: every step of the commands and of the cloud is a step of   *)
(* ExitServers or leaves its variables alone.                              *)

LEMMA AskKeeps ==
  ASSUME IInv, PromiseInv, NEW c \in Creators, AskHealth(c) \/ AskAddress(c)
  PROVE  PromiseInv' /\ Promised
<1>1. hostID[c] \in HostIds
  BY DEF IInv, CliInv, CliTypeOK, IdSinceProvision, AskHealth, AskAddress, Asks
<1>2. UNCHANGED <<host, wasUp, victim, hostID, printed>>
  BY DEF AskHealth, AskAddress, StatusReturns, accountVars, cloudVars
<1>3. \A b \in Creators : reply'[b].status = ActiveStatus =>
        \/ reply[b].status = ActiveStatus
        \/ b = c /\ host[hostID[c]] = ActiveStatus
  <2>1. CASE AskHealth(c)
    BY <2>1 DEF AskHealth, IInv, CliInv, CliTypeOK, Replies, ActiveStatus
  <2>2. CASE AskAddress(c)
    <3>1. reply' = [reply EXCEPT ![c] = [@ EXCEPT !.ip = addr[hostID[c]]]]
      BY <2>2 DEF AskAddress, StatusReturns
    <3>2. \A b \in Creators : reply'[b].status = reply[b].status
      BY <3>1 DEF IInv, CliInv, CliTypeOK, Replies
    <3>3. QED
      BY <3>2
  <2>3. QED
    BY <2>1, <2>2
<1>4. \A d \in Deleters : pc'[d] = pc[d]
  BY CliAssumption DEF AskHealth, AskAddress, StatusReturns, Goto, IInv, CliInv,
     CliTypeOK, Runs
<1>5. PromiseInv'
  BY <1>1, <1>2, <1>3, <1>4 DEF PromiseInv
<1>6. QED
  BY <1>2, <1>5, QuietRun DEF Promised

LEMMA PromiseStep == IInv /\ PromiseInv /\ [Next]_vars => PromiseInv' /\ Promised
<1>. SUFFICES ASSUME IInv, PromiseInv, [Next]_vars
              PROVE  PromiseInv' /\ Promised
  OBVIOUS
<1>. CliInv /\ AccountTypeOK
  BY DEF IInv, TypeOK
<1>1. ASSUME NEW c \in Creators, CreateStep(c) PROVE PromiseInv' /\ Promised
  <2>1. CASE RunInstances(c)
    <3>1. PICK h \in HostIds : Make(c, h)
      BY <2>1 DEF RunInstances
    <3>2. QED
      BY <2>1, <3>1, LaunchKeeps DEF RunInstances, Make
  <2>2. CASE CreateTags(c)
    BY <2>2, ProvisionKeeps DEF CreateTags, accountVars, cloudVars
  <2>3. CASE \/ CreateGroup(c) \/ AuthorizeRules(c) \/ RunRefused(c)
             \/ CleanUp(c) \/ ProvisionRefused(c)
    BY <2>3, QuietCreate DEF CreateGroup, AuthorizeRules, RunRefused, CleanUp,
       ProvisionRefused, accountVars, cloudVars
  <2>4. CASE AskHealth(c) \/ AskAddress(c)
    BY <2>4, AskKeeps
  <2>5. CASE /\ \/ AcceptCreate(c) \/ RejectArgs(c) \/ PrintHost(c)
                \/ HandleStatus(c) \/ StatusFails(c)
             /\ UNCHANGED <<accountVars, at, ec2Vars>>
    BY <2>5, QuietCreate, HandleStatusKeeps DEF accountVars, cloudVars
  <2>6. QED
    BY <1>1, <2>1, <2>2, <2>3, <2>4, <2>5 DEF CreateStep
<1>2. ASSUME NEW d \in Deleters, DeleteStep(d) PROVE PromiseInv' /\ Promised
  <2>1. CASE StartDelete(d) \/ LookupTagged(d)
    BY <2>1, AimKeeps DEF LookupTagged
  <2>2. CASE Terminate(d)
    <3>1. victim[d] \in HostIds
      BY <2>2 DEF IInv, DeleteInv, AccountTypeOK, Terminate, Asks
    <3>2. QED
      BY <2>2, <3>1, EraseKeeps, QuietDelete DEF Terminate, cloudVars
  <2>3. CASE \/ RejectArgs(d) /\ UNCHANGED accountVars
             \/ Describe(d) \/ WaitUntilTerminated(d) \/ DeleteGroup(d)
             \/ DeleteDone(d) \/ DeleteRefused(d)
    BY <2>3, QuietDelete DEF Describe, WaitUntilTerminated, DeleteGroup,
       DeleteDone, DeleteRefused, accountVars, cloudVars
  <2>4. QED
    BY <1>2, <2>1, <2>2, <2>3 DEF DeleteStep
<1>3. ASSUME NEW p \in Runs, Kill(p) PROVE PromiseInv' /\ Promised
  BY <1>3, InterruptKeeps DEF Kill, accountVars, cloudVars
<1>4. ASSUME NEW h \in HostIds, CloudStep(h) PROVE PromiseInv' /\ Promised
  BY <1>4, BootKeeps, StopKeeps, StutterKeeps DEF CloudStep, StopInstance,
     Terminated, accountVars, cloudVars
<1>5. CASE UNCHANGED vars
  BY <1>5, StutterKeeps DEF vars, accountVars, cloudVars
<1>6. QED
  BY <1>1, <1>2, <1>3, <1>4, <1>5 DEF Next

(* Groups, tags and the two questions of Status are invisible to the user: *)
(* create and delete against EC2 keep the promise that the one-request     *)
(* providers keep (README.md:67, ec2.go:124-205).                          *)
THEOREM Implements == Spec => KeepsThePromise
<1>1. Init => PromiseInv /\ Promise!Init
  BY PromiseInit, PromiseInvInit DEF Init
<1>2. IInv /\ PromiseInv /\ [Next]_vars =>
        PromiseInv' /\ [Promise!Next]_(Promise!serverVars)
  BY PromiseStep DEF Promised
<1>3. QED
  BY <1>1, <1>2, Invariance, PTL DEF Spec, KeepsThePromise, Promise!Spec

----------------------------------------------------------------------------
(* What EC2 shares with the providers of one request: one instance per     *)
(* run, a delete that hits its target, and by IP an exit-node only.        *)

RunsInv ==
  /\ OneHostPerRun
  /\ \A d \in Deleters :
       /\ at[d] \in {"wait", "groups"} => host[victim[d]] = "deleted"
       /\ exit[d] = "ok" => at[d] = "groups"
       /\ pc[d] = "args" => target[d] = NoAddr /\ victim[d] = NoHost

(* A step that makes no instance, aims no delete and takes none past the   *)
(* request that terminates its instance.                                   *)
RunsStay ==
  /\ UNCHANGED <<owner, target, victim>>
  /\ \A h \in HostIds : host[h] = "deleted" => host'[h] = "deleted"
  /\ \A d \in Deleters : pc'[d] = "args" => pc[d] = "args"
  /\ \A d \in Deleters :
       \/ at'[d] = at[d] /\ (exit'[d] = "ok" => exit[d] = "ok")
       \/ at'[d] = at[d] /\ at[d] = "groups"
       \/ at'[d] \in {"describe", "terminate"} /\ exit'[d] # "ok"

LEMMA RunsStayStep ==
  ASSUME IInv, RunsInv, RunsStay
  PROVE  RunsInv'
<1>1. \A d \in Deleters : at[d] \in {"wait", "groups"} => victim[d] \in HostIds
  BY DEF IInv, DeleteInv, TypeOK, AccountTypeOK
<1>2. OneHostPerRun'
  BY DEF RunsInv, OneHostPerRun, RunsStay
<1>3. QED
  BY <1>1, <1>2 DEF RunsInv, RunsStay

(* The hosts as the requests and the cloud change them.                    *)
LEMMA DeletedStays ==
  ASSUME AccountTypeOK,
         \/ UNCHANGED host
         \/ \E h \in HostIds : Boot(h) \/ StopInstance(h) \/ Erase(h)
         \/ \E c \in Creators : \E h \in HostIds : Make(c, h)
  PROVE  \A h \in HostIds : host[h] = "deleted" => host'[h] = "deleted"
BY DEF AccountTypeOK, Boot, StopInstance, StopAndRelease, Erase, Make, Present,
   Statuses, ActiveStatus

LEMMA CreatesStay ==
  ASSUME IInv, NEW c \in Creators, CreateStep(c), ~RunInstances(c)
  PROVE  RunsStay
<1>1. UNCHANGED accountVars
  BY DEF CreateStep, CreateGroup, AuthorizeRules, RunRefused, CleanUp,
     CreateTags, ProvisionRefused, AskHealth, AskAddress
<1>2. /\ \E r \in CreateRequests : at' \in {at, [at EXCEPT ![c] = r]}
      /\ \E k \in {"ok", "error"} : exit' \in {exit, [exit EXCEPT ![c] = k]}
      /\ \E l \in {"provision", "created", "status", "answered", "exited"} :
           pc' \in {pc, [pc EXCEPT ![c] = l]}
  BY DEF CreateStep, CreateGroup, AuthorizeRules, RunRefused, CleanUp,
     CreateTags, ProvisionRefused, AskHealth, AskAddress, CreateRequests,
     GoesOn, AcceptCreate, RejectArgs, PrintHost, HandleStatus, StatusFails,
     PrintSummary, NextRound, ProvisionFails, ProvisionReturns, StatusReturns,
     Exit, Goto, cliVars
<1>3. \A d \in Deleters :
        at'[d] = at[d] /\ exit'[d] = exit[d] /\ pc'[d] = pc[d]
  BY <1>2, CliAssumption DEF IInv, TypeOK, CliTypeOK, Runs
<1>4. QED
  BY <1>1, <1>3 DEF RunsStay, accountVars, cloudVars

LEMMA RunInstancesMakesOne ==
  ASSUME IInv, RunsInv, NEW c \in Creators, RunInstances(c)
  PROVE  RunsInv'
<1>1. PICK h \in HostIds : Make(c, h)
  BY DEF RunInstances
<1>. AccountTypeOK /\ InstanceInv /\ DeleteInv /\ OneHostPerRun
  BY DEF IInv, TypeOK, RunsInv
<1>2. at[c] = "run" /\ \A i \in HostIds : owner[i] # c
  BY DEF RunInstances, Asks, InstanceInv
<1>3. OneHostPerRun'
  BY <1>1, <1>2 DEF OneHostPerRun, Make, AccountTypeOK
<1>4. \A d \in Deleters :
        at'[d] = at[d] /\ exit'[d] = exit[d] /\ pc'[d] = pc[d]
  BY CliAssumption DEF RunInstances, GoesOn, cliVars, IInv, TypeOK, Runs
<1>5. /\ UNCHANGED <<target, victim>>
      /\ \A i \in HostIds : host[i] = "deleted" => host'[i] = "deleted"
  BY <1>1, DeletedStays DEF RunInstances
<1>6. \A d \in Deleters : at[d] \in {"wait", "groups"} => victim[d] \in HostIds
  BY DEF DeleteInv, AccountTypeOK
<1>7. QED
  BY <1>3, <1>4, <1>5, <1>6 DEF RunsInv

LEMMA DeletesHit ==
  ASSUME IInv, RunsInv, NEW d \in Deleters, DeleteStep(d)
  PROVE  RunsInv'
<1>. /\ AccountTypeOK /\ CliTypeOK /\ CliInv /\ DeleteInv /\ d \in Runs
     /\ at \in [Runs -> CreateRequests \cup DeleteRequests]
  BY DEF IInv, TypeOK, Runs
<1>1. \A e \in Deleters : e \in Runs
  BY DEF Runs
<1>2. CASE StartDelete(d) /\ UNCHANGED <<at, ec2Vars>>
  <2>1. /\ UNCHANGED <<host, owner, exit, at>>
        /\ at[d] = "describe" /\ exit[d] # "ok"
        /\ victim[d] = NoHost /\ target[d] = NoAddr
        /\ \A e \in Deleters \ {d} :
             /\ victim'[e] = victim[e] /\ target'[e] = target[e]
             /\ pc'[e] = pc[e]
        /\ victim'[d] = NoHost \/ target'[d] = NoAddr
        /\ pc'[d] = "delete"
    BY <1>1, <1>2 DEF RunsInv, Goto, CliTypeOK, StartDelete, AcceptDelete,
       cloudVars, DeleteInv, CliInv, ExitIsFinal, AccountTypeOK
  <2>2. QED
    BY <2>1, CloudAssumption, CliAssumption DEF RunsInv, OneHostPerRun
<1>3. CASE LookupTagged(d)
  <2>1. /\ UNCHANGED <<host, owner, pc, exit, at, target>>
        /\ pc[d] = "delete" /\ victim[d] = NoHost /\ victim'[d] \in tagged
        /\ \A e \in Deleters \ {d} : victim'[e] = victim[e]
    BY <1>3 DEF LookupTagged, Lookup, cliVars, cloudVars, AccountTypeOK
  <2>2. at[d] = "describe"
    BY <2>1 DEF IInv, TypeOK, DeleteInv
  <2>3. exit[d] # "ok"
    BY <1>3 DEF LookupTagged, Lookup, CliInv, ExitIsFinal
  <2>4. QED
    BY <2>1, <2>2, <2>3 DEF RunsInv, OneHostPerRun
<1>4. CASE Terminate(d)
  <2>1. victim[d] \in HostIds
    BY <1>4 DEF Terminate, Asks, DeleteInv, AccountTypeOK
  <2>2. host'[victim[d]] = "deleted"
    <3>1. CASE Erase(victim[d])
      BY <2>1, <3>1 DEF Erase, AccountTypeOK
    <3>2. CASE ~Present(victim[d]) /\ UNCHANGED cloudVars
      BY <1>4, <2>1, <3>2 DEF Terminate, Asks, Present, AccountTypeOK,
         HostStates, DeleteInv, cloudVars
    <3>3. QED
      BY <1>4, <3>1, <3>2 DEF Terminate
  <2>3. \A h \in HostIds : host[h] = "deleted" => host'[h] = "deleted"
    BY <1>4, <2>1, DeletedStays DEF Terminate, cloudVars
  <2>4. UNCHANGED <<owner, target, victim>>
    BY <1>4 DEF Terminate, Erase, cloudVars
  <2>5. \A e \in Deleters \ {d} :
          at'[e] = at[e] /\ exit'[e] = exit[e] /\ pc'[e] = pc[e]
    BY <1>1, <1>4 DEF Terminate, GoesOn, cliVars, DeleteFails, Exit, Goto,
       CliTypeOK
  <2>6. exit'[d] # "ok" /\ pc'[d] # "args"
    BY <1>4 DEF Terminate, Asks, cliVars, DeleteFails, Exit, Goto, CliTypeOK,
       CliInv, ExitIsFinal
  <2>7. \A e \in Deleters :
          at[e] \in {"wait", "groups"} => victim[e] \in HostIds
    BY DEF DeleteInv, AccountTypeOK
  <2>8. QED
    BY <2>2, <2>3, <2>4, <2>5, <2>6, <2>7 DEF RunsInv, OneHostPerRun
<1>5. CASE WaitUntilTerminated(d)
  <2>1. /\ UNCHANGED <<host, owner, target, victim, pc, exit>>
        /\ at[d] = "wait" /\ exit[d] # "ok"
        /\ \A e \in Deleters \ {d} : at'[e] = at[e]
    BY <1>1, <1>5 DEF WaitUntilTerminated, Asks, GoesOn, cliVars, accountVars,
       cloudVars, CliInv, ExitIsFinal
  <2>2. QED
    BY <2>1 DEF RunsInv, OneHostPerRun
<1>6. CASE \/ RejectArgs(d) /\ UNCHANGED <<accountVars, at, ec2Vars>>
           \/ Describe(d) \/ DeleteGroup(d) \/ DeleteDone(d)
           \/ DeleteRefused(d)
  <2>1. UNCHANGED accountVars
    BY <1>6 DEF Describe, DeleteGroup, DeleteDone, DeleteRefused
  <2>2. \A e \in Deleters \ {d} :
          at'[e] = at[e] /\ exit'[e] = exit[e] /\ pc'[e] = pc[e]
    BY <1>1, <1>6 DEF Describe, DeleteGroup, DeleteDone, DeleteRefused,
       RejectArgs, DeleteReturns, DeleteFails, Exit, Goto, GoesOn, cliVars,
       CliTypeOK
  <2>3. pc'[d] # "args"
    BY <1>6 DEF Describe, DeleteGroup, DeleteDone, DeleteRefused, Asks,
       RejectArgs, DeleteReturns, DeleteFails, Exit, Goto, cliVars, CliTypeOK
  <2>4. \/ at'[d] = at[d] /\ (exit'[d] = "ok" => exit[d] = "ok")
        \/ at'[d] = at[d] /\ at[d] = "groups"
        \/ at'[d] = "terminate" /\ exit'[d] # "ok"
    BY <1>6 DEF Describe, DeleteGroup, DeleteDone, DeleteRefused, Asks,
       RejectArgs, DeleteReturns, DeleteFails, Exit, GoesOn, cliVars,
       CliTypeOK, CliInv, ExitIsFinal
  <2>5. RunsStay
    BY <2>1, <2>2, <2>3, <2>4 DEF RunsStay, accountVars, cloudVars
  <2>6. QED
    BY <2>5, RunsStayStep
<1>7. QED
  BY <1>2, <1>3, <1>4, <1>5, <1>6 DEF DeleteStep

LEMMA RunsNext == IInv /\ RunsInv /\ [Next]_vars => RunsInv'
<1>. SUFFICES ASSUME IInv, RunsInv, [Next]_vars PROVE RunsInv'
  OBVIOUS
<1>. AccountTypeOK /\ CliTypeOK
  BY DEF IInv, TypeOK
<1>1. ASSUME NEW c \in Creators, CreateStep(c) PROVE RunsInv'
  BY <1>1, CreatesStay, RunInstancesMakesOne, RunsStayStep
<1>2. ASSUME NEW d \in Deleters, DeleteStep(d) PROVE RunsInv'
  BY <1>2, DeletesHit
<1>3. ASSUME NEW p \in Runs, Kill(p) PROVE RunsInv'
  <2>1. RunsStay
    BY <1>3 DEF Kill, Interrupt, Exit, Goto, CliTypeOK, Runs, RunsStay,
       accountVars, cloudVars
  <2>2. QED
    BY <2>1, RunsStayStep
<1>4. ASSUME NEW h \in HostIds, CloudStep(h) PROVE RunsInv'
  <2>1. \A i \in HostIds : host[i] = "deleted" => host'[i] = "deleted"
    BY <1>4, DeletedStays DEF CloudStep, Terminated, accountVars, cloudVars
  <2>2. UNCHANGED <<owner, target, victim, at, pc, exit>>
    BY <1>4 DEF CloudStep, Boot, StopInstance, StopAndRelease, Terminated,
       accountVars, cloudVars, cliVars
  <2>3. QED
    BY <2>1, <2>2, RunsStayStep DEF RunsStay
<1>5. CASE UNCHANGED vars
  <2>1. RunsStay
    BY <1>5 DEF RunsStay, vars, accountVars, cloudVars, cliVars
  <2>2. QED
    BY <2>1, RunsStayStep
<1>6. QED
  BY <1>1, <1>2, <1>3, <1>4, <1>5 DEF Next

LEMMA RunsInvariance == Spec => [](IInv /\ RunsInv)
<1>1. Init => RunsInv
  BY CliAssumption, CloudAssumption DEF Init, CliInit, AccountInit, RunsInv,
     OneHostPerRun, Runs
<1>2. QED
  BY <1>1, InitIInv, NextIInv, RunsNext, PTL DEF Spec

(* One run of create makes at most one instance, and one that exits with   *)
(* status 0 has printed its id, whichever request of Provision failed or   *)
(* lost its answer (ec2.go:73-121, create.go:339-344).                     *)
THEOREM OneKnownInstance == Spec => [](OneHostPerRun /\ NoSilentOrphan)
<1>1. IInv /\ RunsInv => OneHostPerRun
  BY DEF RunsInv
<1>2. ASSUME IInv, RunsInv, NEW h \in HostIds, NEW c \in Creators,
             owner[h] = c, exit[c] = "ok"
      PROVE  "id" \in printed[c] /\ hostID[c] = h
  <2>1. "id" \in printed[c] /\ hostID[c] # NoHost
    BY <1>2 DEF IInv, CliInv, IdSinceProvision
  <2>2. hostID[c] \in HostIds /\ owner[hostID[c]] = c
    BY <2>1, <1>2 DEF IInv, CliInv, CliTypeOK, AnswerInv
  <2>3. QED
    BY <1>2, <2>1, <2>2, CloudAssumption DEF RunsInv, OneHostPerRun
<1>3. IInv /\ RunsInv => NoSilentOrphan
  BY <1>2 DEF NoSilentOrphan
<1>4. QED
  BY <1>1, <1>3, RunsInvariance, PTL

(* A delete that reports success has terminated the instance it was aimed  *)
(* at, and nothing brings that back (ec2.go:180-202, delete.go:163).       *)
THEOREM DeletedIsGoneAlways == Spec => []DeletedIsGone
<1>1. IInv /\ RunsInv => DeletedIsGone
  BY DEF IInv, RunsInv, DeleteInv, DeletedIsGone
<1>2. QED
  BY <1>1, RunsInvariance, PTL

----------------------------------------------------------------------------
(* What is left of a host after a delete that reports success.             *)

(* A group belongs to the run that made it, to the instance of that run,   *)
(* and to the deletes of this instance.                                    *)
GroupsInv ==
  /\ \A c \in Creators : groupID[c] # NoGroup => maker[groupID[c]] = c
  /\ \A h \in HostIds : uses[h] # NoGroup =>
       owner[h] \in Creators /\ groupID[owner[h]] = uses[h]
  /\ \A d \in Deleters : \A g \in groups[d] :
       owner[victim[d]] \in Creators /\ groupID[owner[victim[d]]] = g

(* A delete that reports success and was the only one aimed at its         *)
(* instance has removed the security group with it, although its own list  *)
(* of groups is all it knows of them (ec2.go:180-202).                     *)
LoneDeleteLeavesNothing ==
  \A d \in Deleters : \A c \in Creators :
    /\ exit[d] = "ok"
    /\ \A e \in Deleters : victim[e] = victim[d] => e = d
    /\ owner[victim[d]] = c
    => group[groupID[c]] # "present"

LEMMA GroupsStayStep ==
  ASSUME IInv, GroupsInv, UNCHANGED <<groupID, maker, owner>>,
         \A h \in HostIds : uses'[h] \in {uses[h], NoGroup},
         \A d \in Deleters :
           /\ groups'[d] \subseteq groups[d]
           /\ groups[d] # {} => victim'[d] = victim[d]
  PROVE  GroupsInv'
BY DEF GroupsInv

LEMMA GroupsNext == IInv /\ GroupsInv /\ [Next]_vars => GroupsInv'
<1>. SUFFICES ASSUME IInv, GroupsInv, [Next]_vars PROVE GroupsInv'
  OBVIOUS
<1>. /\ TypeOK /\ AccountTypeOK /\ CreateInv /\ InstanceInv /\ DeleteInv
     /\ NoGroup \notin GroupIds /\ Nobody \notin Creators
  BY CloudAssumption, Ec2Assumption DEF IInv, TypeOK
<1>1. ASSUME NEW c \in Creators, CreateGroup(c) PROVE GroupsInv'
  <2>1. PICK g \in GroupIds :
          /\ group[g] = "absent"
          /\ maker' = [maker EXCEPT ![g] = c]
          /\ groupID' \in {groupID, [groupID EXCEPT ![c] = g]}
    BY <1>1 DEF CreateGroup
  <2>2. UNCHANGED <<owner, victim, groups, uses>>
    BY <1>1 DEF CreateGroup, accountVars, cloudVars
  <2>3. groupID[c] = NoGroup /\ \A h \in HostIds : owner[h] # c
    BY <1>1 DEF CreateGroup, Asks, CreateInv, InstanceInv
  <2>4. \A b \in Creators : groupID[b] # NoGroup => groupID[b] # g
    BY <2>1 DEF CreateInv
  <2>5. \A d \in Deleters : groups[d] # {} => victim[d] \in HostIds
    BY DEF DeleteInv, AccountTypeOK
  <2>6. \A b \in Creators : groupID'[b] # NoGroup => maker'[groupID'[b]] = b
    BY <2>1, <2>3, <2>4 DEF GroupsInv, TypeOK
  <2>7. \A b \in Creators \ {c} : groupID'[b] = groupID[b]
    BY <2>1 DEF TypeOK
  <2>8. QED
    BY <2>2, <2>3, <2>5, <2>6, <2>7 DEF GroupsInv
<1>2. ASSUME NEW c \in Creators, RunInstances(c) PROVE GroupsInv'
  <2>1. PICK h \in HostIds :
          /\ host[h] = "absent"
          /\ owner' = [owner EXCEPT ![h] = c]
          /\ uses' = [uses EXCEPT ![h] = groupID[c]]
    BY <1>2 DEF RunInstances, Make
  <2>2. UNCHANGED <<groupID, groups, maker, victim>>
    BY <1>2 DEF RunInstances
  <2>3. \A d \in Deleters : groups[d] # {} =>
          victim[d] \in HostIds /\ victim[d] # h
    BY <2>1 DEF DeleteInv, AccountTypeOK
  <2>4. \A i \in HostIds \ {h} : owner'[i] = owner[i] /\ uses'[i] = uses[i]
    BY <2>1 DEF AccountTypeOK, TypeOK
  <2>5. owner'[h] = c /\ uses'[h] = groupID[c]
    BY <2>1 DEF AccountTypeOK, TypeOK
  <2>6. QED
    BY <2>2, <2>3, <2>4, <2>5 DEF GroupsInv
<1>3. ASSUME NEW c \in Creators, CreateStep(c), ~CreateGroup(c),
             ~RunInstances(c)
      PROVE  GroupsInv'
  <2>1. UNCHANGED <<accountVars, groupID, groups, uses, maker>>
    BY <1>3 DEF CreateStep, AuthorizeRules, RunRefused, CleanUp, CreateTags,
       ProvisionRefused, AskHealth, AskAddress, ec2Vars, groupVars
  <2>2. QED
    BY <2>1, GroupsStayStep DEF accountVars, cloudVars
<1>4. ASSUME NEW d \in Deleters, Describe(d) PROVE GroupsInv'
  <2>1. /\ UNCHANGED <<owner, victim, groupID, uses, maker>>
        /\ groups' = [groups EXCEPT ![d] = {uses[victim[d]]} \ {NoGroup}]
        /\ victim[d] \in HostIds
    BY <1>4 DEF Describe, accountVars, cloudVars, groupVars, AccountTypeOK
  <2>2. QED
    BY <2>1 DEF GroupsInv, TypeOK
<1>5. ASSUME NEW d \in Deleters, DeleteStep(d), ~Describe(d) PROVE GroupsInv'
  <2>1. UNCHANGED <<owner, groupID, uses, maker>>
    BY <1>5 DEF DeleteStep, StartDelete, LookupTagged, Lookup, Terminate,
       Erase, WaitUntilTerminated, DeleteGroup, DeleteDone, DeleteRefused,
       accountVars, cloudVars, ec2Vars, groupVars
  <2>2. \A e \in Deleters : groups'[e] \subseteq groups[e]
    BY <1>5 DEF DeleteStep, StartDelete, LookupTagged, Terminate,
       WaitUntilTerminated, DeleteGroup, DeleteDone, DeleteRefused,
       ec2Vars, TypeOK
  <2>3. \A e \in Deleters : groups[e] # {} => victim'[e] = victim[e]
    <3>1. CASE StartDelete(d)
      BY <3>1 DEF StartDelete, AcceptDelete, DeleteInv, AccountTypeOK
    <3>2. CASE LookupTagged(d)
      BY <3>2 DEF LookupTagged, Lookup, DeleteInv, AccountTypeOK
    <3>3. QED
      BY <1>5, <3>1, <3>2 DEF DeleteStep, Terminate, WaitUntilTerminated,
         DeleteGroup, DeleteDone, DeleteRefused, accountVars
  <2>4. QED
    BY <2>1, <2>2, <2>3, GroupsStayStep
<1>6. ASSUME NEW p \in Runs, Kill(p) PROVE GroupsInv'
  BY <1>6, GroupsStayStep DEF Kill, accountVars, cloudVars, ec2Vars, groupVars
<1>7. ASSUME NEW h \in HostIds, CloudStep(h) PROVE GroupsInv'
  BY <1>7, GroupsStayStep DEF CloudStep, Boot, StopInstance, StopAndRelease,
     Terminated, accountVars, cloudVars, ec2Vars, groupVars, TypeOK
<1>8. CASE UNCHANGED vars
  BY <1>8, GroupsStayStep DEF vars, accountVars, cloudVars, ec2Vars, groupVars
<1>9. QED
  BY <1>1, <1>2, <1>3, <1>4, <1>5, <1>6, <1>7, <1>8 DEF Next

(* The group of an instance goes with it when one delete alone was aimed   *)
(* at it and reports success (ec2.go:180-202, delete.go:163).              *)
THEOREM LoneDeleteLeavesNothingAlways == Spec => []LoneDeleteLeavesNothing
<1>1. Init => GroupsInv
  BY DEF Init, GroupsInv
<1>2. IInv /\ RunsInv /\ GroupsInv => LoneDeleteLeavesNothing
  <2>. SUFFICES ASSUME IInv, RunsInv, GroupsInv,
                       NEW d \in Deleters, NEW c \in Creators,
                       exit[d] = "ok",
                       \A e \in Deleters : victim[e] = victim[d] => e = d,
                       owner[victim[d]] = c, group[groupID[c]] = "present"
                PROVE  FALSE
    BY DEF LoneDeleteLeavesNothing
  <2>. /\ TypeOK /\ AccountTypeOK /\ DeleteInv
       /\ NoGroup \notin GroupIds
    BY Ec2Assumption DEF IInv, TypeOK
  <2>1. at[d] = "groups" /\ victim[d] \in HostIds /\ groups[d] = {}
    BY DEF RunsInv, DeleteInv, AccountTypeOK
  <2>2. host[victim[d]] = "deleted"
    BY <2>1 DEF RunsInv
  <2>3. PICK e \in Deleters : groupID[c] \in groups[e]
    BY <2>1, <2>2 DEF IInv, KeptByDelete
  <2>4. owner[victim[e]] = c
    BY <2>3 DEF GroupsInv, TypeOK
  <2>5. victim[e] \in HostIds
    BY <2>3 DEF DeleteInv, AccountTypeOK
  <2>6. victim[e] = victim[d]
    BY <2>1, <2>4, <2>5, CloudAssumption DEF RunsInv, OneHostPerRun
  <2>7. QED
    BY <2>1, <2>3, <2>6
<1>3. QED
  BY <1>1, <1>2, InitIInv, NextIInv, GroupsNext, RunsInvariance, PTL DEF Spec

=============================================================================
