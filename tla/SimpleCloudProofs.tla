------------------------- MODULE SimpleCloudProofs -------------------------
(***************************************************************************)
(* Proofs about SingleCallCloud and ScriptCloud, for every set of runs,    *)
(* hosts, addresses and names and every number of polls.                   *)
(*                                                                         *)
(* None of the safety properties is inductive as it stands.  To what       *)
(* CliProofs says of every run, BaseInv adds what the code relies on       *)
(* silently: that a run holds the id of a host it made (HoldsOwn), that a  *)
(* host keeps its address for as long as it exists (AccountInv), and that  *)
(* a delete is aimed once (DeleteInv).  Where no client sends a request    *)
(* again, IInv adds which runs have made a host already (KnowsItsHost).    *)
(* ScriptCloud changes the account by the same requests, but repeats them, *)
(* so that its proofs, at the end, take BaseInv over and add what there is *)
(* to say of the scripts.                                                  *)
(***************************************************************************)
EXTENDS SingleCallCloud, ScriptCloud, CloudAccountProofs, FiniteSetTheorems

(* The id a run holds is that of a host it made.                           *)
HoldsOwn ==
  \A c \in Creators : hostID[c] # NoHost => owner[hostID[c]] = c

(* A host nobody has launched has no owner and has not been up, and no     *)
(* delete is aimed at it.                                                  *)
AbsentIsUntouched ==
  \A h \in HostIds : host[h] = "absent" =>
    /\ owner[h] = Nobody
    /\ h \notin wasUp
    /\ \A d \in Deleters : victim[d] # h

(* A host that has been up is up and has an address until it is deleted.   *)
UpIsAddressed ==
  \A h \in HostIds :
    /\ host[h] = ActiveStatus => h \in wasUp
    /\ h \in wasUp /\ Present(h) => addr[h] # NoAddr

(* The answer a run acts upon may be old, but it was true of its host.     *)
AnswerWasTrue ==
  \A c \in Creators : reply[c].status = ActiveStatus =>
    /\ hostID[c] \in wasUp
    /\ Present(hostID[c]) => addr[hostID[c]] = reply[c].ip

AccountInv == AbsentIsUntouched /\ UpIsAddressed /\ AnswerWasTrue

DeleteNotAimedYet ==
  \A d \in Deleters : pc[d] = "args" => target[d] = NoAddr /\ victim[d] = NoHost

DeleteInv == DeleteNotAimedYet /\ DeleteHitsItsTarget

BaseInv ==
  /\ TypeOK
  /\ CliInv
  /\ HoldsOwn
  /\ AccountInv
  /\ DeleteInv

(* A run makes its host with the step that ends its Provision, and does    *)
(* not know its host only if it ended badly.                               *)
KnowsItsHost ==
  \A c \in Creators :
    /\ pc[c] \in {"args", "provision"} => \A h \in HostIds : owner[h] # c
    /\ \A h \in HostIds :
         owner[h] = c => hostID[c] = h \/ exit[c] \in {"error", "killed"}

IInv == BaseInv /\ KnowsItsHost /\ OneHostPerRun

(* A step of a run that leaves the account alone.                          *)
RunsMove ==
  /\ UNCHANGED <<cloudVars, target, victim, hostID, reply>>
  /\ \A p \in Runs : pc[p] # "args" => pc'[p] # "args"
  /\ \A c \in Creators : pc[c] \notin {"args", "provision"} =>
       pc'[c] # "provision"
  /\ \A p \in Runs : exit[p] # "running" => exit'[p] = exit[p]
  /\ \A d \in Deleters : exit'[d] = "ok" => exit[d] = "ok"

----------------------------------------------------------------------------
(* The initial states                                                      *)

LEMMA InitBase == Init => BaseInv
<1>. SUFFICES ASSUME Init PROVE BaseInv
  OBVIOUS
<1>1. CliInv
  BY CliInvInit DEF Init
<1>2. TypeOK
  BY <1>1, CliAssumption, CloudAssumption DEF Init, AccountInit, TypeOK,
     CliInv, AccountTypeOK, HostStates, Statuses
<1>3. HoldsOwn
  BY CloudAssumption DEF Init, CliInit, AccountInit, HoldsOwn
<1>4. AccountInv
  BY CliAssumption, CloudAssumption DEF Init, CliInit, AccountInit,
     AccountInv, AbsentIsUntouched, UpIsAddressed, AnswerWasTrue, NoReply,
     ActiveStatus
<1>5. DeleteInv
  BY DEF Init, CliInit, AccountInit, DeleteInv, DeleteNotAimedYet,
     DeleteHitsItsTarget, Runs
<1>6. QED
  BY <1>1, <1>2, <1>3, <1>4, <1>5 DEF BaseInv

----------------------------------------------------------------------------
(* Steps of a run that leave the account alone                             *)

LEMMA RunsMoveStep ==
  ASSUME BaseInv, CliInv', RunsMove
  PROVE  BaseInv'
<1>1. TypeOK'
  BY DEF BaseInv, TypeOK, CliInv, AccountTypeOK, RunsMove, cloudVars
<1>2. HoldsOwn'
  BY DEF BaseInv, HoldsOwn, CliInv, CliTypeOK, ExitIsFinal, RunsMove, cloudVars,
     Runs
<1>3. AccountInv'
  BY DEF BaseInv, AccountInv, AbsentIsUntouched, UpIsAddressed,
     AnswerWasTrue, Present, RunsMove, cloudVars
<1>4. DeleteInv'
  BY DEF BaseInv, DeleteInv, DeleteNotAimedYet, DeleteHitsItsTarget, Present,
     RunsMove, cloudVars, Runs
<1>5. QED
  BY <1>1, <1>2, <1>3, <1>4 DEF BaseInv

LEMMA AcceptCreateStep ==
  ASSUME BaseInv, NEW c \in Creators, AcceptCreate(c),
         UNCHANGED <<cloudVars, target, victim>>
  PROVE  BaseInv'
<1>1. CliInv'
  BY CliAcceptCreate DEF BaseInv
<1>2. RunsMove
  BY CliAssumption DEF RunsMove, AcceptCreate, Goto, BaseInv, CliInv,
     CliTypeOK, ExitIsFinal, Runs
<1>3. QED
  BY <1>1, <1>2, RunsMoveStep

LEMMA RejectArgsStep ==
  ASSUME BaseInv, NEW p \in Runs, RejectArgs(p),
         UNCHANGED <<cloudVars, target, victim>>
  PROVE  BaseInv'
<1>1. CliInv'
  BY CliRejectArgs DEF BaseInv
<1>2. RunsMove
  BY DEF RunsMove, RejectArgs, Exit, Goto, BaseInv, CliInv, CliTypeOK,
     ExitIsFinal, Runs
<1>3. QED
  BY <1>1, <1>2, RunsMoveStep

LEMMA PrintHostStep ==
  ASSUME BaseInv, NEW c \in Creators, PrintHost(c),
         UNCHANGED <<cloudVars, target, victim>>
  PROVE  BaseInv'
<1>1. CliInv'
  BY CliPrintHost DEF BaseInv
<1>2. RunsMove
  BY CliAssumption DEF RunsMove, PrintHost, Goto, BaseInv, CliInv, CliTypeOK,
     ExitIsFinal, Runs
<1>3. QED
  BY <1>1, <1>2, RunsMoveStep

LEMMA HandleStatusStep ==
  ASSUME BaseInv, NEW c \in Creators, HandleStatus(c),
         UNCHANGED <<cloudVars, target, victim>>
  PROVE  BaseInv'
<1>1. CliInv'
  BY CliHandleStatus DEF BaseInv
<1>2. RunsMove
  BY CliAssumption DEF RunsMove, HandleStatus, PrintSummary, NextRound,
     Exit, Goto, BaseInv, CliInv, CliTypeOK, ExitIsFinal, Runs
<1>3. QED
  BY <1>1, <1>2, RunsMoveStep

LEMMA ProvisionRefusedStep ==
  ASSUME BaseInv, NEW c \in Creators, ProvisionRefused(c)
  PROVE  BaseInv'
<1>1. CliInv'
  BY CliProvisionFails DEF BaseInv, ProvisionRefused
<1>2. RunsMove
  BY CliAssumption DEF RunsMove, ProvisionRefused, ProvisionFails, Exit,
     Goto, BaseInv, CliInv, CliTypeOK, ExitIsFinal, Runs
<1>3. QED
  BY <1>1, <1>2, RunsMoveStep

LEMMA StatusRefusedStep ==
  ASSUME BaseInv, NEW c \in Creators, StatusRefused(c)
  PROVE  BaseInv'
<1>1. CliInv'
  BY CliStatusFails DEF BaseInv, StatusRefused
<1>2. RunsMove
  BY CliAssumption DEF RunsMove, StatusRefused, StatusFails, Exit, Goto,
     BaseInv, CliInv, CliTypeOK, ExitIsFinal, Runs
<1>3. QED
  BY <1>1, <1>2, RunsMoveStep

LEMMA DeleteRefusedStep ==
  ASSUME BaseInv, NEW d \in Deleters, DeleteRefused(d)
  PROVE  BaseInv'
<1>1. CliInv'
  BY CliDeleteFails DEF BaseInv, DeleteRefused
<1>2. RunsMove
  BY CliAssumption DEF RunsMove, DeleteRefused, DeleteFails, Exit, Goto,
     BaseInv, CliInv, CliTypeOK, ExitIsFinal, Runs
<1>3. QED
  BY <1>1, <1>2, RunsMoveStep

LEMMA KillStep ==
  ASSUME BaseInv, NEW p \in Runs, Kill(p)
  PROVE  BaseInv'
<1>1. CliInv'
  BY CliInterrupt DEF BaseInv, Kill
<1>2. RunsMove
  BY CliAssumption DEF RunsMove, Kill, Interrupt, Exit, Goto, BaseInv,
     CliInv, CliTypeOK, ExitIsFinal, Runs
<1>3. QED
  BY <1>1, <1>2, RunsMoveStep

----------------------------------------------------------------------------
(* Requests and the cloud                                                  *)

LEMMA ProvisionStep ==
  ASSUME BaseInv, NEW c \in Creators, Provision(c)
  PROVE  BaseInv'
<1>1. CliInv'
  BY CliProvisionReturns, CliProvisionFails DEF BaseInv, Provision
<1>2. TypeOK'
  BY <1>1, CliAssumption, CloudAssumption DEF BaseInv, TypeOK, CliInv,
     AccountTypeOK, HostStates, Statuses, cloudVars, Provision, Make,
     ProvisionReturns, ProvisionFails, Exit, Goto
<1>3. HoldsOwn'
  BY CliAssumption, CloudAssumption DEF HoldsOwn, AccountInv,
     AbsentIsUntouched, ExitIsFinal, IdSinceProvision, BaseInv, TypeOK,
     AccountTypeOK, CliInv, CliTypeOK, Runs, cloudVars, cliVars,
     Provision, Make, ProvisionReturns, ProvisionFails, Exit, Goto
<1>4. AccountInv'
  BY CliAssumption, CloudAssumption DEF AccountInv, AbsentIsUntouched,
     UpIsAddressed, AnswerWasTrue, HoldsOwn, DeleteInv,
     DeleteNotAimedYet, IdSinceProvision, Present, Statuses, ActiveStatus,
     BaseInv, TypeOK, AccountTypeOK, CliInv, CliTypeOK, Runs, cloudVars,
     cliVars, Provision, Make, ProvisionReturns, ProvisionFails, Exit,
     Goto
<1>5. DeleteInv'
  BY CliAssumption, CloudAssumption DEF DeleteInv, DeleteNotAimedYet,
     DeleteHitsItsTarget, AccountInv, AbsentIsUntouched, ExitIsFinal,
     Present, Statuses, ActiveStatus, BaseInv, TypeOK, AccountTypeOK, CliInv,
     CliTypeOK, Runs, cloudVars, cliVars, Provision, Make,
     ProvisionReturns, ProvisionFails, Exit, Goto
<1>6. QED
  BY <1>1, <1>2, <1>3, <1>4, <1>5 DEF BaseInv

LEMMA StatusStep ==
  ASSUME BaseInv, NEW c \in Creators, Status(c)
  PROVE  BaseInv'
<1>1. CliInv'
  <2>. DEFINE r == [status |-> host[hostID[c]], ip |-> addr[hostID[c]]]
  <2>1. StatusReturns(c, r) /\ Present(hostID[c])
    BY DEF Status
  <2>2. hostID[c] \in HostIds
    BY <2>1 DEF BaseInv, CliInv, CliTypeOK, IdSinceProvision, StatusReturns
  <2>3. r \in Replies
    BY <2>1, <2>2 DEF Replies, Present, BaseInv, TypeOK, AccountTypeOK
  <2>. HIDE DEF r
  <2>4. QED
    BY <2>1, <2>3, CliStatusReturns DEF BaseInv
<1>2. TypeOK'
  BY <1>1, CliAssumption, CloudAssumption DEF BaseInv, TypeOK, CliInv,
     AccountTypeOK, HostStates, Statuses, cloudVars, Status,
     StatusReturns, Goto
<1>3. HoldsOwn'
  BY CliAssumption, CloudAssumption DEF HoldsOwn, AccountInv,
     AbsentIsUntouched, ExitIsFinal, IdSinceProvision, BaseInv, TypeOK,
     AccountTypeOK, CliInv, CliTypeOK, Runs, cloudVars, cliVars, Status,
     StatusReturns, Goto
<1>4. AccountInv'
  BY CliAssumption, CloudAssumption DEF AccountInv, AbsentIsUntouched,
     UpIsAddressed, AnswerWasTrue, HoldsOwn, DeleteInv,
     DeleteNotAimedYet, IdSinceProvision, Present, Statuses, ActiveStatus,
     BaseInv, TypeOK, AccountTypeOK, CliInv, CliTypeOK, Runs, cloudVars,
     cliVars, Status, StatusReturns, Goto
<1>5. DeleteInv'
  BY CliAssumption, CloudAssumption DEF DeleteInv, DeleteNotAimedYet,
     DeleteHitsItsTarget, AccountInv, AbsentIsUntouched, ExitIsFinal,
     Present, Statuses, ActiveStatus, BaseInv, TypeOK, AccountTypeOK, CliInv,
     CliTypeOK, Runs, cloudVars, cliVars, Status, StatusReturns, Goto
<1>6. QED
  BY <1>1, <1>2, <1>3, <1>4, <1>5 DEF BaseInv

LEMMA StartDeleteStep ==
  ASSUME BaseInv, NEW d \in Deleters, StartDelete(d)
  PROVE  BaseInv'
<1>1. CliInv'
  BY CliAcceptDelete DEF BaseInv, StartDelete
<1>2. TypeOK'
  BY <1>1, CliAssumption, CloudAssumption DEF BaseInv, TypeOK, CliInv,
     AccountTypeOK, HostStates, Statuses, cloudVars, StartDelete,
     AcceptDelete, Goto
<1>3. HoldsOwn'
  BY CliAssumption, CloudAssumption DEF HoldsOwn, AccountInv,
     AbsentIsUntouched, ExitIsFinal, IdSinceProvision, BaseInv, TypeOK,
     AccountTypeOK, CliInv, CliTypeOK, Runs, cloudVars, cliVars,
     StartDelete, AcceptDelete, Goto
<1>4. AccountInv'
  BY CliAssumption, CloudAssumption DEF AccountInv, AbsentIsUntouched,
     UpIsAddressed, AnswerWasTrue, HoldsOwn, DeleteInv,
     DeleteNotAimedYet, IdSinceProvision, Present, Statuses, ActiveStatus,
     BaseInv, TypeOK, AccountTypeOK, CliInv, CliTypeOK, Runs, cloudVars,
     cliVars, StartDelete, AcceptDelete, Goto
<1>5. DeleteInv'
  BY CliAssumption, CloudAssumption DEF DeleteInv, DeleteNotAimedYet,
     DeleteHitsItsTarget, AccountInv, AbsentIsUntouched, ExitIsFinal,
     Present, Statuses, ActiveStatus, BaseInv, TypeOK, AccountTypeOK, CliInv,
     CliTypeOK, Runs, cloudVars, cliVars, StartDelete, AcceptDelete, Goto
<1>6. QED
  BY <1>1, <1>2, <1>3, <1>4, <1>5 DEF BaseInv

LEMMA LookupStep ==
  ASSUME BaseInv, NEW d \in Deleters, Lookup(d)
  PROVE  BaseInv'
<1>1. CliInv'
  BY CliUnchanged DEF BaseInv, Lookup
<1>2. TypeOK'
  BY <1>1, CliAssumption, CloudAssumption DEF BaseInv, TypeOK, CliInv,
     AccountTypeOK, HostStates, Statuses, cloudVars, Lookup, Listed
<1>3. HoldsOwn'
  BY CliAssumption, CloudAssumption DEF HoldsOwn, AccountInv,
     AbsentIsUntouched, ExitIsFinal, IdSinceProvision, BaseInv, TypeOK,
     AccountTypeOK, CliInv, CliTypeOK, Runs, cloudVars, cliVars, Lookup,
     Listed
<1>4. AccountInv'
  BY CliAssumption, CloudAssumption DEF AccountInv, AbsentIsUntouched,
     UpIsAddressed, AnswerWasTrue, HoldsOwn, DeleteInv,
     DeleteNotAimedYet, IdSinceProvision, Present, Statuses, ActiveStatus,
     BaseInv, TypeOK, AccountTypeOK, CliInv, CliTypeOK, Runs, cloudVars,
     cliVars, Lookup, Listed
<1>5. DeleteInv'
  BY CliAssumption, CloudAssumption DEF DeleteInv, DeleteNotAimedYet,
     DeleteHitsItsTarget, AccountInv, AbsentIsUntouched, ExitIsFinal,
     Present, Statuses, ActiveStatus, BaseInv, TypeOK, AccountTypeOK, CliInv,
     CliTypeOK, Runs, cloudVars, cliVars, Lookup, Listed
<1>6. QED
  BY <1>1, <1>2, <1>3, <1>4, <1>5 DEF BaseInv

LEMMA RemoveStep ==
  ASSUME BaseInv, NEW d \in Deleters, Remove(d)
  PROVE  BaseInv'
<1>1. CliInv'
  BY CliDeleteReturns, CliDeleteFails DEF BaseInv, Remove
<1>2. TypeOK'
  BY <1>1, CliAssumption, CloudAssumption DEF BaseInv, TypeOK, CliInv,
     AccountTypeOK, HostStates, Statuses, cloudVars, Remove, Erase,
     DeleteReturns, DeleteFails, Exit, Goto
<1>3. HoldsOwn'
  BY CliAssumption, CloudAssumption DEF HoldsOwn, AccountInv,
     AbsentIsUntouched, ExitIsFinal, IdSinceProvision, BaseInv, TypeOK,
     AccountTypeOK, CliInv, CliTypeOK, Runs, cloudVars, cliVars, Remove,
     Erase, DeleteReturns, DeleteFails, Exit, Goto
<1>4. AccountInv'
  BY CliAssumption, CloudAssumption DEF AccountInv, AbsentIsUntouched,
     UpIsAddressed, AnswerWasTrue, HoldsOwn, DeleteInv,
     DeleteNotAimedYet, IdSinceProvision, Present, Statuses, ActiveStatus,
     BaseInv, TypeOK, AccountTypeOK, CliInv, CliTypeOK, Runs, cloudVars,
     cliVars, Remove, Erase, DeleteReturns, DeleteFails, Exit, Goto
<1>5. DeleteInv'
  BY CliAssumption, CloudAssumption DEF DeleteInv, DeleteNotAimedYet,
     DeleteHitsItsTarget, AccountInv, AbsentIsUntouched, ExitIsFinal,
     Present, Statuses, ActiveStatus, BaseInv, TypeOK, AccountTypeOK, CliInv,
     CliTypeOK, Runs, cloudVars, cliVars, Remove, Erase, DeleteReturns,
     DeleteFails, Exit, Goto
<1>6. QED
  BY <1>1, <1>2, <1>3, <1>4, <1>5 DEF BaseInv

LEMMA BootStep ==
  ASSUME BaseInv, NEW h \in HostIds, Boot(h)
  PROVE  BaseInv'
<1>1. CliInv'
  BY CliUnchanged DEF BaseInv, Boot, cliVars
<1>2. TypeOK'
  BY <1>1, CliAssumption, CloudAssumption DEF BaseInv, TypeOK, CliInv,
     AccountTypeOK, HostStates, Statuses, cloudVars, Boot
<1>3. HoldsOwn'
  BY CliAssumption, CloudAssumption DEF HoldsOwn, AccountInv,
     AbsentIsUntouched, ExitIsFinal, IdSinceProvision, BaseInv, TypeOK,
     AccountTypeOK, CliInv, CliTypeOK, Runs, cloudVars, cliVars, Boot
<1>4. AccountInv'
  BY CliAssumption, CloudAssumption DEF AccountInv, AbsentIsUntouched,
     UpIsAddressed, AnswerWasTrue, HoldsOwn, DeleteInv,
     DeleteNotAimedYet, IdSinceProvision, Present, Statuses, ActiveStatus,
     BaseInv, TypeOK, AccountTypeOK, CliInv, CliTypeOK, Runs, cloudVars,
     cliVars, Boot
<1>5. DeleteInv'
  BY CliAssumption, CloudAssumption DEF DeleteInv, DeleteNotAimedYet,
     DeleteHitsItsTarget, AccountInv, AbsentIsUntouched, ExitIsFinal,
     Present, Statuses, ActiveStatus, BaseInv, TypeOK, AccountTypeOK, CliInv,
     CliTypeOK, Runs, cloudVars, cliVars, Boot
<1>6. QED
  BY <1>1, <1>2, <1>3, <1>4, <1>5 DEF BaseInv

LEMMA StopStep ==
  ASSUME BaseInv, NEW h \in HostIds, Stop(h)
  PROVE  BaseInv'
<1>1. CliInv'
  BY CliUnchanged DEF BaseInv, Stop, cliVars
<1>2. TypeOK'
  BY <1>1, CliAssumption, CloudAssumption DEF BaseInv, TypeOK, CliInv,
     AccountTypeOK, HostStates, Statuses, cloudVars, Stop
<1>3. HoldsOwn'
  BY CliAssumption, CloudAssumption DEF HoldsOwn, AccountInv,
     AbsentIsUntouched, ExitIsFinal, IdSinceProvision, BaseInv, TypeOK,
     AccountTypeOK, CliInv, CliTypeOK, Runs, cloudVars, cliVars, Stop
<1>4. AccountInv'
  BY CliAssumption, CloudAssumption DEF AccountInv, AbsentIsUntouched,
     UpIsAddressed, AnswerWasTrue, HoldsOwn, DeleteInv,
     DeleteNotAimedYet, IdSinceProvision, Present, Statuses, ActiveStatus,
     BaseInv, TypeOK, AccountTypeOK, CliInv, CliTypeOK, Runs, cloudVars,
     cliVars, Stop
<1>5. DeleteInv'
  BY CliAssumption, CloudAssumption DEF DeleteInv, DeleteNotAimedYet,
     DeleteHitsItsTarget, AccountInv, AbsentIsUntouched, ExitIsFinal,
     Present, Statuses, ActiveStatus, BaseInv, TypeOK, AccountTypeOK, CliInv,
     CliTypeOK, Runs, cloudVars, cliVars, Stop
<1>6. QED
  BY <1>1, <1>2, <1>3, <1>4, <1>5 DEF BaseInv

(* A host is made by a request whose answer is lost, and its run goes on.  *)
LEMMA MakeStep ==
  ASSUME BaseInv, NEW c \in Creators, pc[c] = "provision",
         NEW h \in HostIds, Make(c, h), UNCHANGED <<cliVars, target, victim>>
  PROVE  BaseInv'
<1>1. CliInv'
  BY CliUnchanged DEF BaseInv
<1>2. TypeOK'
  BY <1>1, CliAssumption, CloudAssumption DEF BaseInv, TypeOK, CliInv,
     AccountTypeOK, HostStates, Statuses, Make
<1>3. HoldsOwn'
  BY CliAssumption, CloudAssumption DEF HoldsOwn, AccountInv,
     AbsentIsUntouched, BaseInv, TypeOK, AccountTypeOK, CliInv, CliTypeOK,
     cliVars, Make
<1>4. AccountInv'
  BY CliAssumption, CloudAssumption DEF AccountInv, AbsentIsUntouched,
     UpIsAddressed, AnswerWasTrue, DeleteInv, DeleteNotAimedYet, Present,
     Statuses, ActiveStatus, BaseInv, TypeOK, AccountTypeOK, CliInv,
     CliTypeOK, Runs, cliVars, Make
<1>5. DeleteInv'
  BY CliAssumption, CloudAssumption DEF DeleteInv, DeleteNotAimedYet,
     DeleteHitsItsTarget, AccountInv, AbsentIsUntouched, Present, Statuses,
     ActiveStatus, BaseInv, TypeOK, AccountTypeOK, CliInv, CliTypeOK, Runs,
     cliVars, Make
<1>6. QED
  BY <1>1, <1>2, <1>3, <1>4, <1>5 DEF BaseInv

LEMMA BaseStutter ==
  ASSUME BaseInv, UNCHANGED vars
  PROVE  BaseInv'
<1>1. CliInv'
  BY CliUnchanged DEF BaseInv, vars
<1>2. RunsMove
  BY DEF RunsMove, vars, cliVars
<1>3. QED
  BY <1>1, <1>2, RunsMoveStep

LEMMA NextBase == BaseInv /\ [Next]_vars => BaseInv'
<1>. SUFFICES ASSUME BaseInv, [Next]_vars PROVE BaseInv'
  OBVIOUS
<1>1. ASSUME NEW c \in Creators, CreateStep(c) PROVE BaseInv'
  BY <1>1, AcceptCreateStep, RejectArgsStep, PrintHostStep, HandleStatusStep,
     ProvisionStep, ProvisionRefusedStep, StatusStep, StatusRefusedStep
     DEF CreateStep, Runs
<1>2. ASSUME NEW d \in Deleters, DeleteStep(d) PROVE BaseInv'
  BY <1>2, RejectArgsStep, StartDeleteStep, LookupStep, RemoveStep,
     DeleteRefusedStep DEF DeleteStep, Runs
<1>3. ASSUME NEW p \in Runs, Kill(p) PROVE BaseInv'
  BY <1>3, KillStep
<1>4. ASSUME NEW h \in HostIds, Boot(h) \/ Stop(h) PROVE BaseInv'
  BY <1>4, BootStep, StopStep
<1>5. CASE UNCHANGED vars
  BY <1>5, BaseStutter
<1>6. QED
  BY <1>1, <1>2, <1>3, <1>4, <1>5 DEF Next

(* The steps that make no host.                                            *)
NoHostMade ==
  /\ UNCHANGED <<owner, hostID>>
  /\ \A c \in Creators :
       /\ pc'[c] \in {"args", "provision"} => pc[c] \in {"args", "provision"}
       /\ exit[c] \in {"error", "killed"} => exit'[c] = exit[c]

LEMMA NoHostMadeStep ==
  ASSUME KnowsItsHost, OneHostPerRun, NoHostMade
  PROVE  KnowsItsHost' /\ OneHostPerRun'
BY DEF KnowsItsHost, OneHostPerRun, NoHostMade

LEMMA ProvisionMakesOne ==
  ASSUME IInv, NEW c \in Creators, Provision(c)
  PROVE  KnowsItsHost' /\ OneHostPerRun'
<1>1. PICK h \in HostIds :
        Make(c, h) /\ (ProvisionReturns(c, h) \/ ProvisionFails(c))
  BY DEF Provision
<1>. CliTypeOK /\ AccountTypeOK /\ c \in Runs /\ pc[c] = "provision"
  BY <1>1 DEF IInv, BaseInv, TypeOK, CliInv, ProvisionReturns,
     ProvisionFails, Runs
<1>2. /\ owner'[h] = c
      /\ \A g \in HostIds : g # h => owner'[g] = owner[g]
  BY <1>1 DEF Make, AccountTypeOK
<1>3. owner[h] = Nobody /\ \A g \in HostIds : owner[g] # c
  BY <1>1 DEF Make, IInv, KnowsItsHost, BaseInv, AccountInv, AbsentIsUntouched
<1>4. \A b \in Creators : b # c =>
        pc'[b] = pc[b] /\ exit'[b] = exit[b] /\ hostID'[b] = hostID[b]
  BY <1>1 DEF ProvisionReturns, ProvisionFails, Exit, Goto, CliTypeOK, Runs
<1>5. /\ pc'[c] \notin {"args", "provision"}
      /\ hostID'[c] = h \/ exit'[c] = "error"
  BY <1>1 DEF ProvisionReturns, ProvisionFails, Exit, Goto, CliTypeOK
<1>6. KnowsItsHost'
  BY <1>2, <1>4, <1>5, CloudAssumption DEF IInv, KnowsItsHost
<1>7. OneHostPerRun'
  BY <1>2, <1>3, CloudAssumption DEF IInv, OneHostPerRun
<1>8. QED
  BY <1>6, <1>7

LEMMA NextIInv == IInv /\ [Next]_vars => IInv'
<1>. SUFFICES ASSUME IInv, [Next]_vars PROVE IInv'
  OBVIOUS
<1>. CliTypeOK /\ ExitIsFinal /\ Creators \cap Deleters = {}
  BY CliAssumption DEF IInv, BaseInv, CliInv
<1>1. BaseInv'
  BY NextBase DEF IInv
<1>2. ASSUME NEW c \in Creators, CreateStep(c), ~Provision(c)
      PROVE  NoHostMade
  BY <1>2 DEF NoHostMade, CreateStep, AcceptCreate, RejectArgs, PrintHost,
     HandleStatus, PrintSummary, NextRound, ProvisionRefused,
     ProvisionFails, Status, StatusReturns, StatusRefused, StatusFails,
     Exit, Goto, cloudVars, CliTypeOK, ExitIsFinal, Runs
<1>3. ASSUME NEW d \in Deleters, DeleteStep(d) PROVE NoHostMade
  BY <1>3 DEF NoHostMade, DeleteStep, RejectArgs, StartDelete, AcceptDelete,
     Lookup, Remove, Erase, DeleteReturns, DeleteRefused, DeleteFails, Exit,
     Goto, cliVars, cloudVars, CliTypeOK, Runs
<1>4. ASSUME NEW p \in Runs, Kill(p) PROVE NoHostMade
  BY <1>4 DEF NoHostMade, Kill, Interrupt, Exit, Goto, cloudVars, CliTypeOK,
     ExitIsFinal, Runs
<1>5. ASSUME NEW h \in HostIds, Boot(h) \/ Stop(h) PROVE NoHostMade
  BY <1>5 DEF NoHostMade, Boot, Stop, cliVars
<1>6. ASSUME UNCHANGED vars PROVE NoHostMade
  BY <1>6 DEF NoHostMade, vars, cliVars, cloudVars
<1>7. KnowsItsHost' /\ OneHostPerRun'
  BY <1>2, <1>3, <1>4, <1>5, <1>6, NoHostMadeStep, ProvisionMakesOne
     DEF Next, IInv
<1>8. QED
  BY <1>1, <1>7 DEF IInv

----------------------------------------------------------------------------
(* The theorems                                                            *)

LEMMA Invariance == SafeSpec => []IInv
<1>1. Init => IInv
  BY InitBase, CloudAssumption DEF IInv, Init, AccountInit, KnowsItsHost,
     OneHostPerRun
<1>2. QED
  BY <1>1, NextIInv, PTL DEF SafeSpec

(* Every variable keeps its type, the loop counter of create its bound and *)
(* hostRes.ID, the --ip and the --id their domains (create.go, delete.go). *)
THEOREM TypeCorrect == Spec => []TypeOK
<1>1. IInv => TypeOK
  BY DEF IInv, BaseInv
<1>2. QED
  BY <1>1, Invariance, PTL DEF Spec

(* The connection summary a create prints is about the host this very run  *)
(* made, which has been up and is still at that address if it is there     *)
(* (create.go:346-411).                                                    *)
THEOREM SummaryCorrect == Spec => []SummaryIsOwnHost
<1>1. IInv => SummaryIsOwnHost
  BY CliAssumption DEF IInv, BaseInv, TypeOK, AccountTypeOK, CliInv,
     SummaryIsLast,
     HoldsOwn, AccountInv, AnswerWasTrue, SummaryIsOwnHost
<1>2. QED
  BY <1>1, Invariance, PTL DEF Spec

(* A run that exits with status 0 has printed the id of every host it made *)
(* (create.go:339-344).                                                    *)
THEOREM NoOrphan == Spec => []NoSilentOrphan
<1>1. IInv => NoSilentOrphan
  BY DEF IInv, BaseInv, CliInv, IdSinceProvision, KnowsItsHost, NoSilentOrphan
<1>2. QED
  BY <1>1, Invariance, PTL DEF Spec

(* One run of create makes at most one host (create.go:339-342).           *)
THEOREM OneHost == Spec => []OneHostPerRun
<1>1. IInv => OneHostPerRun
  BY DEF IInv
<1>2. QED
  BY <1>1, Invariance, PTL DEF Spec

(* A delete that reports success has removed the host it was aimed at, and *)
(* a delete --ip is never aimed at a host with another address             *)
(* (delete.go:153-167, digitalocean.go:59-76).                             *)
THEOREM DeleteCorrect == Spec => []DeleteHitsItsTarget
<1>1. IInv => DeleteHitsItsTarget
  BY DEF IInv, BaseInv, DeleteInv
<1>2. QED
  BY <1>1, Invariance, PTL DEF Spec

----------------------------------------------------------------------------
(* The promise: every step of the commands and of the cloud is a step of   *)
(* ExitServers or leaves its variables alone.                              *)

LEMMA PromiseStep == IInv /\ PromiseInv /\ [Next]_vars => PromiseInv' /\ Promised
<1>. SUFFICES ASSUME IInv, PromiseInv, [Next]_vars
              PROVE  PromiseInv' /\ Promised
  OBVIOUS
<1>. CliInv /\ AccountTypeOK
  BY DEF IInv, BaseInv, TypeOK
<1>1. ASSUME NEW c \in Creators, CreateStep(c) PROVE PromiseInv' /\ Promised
  <2>1. CASE Provision(c)
    <3>1. PICK h \in HostIds :
            Make(c, h) /\ (ProvisionReturns(c, h) \/ ProvisionFails(c))
      BY <2>1 DEF Provision
    <3>2. QED
      BY <2>1, <3>1, LaunchKeeps DEF Provision, Make
  <2>2. CASE Status(c)
    BY <2>2, StatusKeeps
  <2>3. CASE ProvisionRefused(c) \/ StatusRefused(c)
    BY <2>3, QuietCreate DEF ProvisionRefused, StatusRefused, cloudVars
  <2>4. CASE /\ \/ AcceptCreate(c) \/ RejectArgs(c) \/ PrintHost(c)
                \/ HandleStatus(c)
             /\ UNCHANGED <<cloudVars, target, victim>>
    BY <2>4, QuietCreate, HandleStatusKeeps DEF cloudVars
  <2>5. QED
    BY <1>1, <2>1, <2>2, <2>3, <2>4 DEF CreateStep
<1>2. ASSUME NEW d \in Deleters, DeleteStep(d) PROVE PromiseInv' /\ Promised
  <2>1. CASE StartDelete(d) \/ Lookup(d)
    BY <2>1, AimKeeps
  <2>2. CASE Remove(d)
    BY <2>2, EraseKeeps DEF Remove, AccountTypeOK
  <2>3. CASE \/ RejectArgs(d) /\ UNCHANGED <<cloudVars, target, victim>>
             \/ DeleteRefused(d)
    BY <2>3, QuietDelete DEF DeleteRefused, cloudVars
  <2>4. QED
    BY <1>2, <2>1, <2>2, <2>3 DEF DeleteStep
<1>3. ASSUME NEW p \in Runs, Kill(p) PROVE PromiseInv' /\ Promised
  BY <1>3, InterruptKeeps DEF Kill, cloudVars
<1>4. ASSUME NEW h \in HostIds, Boot(h) \/ Stop(h)
      PROVE  PromiseInv' /\ Promised
  BY <1>4, BootKeeps, StopKeeps
<1>5. CASE UNCHANGED vars
  BY <1>5, StutterKeeps DEF vars, cloudVars
<1>6. QED
  BY <1>1, <1>2, <1>3, <1>4, <1>5 DEF Next

(* create and delete against a one-request provider implement the promise  *)
(* to the user: hosts are launched once, never come back, disappear only   *)
(* after a delete was aimed at them, and are announced only after they     *)
(* were up (README.md:67, create.go:358, delete.go:163).                   *)
THEOREM Implements == Spec => KeepsThePromise
<1>1. Init => PromiseInv /\ Promise!Init
  BY PromiseInit, PromiseInvInit DEF Init
<1>2. IInv /\ PromiseInv /\ [Next]_vars =>
        PromiseInv' /\ [Promise!Next]_(Promise!serverVars)
  BY PromiseStep DEF Promised
<1>3. QED
  BY <1>1, <1>2, Invariance, PTL DEF Spec, SafeSpec, KeepsThePromise,
     Promise!Spec

----------------------------------------------------------------------------
(***************************************************************************)
(* ScriptCloud.  Its runs do to the account what those of SingleCallCloud  *)
(* do, only that a create may go on after a request that made a host, and  *)
(* a delete at Vultr after the request that erased one.  BaseInv therefore *)
(* holds of it too, by the lemmas above, and ScriptInv adds what the       *)
(* scripts need: that a run has a script of its own for all its hosts      *)
(* (CreatorInv, HostInv), why a script has gone (GoneForReason), that a    *)
(* delete that drops a script has erased a host of its name (DeleterInv),  *)
(* and for every name the count of its hosts that have gone, of the        *)
(* deletes about to drop a script, and of the scripts dropped (Counted).   *)
(***************************************************************************)

CreatorInv ==
  \A c \in Creators :
    /\ pc[c] # "provision" => at[c] = "script"
    /\ at[c] = "instance" => scriptID[c] # NoScript
    /\ pc[c] \in {"args", "provision"} /\ at[c] = "script" =>
         scriptID[c] = NoScript
    /\ pc[c] \in {"created", "status", "answered"} => scriptID[c] # NoScript
    /\ scriptID[c] # NoScript =>
         /\ script[scriptID[c]] # "absent"
         /\ scriptName[scriptID[c]] = name[c]
         /\ \A b \in Creators : scriptID[b] = scriptID[c] => b = c

HostInv ==
  \A h \in HostIds : owner[h] # Nobody =>
    /\ scriptID[owner[h]] # NoScript
    /\ boots[h] = scriptID[owner[h]]
    /\ label[h] = name[owner[h]]

(* The host a script was made for has been up, or one of its name is gone. *)
GoneForReason ==
  \A s \in ScriptIds : script[s] = "deleted" =>
    \/ /\ provider = "linode"
       /\ \E c \in Creators : scriptID[c] = s /\ hostID[c] \in wasUp
    \/ /\ provider = "vultr"
       /\ \E h \in HostIds : host[h] = "deleted" /\ label[h] = scriptName[s]

DeleterInv ==
  \A d \in Deleters :
    /\ provider = "linode" => at[d] = "remove"
    /\ pc[d] # "delete" => at[d] \notin {"scripts", "script"}
    /\ at[d] \in {"scripts", "script"} =>
         victim[d] # NoHost /\ host[victim[d]] = "deleted"
    /\ picked[d] # NoScript =>
         /\ at[d] = "script"
         /\ script[picked[d]] # "absent"
         /\ scriptName[picked[d]] = label[victim[d]]
    /\ at[d] = "script" => picked[d] # NoScript

HostsGone(n) == {h \in HostIds : host[h] = "deleted" /\ label[h] = n}
Deleting(n) ==
  {d \in Deleters : at[d] \in {"scripts", "script"} /\ label[victim[d]] = n}
ScriptsGone(n) ==
  {s \in ScriptIds : script[s] = "deleted" /\ scriptName[s] = n}

(* There is a host in H for each delete in D and each script in S.         *)
Tally(H, D, S) ==
  /\ IsFiniteSet(H) /\ IsFiniteSet(D) /\ IsFiniteSet(S)
  /\ Cardinality(D) + Cardinality(S) <= Cardinality(H)

Counted ==
  provider = "vultr" =>
    \A n \in Names : Tally(HostsGone(n), Deleting(n), ScriptsGone(n))

Points == {"script", "instance", "get", "remove", "scripts"}

ScriptInv ==
  /\ BaseInv
  /\ ScriptTypeOK
  /\ at \in [Runs -> Points]
  /\ CreatorInv
  /\ HostInv
  /\ GoneForReason
  /\ DeleterInv
  /\ Counted

----------------------------------------------------------------------------
(* What one step may do to a tally                                         *)

LEMMA TallyFewer ==
  ASSUME NEW H, NEW D, NEW S, Tally(H, D, S), NEW D1 \in SUBSET D
  PROVE  Tally(H, D1, S)
<1>1. IsFiniteSet(D1) /\ Cardinality(D1) <= Cardinality(D)
  BY FS_Subset DEF Tally
<1>2. /\ Cardinality(H) \in Nat /\ Cardinality(D) \in Nat
      /\ Cardinality(D1) \in Nat /\ Cardinality(S) \in Nat
  BY <1>1, FS_CardinalityType DEF Tally
<1>3. QED
  BY <1>1, <1>2 DEF Tally

(* A host goes, and perhaps a delete is about to drop a script.            *)
LEMMA TallyErase ==
  ASSUME NEW H, NEW D, NEW S, Tally(H, D, S),
         NEW h, h \notin H, NEW d, NEW D1 \in SUBSET (D \cup {d})
  PROVE  Tally(H \cup {h}, D1, S)
<1>1. /\ IsFiniteSet(D \cup {d})
      /\ Cardinality(D \cup {d}) \in {Cardinality(D), Cardinality(D) + 1}
      /\ IsFiniteSet(H \cup {h})
      /\ Cardinality(H \cup {h}) = Cardinality(H) + 1
  BY FS_AddElement DEF Tally
<1>2. /\ Cardinality(H) \in Nat /\ Cardinality(D) \in Nat
      /\ Cardinality(S) \in Nat
  BY FS_CardinalityType DEF Tally
<1>3. Tally(H \cup {h}, D \cup {d}, S)
  BY <1>1, <1>2 DEF Tally
<1>4. QED
  BY <1>3, TallyFewer

(* A delete drops a script, which may be gone already.                     *)
LEMMA TallyDrop ==
  ASSUME NEW H, NEW D, NEW S, Tally(H, D, S), NEW d \in D, NEW s
  PROVE  Tally(H, D \ {d}, S \cup {s})
<1>1. /\ IsFiniteSet(D \ {d}) /\ Cardinality(D \ {d}) = Cardinality(D) - 1
      /\ IsFiniteSet(S \cup {s})
      /\ Cardinality(S \cup {s}) \in {Cardinality(S), Cardinality(S) + 1}
  BY FS_RemoveElement, FS_AddElement DEF Tally
<1>2. /\ Cardinality(H) \in Nat /\ Cardinality(D) \in Nat
      /\ Cardinality(S) \in Nat
  BY FS_CardinalityType DEF Tally
<1>3. QED
  BY <1>1, <1>2 DEF Tally

----------------------------------------------------------------------------
(* The initial states                                                      *)

LEMMA ScriptInitInv == ScriptInit => ScriptInv
<1>. SUFFICES ASSUME ScriptInit PROVE ScriptInv
  OBVIOUS
<1>1. BaseInv
  BY InitBase DEF ScriptInit, Init
<1>2. at \in [Runs -> Points]
  BY DEF ScriptInit, First, Points
<1>3. /\ \A c \in Creators : at[c] = "script" /\ scriptID[c] = NoScript
      /\ \A d \in Deleters : at[d] = First(d) /\ picked[d] = NoScript
      /\ \A h \in HostIds : owner[h] = Nobody
      /\ \A c \in Creators : pc[c] = "args"
      /\ \A s \in ScriptIds : script[s] \in {"absent", "there"}
  BY DEF ScriptInit, AccountInit, CliInit, First, Runs
<1>4. \A d \in Deleters :
        First(d) = IF provider = "vultr" THEN "get" ELSE "remove"
  BY CliAssumption DEF First
<1>5. ScriptTypeOK
  BY <1>1, <1>3, <1>4 DEF BaseInv, TypeOK, ScriptInit, ScriptTypeOK
<1>6. CreatorInv /\ DeleterInv /\ HostInv /\ GoneForReason
  BY <1>3, <1>4 DEF CreatorInv, DeleterInv, HostInv, GoneForReason
<1>7. Counted
  <2>. SUFFICES ASSUME NEW n \in Names
                PROVE  Tally(HostsGone(n), Deleting(n), ScriptsGone(n))
    BY DEF Counted
  <2>1. \A h \in HostIds : host[h] # "deleted"
    BY DEF ScriptInit, AccountInit, ActiveStatus
  <2>2. HostsGone(n) = {} /\ ScriptsGone(n) = {}
    BY <1>3, <2>1 DEF HostsGone, ScriptsGone
  <2>3. Deleting(n) = {}
    BY <1>3, <1>4 DEF Deleting
  <2>4. QED
    BY <2>2, <2>3, FS_EmptySet DEF Tally
<1>8. QED
  BY <1>1, <1>2, <1>5, <1>6, <1>7 DEF ScriptInv

----------------------------------------------------------------------------
(* Steps that make and drop no script and no host                          *)

ScriptsStay ==
  /\ UNCHANGED <<provider, name, scriptID, storeVars, owner, hostID>>
  /\ wasUp \subseteq wasUp'
  /\ \A h \in HostIds : host'[h] = "deleted" <=> host[h] = "deleted"
  /\ at' \in [Runs -> Points]
  /\ picked' \in [Deleters -> ScriptIds \cup {NoScript}]
  /\ \A c \in Creators :
       \/ pc'[c] = pc[c] /\ at'[c] = at[c]
       \/ pc[c] = "args" /\ pc'[c] = "provision" /\ at'[c] = at[c]
       \/ /\ pc[c] \in {"created", "status", "answered"}
          /\ pc'[c] \in {"status", "answered"}
          /\ at'[c] = "script"
       \/ pc'[c] = "exited" /\ at'[c] = "script"
  /\ \A d \in Deleters :
       \/ /\ pc'[d] = pc[d] /\ at'[d] = at[d]
          /\ victim'[d] = victim[d] /\ picked'[d] = picked[d]
       \/ /\ at'[d] \in {"get", "remove"}
          /\ provider = "linode" => at'[d] = "remove"
          /\ picked'[d] = NoScript

LEMMA ScriptsStayStep ==
  ASSUME ScriptInv, ScriptsStay, BaseInv'
  PROVE  ScriptInv'
<1>1. /\ ScriptTypeOK /\ CreatorInv /\ DeleterInv /\ HostInv
      /\ GoneForReason /\ Counted /\ BaseInv
  BY DEF ScriptInv
<1>2. ScriptTypeOK'
  BY <1>1 DEF ScriptTypeOK, ScriptsStay, storeVars, BaseInv, TypeOK
<1>3. CreatorInv'
  BY <1>1 DEF CreatorInv, ScriptsStay, storeVars
<1>4. HostInv'
  BY <1>1 DEF HostInv, ScriptsStay, storeVars
<1>5. GoneForReason'
  BY <1>1 DEF GoneForReason, ScriptsStay, storeVars
<1>6. DeleterInv'
  <2>. SUFFICES
         ASSUME NEW d \in Deleters, pc'[d] = pc[d], at'[d] = at[d],
                victim'[d] = victim[d], picked'[d] = picked[d]
         PROVE  /\ provider' = "linode" => at'[d] = "remove"
                /\ pc'[d] # "delete" => at'[d] \notin {"scripts", "script"}
                /\ at'[d] \in {"scripts", "script"} =>
                     victim'[d] # NoHost /\ host'[victim'[d]] = "deleted"
                /\ picked'[d] # NoScript =>
                     /\ at'[d] = "script"
                     /\ script'[picked'[d]] # "absent"
                     /\ scriptName'[picked'[d]] = label'[victim'[d]]
                /\ at'[d] = "script" => picked'[d] # NoScript
    BY DEF DeleterInv, ScriptsStay
  <2>1. victim[d] # NoHost => victim[d] \in HostIds
    BY <1>1 DEF BaseInv, TypeOK, AccountTypeOK
  <2>2. QED
    BY <1>1, <2>1 DEF DeleterInv, ScriptsStay, storeVars
<1>7. Counted'
  <2>. SUFFICES ASSUME provider = "vultr", NEW n \in Names
                PROVE  Tally(HostsGone(n), Deleting(n), ScriptsGone(n))'
    BY DEF Counted, ScriptsStay
  <2>1. HostsGone(n)' = HostsGone(n) /\ ScriptsGone(n)' = ScriptsGone(n)
    BY DEF HostsGone, ScriptsGone, ScriptsStay, storeVars
  <2>2. Deleting(n)' \subseteq Deleting(n)
    BY DEF Deleting, ScriptsStay, storeVars
  <2>3. Tally(HostsGone(n), Deleting(n), ScriptsGone(n))
    BY <1>1 DEF Counted
  <2>4. QED
    BY <2>1, <2>2, <2>3, TallyFewer
<1>8. QED
  BY <1>2, <1>3, <1>4, <1>5, <1>6, <1>7 DEF ScriptInv, ScriptsStay

LEMMA ScriptStutter ==
  ASSUME ScriptInv, UNCHANGED scriptCloudVars
  PROVE  ScriptInv'
<1>1. UNCHANGED vars
  BY DEF scriptCloudVars, accountVars, vars
<1>2. BaseInv'
  BY <1>1, BaseStutter DEF ScriptInv
<1>3. ScriptsStay
  BY DEF ScriptsStay, ScriptInv, ScriptTypeOK, scriptCloudVars, accountVars,
     cloudVars, cliVars, scriptVars
<1>4. QED
  BY <1>2, <1>3, ScriptsStayStep

(* The steps of create that leave the account alone.                       *)
LEMMA ScriptRunsMove ==
  ASSUME ScriptInv, NEW c \in Creators,
         \/ AcceptCreate(c) \/ RejectArgs(c) \/ PrintHost(c) \/ HandleStatus(c)
         \/ StatusFails(c),
         UNCHANGED <<accountVars, at, scriptVars>>
  PROVE  ScriptInv'
<1>1. BaseInv'
  BY AcceptCreateStep, RejectArgsStep, PrintHostStep, HandleStatusStep,
     StatusRefusedStep DEF ScriptInv, StatusRefused, accountVars, Runs
<1>2. /\ \/ pc' = [pc EXCEPT ![c] = "provision"] /\ pc[c] = "args"
         \/ /\ pc' = [pc EXCEPT ![c] = "status"]
            /\ pc[c] \in {"created", "answered"}
         \/ pc' = [pc EXCEPT ![c] = "exited"] /\ pc[c] # "provision"
      /\ hostID' = hostID
  BY DEF AcceptCreate, RejectArgs, PrintHost, HandleStatus, StatusFails,
     PrintSummary, NextRound, Exit, Goto
<1>3. ScriptsStay
  BY <1>2, CliAssumption DEF ScriptsStay, ScriptInv, ScriptTypeOK, CreatorInv,
     CliTypeOK, Runs, accountVars, cloudVars, scriptVars
<1>4. QED
  BY <1>1, <1>3, ScriptsStayStep

LEMMA ProvisionGivesUpStep ==
  ASSUME ScriptInv, NEW c \in Creators, ProvisionGivesUp(c)
  PROVE  ScriptInv'
<1>1. BaseInv'
  BY ProvisionRefusedStep DEF ScriptInv, ProvisionGivesUp, ProvisionRefused,
     accountVars
<1>2. /\ pc' = [pc EXCEPT ![c] = "exited"]
      /\ at' = [at EXCEPT ![c] = "script"]
      /\ UNCHANGED <<accountVars, scriptVars, hostID>>
  BY DEF ProvisionGivesUp, ProvisionFails, Exit, Goto, Leaves, GoesOn, First
<1>3. ScriptsStay
  BY <1>2, CliAssumption DEF ScriptsStay, ScriptInv, ScriptTypeOK, Points,
     CliTypeOK, Runs, accountVars, cloudVars, scriptVars
<1>4. QED
  BY <1>1, <1>3, ScriptsStayStep

(* The request at which a delete is when it starts and where it ends.      *)
LEMMA FirstOfDelete ==
  ASSUME NEW d \in Deleters
  PROVE  /\ First(d) \in {"get", "remove"}
         /\ provider = "linode" => First(d) = "remove"
BY CliAssumption DEF First

LEMMA ScriptKillStep ==
  ASSUME ScriptInv, NEW p \in Runs, ScriptKill(p)
  PROVE  ScriptInv'
<1>1. BaseInv'
  BY KillStep DEF ScriptInv, ScriptKill, Kill, accountVars
<1>2. /\ pc' = [pc EXCEPT ![p] = "exited"]
      /\ at' = [at EXCEPT ![p] = First(p)]
      /\ picked' = [d \in Deleters |-> IF d = p THEN NoScript ELSE picked[d]]
      /\ UNCHANGED <<accountVars, provider, name, scriptID, storeVars, hostID>>
  BY DEF ScriptKill, Interrupt, Exit, Goto, Leaves, GoesOn
<1>3. p \in Creators => First(p) = "script"
  BY DEF First
<1>4. First(p) \in Points
  BY DEF First, Points
<1>5. picked' \in [Deleters -> ScriptIds \cup {NoScript}]
  BY <1>2 DEF ScriptInv, ScriptTypeOK
<1>6. at' \in [Runs -> Points]
  BY <1>2, <1>4 DEF ScriptInv
<1>7. \A q \in Runs : q # p =>
        pc'[q] = pc[q] /\ at'[q] = at[q]
  BY <1>2 DEF ScriptInv, ScriptTypeOK, CliTypeOK
<1>8. pc'[p] = "exited" /\ at'[p] = First(p)
  BY <1>2 DEF ScriptInv, ScriptTypeOK, CliTypeOK
<1>9. ScriptsStay
  BY <1>2, <1>3, <1>5, <1>6, <1>7, <1>8, FirstOfDelete, CliAssumption
     DEF ScriptsStay, Runs, accountVars, cloudVars
<1>10. QED
  BY <1>1, <1>9, ScriptsStayStep

----------------------------------------------------------------------------
(* Requests                                                                *)

(* The answer of Status changes no script, unless it says that a Linode    *)
(* runs: the host its run was told of has then been up.                    *)
LEMMA StatusDropsScriptStep ==
  ASSUME ScriptInv, NEW c \in Creators, StatusDropsScript(c)
  PROVE  ScriptInv'
<1>1. BaseInv'
  BY StatusStep DEF ScriptInv, StatusDropsScript
<1>2. /\ pc[c] = "status"
      /\ pc' = [pc EXCEPT ![c] = "answered"]
      /\ UNCHANGED <<cloudVars, victim, at, provider, name, picked, scriptID,
                     label, scriptName, boots, hostID>>
  BY DEF StatusDropsScript, Status, StatusReturns, Goto
<1>. /\ ScriptTypeOK /\ CliTypeOK /\ AccountTypeOK /\ at \in [Runs -> Points]
     /\ CreatorInv /\ HostInv /\ GoneForReason /\ DeleterInv /\ Counted
  BY DEF ScriptInv, ScriptTypeOK
<1>3. ASSUME UNCHANGED script PROVE ScriptInv'
  <2>1. ScriptsStay
    BY <1>2, <1>3, CliAssumption DEF ScriptsStay, ScriptTypeOK, storeVars,
       CreatorInv, CliTypeOK, Runs, cloudVars
  <2>2. QED
    BY <1>1, <2>1, ScriptsStayStep
<1>4. ASSUME provider = "linode", host[hostID[c]] = ActiveStatus,
             script' = [script EXCEPT ![scriptID[c]] = "deleted"]
      PROVE  ScriptInv'
  <2>1. hostID[c] \in wasUp
    BY <1>2, <1>4 DEF ScriptInv, BaseInv, CliInv, CliTypeOK, IdSinceProvision,
       AccountInv, UpIsAddressed
  <2>2. scriptID[c] \in ScriptIds
    BY <1>2 DEF CreatorInv, ScriptTypeOK
  <2>3. /\ script'[scriptID[c]] = "deleted"
        /\ \A s \in ScriptIds : s # scriptID[c] => script'[s] = script[s]
        /\ script' \in [ScriptIds -> {"absent", "there", "deleted"}]
    BY <1>4, <2>2 DEF ScriptTypeOK
  <2>4. ScriptTypeOK'
    BY <1>1, <1>2, <2>3 DEF ScriptTypeOK, BaseInv, TypeOK
  <2>5. /\ \A p \in Runs : p # c => pc'[p] = pc[p]
        /\ pc'[c] = "answered"
    BY <1>2 DEF CliTypeOK, Runs
  <2>6. \A b \in Creators : scriptID[b] # NoScript => scriptID[b] \in ScriptIds
    BY DEF ScriptTypeOK
  <2>7. CreatorInv'
    BY <1>2, <2>3, <2>5, <2>6 DEF CreatorInv, Runs
  <2>8. HostInv'
    BY <1>2 DEF HostInv, cloudVars
  <2>9. GoneForReason'
    BY <1>2, <1>4, <2>1, <2>3 DEF GoneForReason, cloudVars
  <2>10. DeleterInv'
    <3>1. \A d \in Deleters : /\ d \in Runs /\ d # c
                              /\ picked[d] # NoScript => picked[d] \in ScriptIds
      BY CliAssumption DEF Runs, ScriptTypeOK
    <3>2. QED
      BY <1>2, <2>3, <2>5, <3>1 DEF DeleterInv, cloudVars
  <2>11. Counted'
    BY <1>2, <1>4 DEF Counted
  <2>12. QED
    BY <1>1, <1>2, <2>4, <2>7, <2>8, <2>9, <2>10, <2>11 DEF ScriptInv
<1>5. QED
  BY <1>2, <1>3, <1>4 DEF StatusDropsScript

(* Steps of a delete that leave hosts and scripts alone, and after which   *)
(* it is about to drop none.                                               *)
LEMMA DeleteMovesOn ==
  ASSUME ScriptInv, NEW d \in Deleters, BaseInv',
         UNCHANGED <<cloudVars, provider, name, scriptID, storeVars, hostID>>,
         NEW l \in {"args", "delete", "exited"}, pc' = [pc EXCEPT ![d] = l],
         \A e \in Deleters \ {d} : victim'[e] = victim[e],
         NEW r \in {"get", "remove"}, at' = [at EXCEPT ![d] = r],
         provider = "linode" => r = "remove",
         picked' = picked, picked[d] = NoScript
  PROVE  ScriptInv'
<1>1. at' \in [Runs -> Points]
  BY DEF ScriptInv, Points
<1>2. ScriptsStay
  BY <1>1, CliAssumption DEF ScriptsStay, ScriptInv, ScriptTypeOK, CliTypeOK,
     Runs, cloudVars
<1>3. QED
  BY <1>2, ScriptsStayStep

(* A delete that is not about to drop a script has picked none.            *)
LEMMA NotPicked ==
  ASSUME ScriptInv, NEW d \in Deleters, at[d] # "script"
  PROVE  picked[d] = NoScript
BY DEF ScriptInv, DeleterInv

LEMMA ScriptRejectArgsStep ==
  ASSUME ScriptInv, NEW d \in Deleters, RejectArgs(d),
         UNCHANGED <<accountVars, at, scriptVars>>
  PROVE  ScriptInv'
<1>1. BaseInv'
  BY RejectArgsStep DEF ScriptInv, accountVars, Runs
<1>2. at[d] \in {"get", "remove"} /\ at' = [at EXCEPT ![d] = at[d]]
  BY DEF RejectArgs, ScriptInv, ScriptTypeOK, DeleterInv, Runs
<1>3. pc' = [pc EXCEPT ![d] = "exited"] /\ hostID' = hostID
  BY DEF RejectArgs, Exit, Goto
<1>4. QED
  BY <1>1, <1>2, <1>3, NotPicked, DeleteMovesOn DEF ScriptInv, DeleterInv,
     accountVars, scriptVars

LEMMA ScriptStartDeleteStep ==
  ASSUME ScriptInv, NEW d \in Deleters, StartDelete(d),
         UNCHANGED <<at, scriptVars>>
  PROVE  ScriptInv'
<1>1. BaseInv'
  BY StartDeleteStep DEF ScriptInv
<1>2. at[d] \in {"get", "remove"} /\ at' = [at EXCEPT ![d] = at[d]]
  BY DEF StartDelete, AcceptDelete, ScriptInv, ScriptTypeOK, DeleterInv, Runs
<1>3. pc' = [pc EXCEPT ![d] = "delete"] /\ UNCHANGED <<cloudVars, hostID>>
  BY DEF StartDelete, AcceptDelete, Goto
<1>4. \A e \in Deleters \ {d} : victim'[e] = victim[e]
  BY DEF StartDelete, ScriptInv, ScriptTypeOK, AccountTypeOK
<1>5. QED
  BY <1>1, <1>2, <1>3, <1>4, NotPicked, DeleteMovesOn DEF ScriptInv,
     DeleterInv, scriptVars

LEMMA LookupVultrStep ==
  ASSUME ScriptInv, NEW d \in Deleters, LookupVultr(d)
  PROVE  ScriptInv'
<1>1. BaseInv'
  BY LookupStep DEF ScriptInv, LookupVultr
<1>2. at[d] \in {"get", "remove"} /\ at' = [at EXCEPT ![d] = at[d]]
  <2>1. at[d] \notin {"scripts", "script"}
    BY DEF LookupVultr, Lookup, ScriptInv, DeleterInv
  <2>2. QED
    BY <2>1 DEF LookupVultr, ScriptInv, ScriptTypeOK, Runs
<1>3. pc' = [pc EXCEPT ![d] = "delete"] /\ UNCHANGED <<cloudVars, hostID>>
  BY DEF LookupVultr, Lookup, cliVars, ScriptInv, ScriptTypeOK, CliTypeOK, Runs
<1>4. \A e \in Deleters \ {d} : victim'[e] = victim[e]
  BY DEF LookupVultr, Lookup, ScriptInv, ScriptTypeOK, AccountTypeOK
<1>5. QED
  BY <1>1, <1>2, <1>3, <1>4, NotPicked, DeleteMovesOn DEF ScriptInv,
     DeleterInv, LookupVultr, scriptVars

LEMMA GetInstanceStep ==
  ASSUME ScriptInv, NEW d \in Deleters, GetInstance(d)
  PROVE  ScriptInv'
<1>1. UNCHANGED vars
  BY DEF GetInstance, accountVars, vars
<1>2. BaseInv'
  BY <1>1, BaseStutter DEF ScriptInv
<1>3. /\ pc' = [pc EXCEPT ![d] = "delete"]
      /\ at[d] = "get" /\ at' = [at EXCEPT ![d] = "remove"]
      /\ UNCHANGED <<accountVars, scriptVars, hostID>>
  BY DEF GetInstance, Asks, GoesOn, cliVars, ScriptInv, ScriptTypeOK,
     CliTypeOK, Runs
<1>4. QED
  BY <1>2, <1>3, NotPicked, DeleteMovesOn DEF accountVars, scriptVars

LEMMA DeleteGivesUpStep ==
  ASSUME ScriptInv, NEW d \in Deleters, DeleteGivesUp(d)
  PROVE  ScriptInv'
<1>1. BaseInv'
  BY DeleteRefusedStep DEF ScriptInv, DeleteGivesUp, DeleteRefused, accountVars
<1>2. /\ pc' = [pc EXCEPT ![d] = "exited"]
      /\ at[d] # "script" /\ at' = [at EXCEPT ![d] = First(d)]
      /\ UNCHANGED <<accountVars, scriptVars, hostID>>
  BY DEF DeleteGivesUp, DeleteFails, Exit, Goto, Leaves, GoesOn
<1>3. QED
  BY <1>1, <1>2, NotPicked, FirstOfDelete, DeleteMovesOn DEF accountVars,
     scriptVars

(* A delete that returns after it has erased its host.                     *)
LEMMA ReturnsStep ==
  ASSUME BaseInv, NEW d \in Deleters, DeleteReturns(d), UNCHANGED accountVars,
         victim[d] # NoHost, host[victim[d]] = "deleted"
  PROVE  BaseInv'
<1>1. CliInv'
  BY CliDeleteReturns DEF BaseInv
<1>2. /\ pc' = [pc EXCEPT ![d] = "exited"]
      /\ exit' = [exit EXCEPT ![d] = "ok"]
      /\ UNCHANGED <<hostID, reply>>
  BY DEF DeleteReturns, Exit, Goto
<1>3. TypeOK'
  BY <1>1 DEF BaseInv, TypeOK, CliInv, AccountTypeOK, accountVars, cloudVars
<1>4. HoldsOwn'
  BY <1>2 DEF BaseInv, HoldsOwn, accountVars, cloudVars
<1>5. AccountInv'
  BY <1>2 DEF BaseInv, AccountInv, AbsentIsUntouched, UpIsAddressed,
     AnswerWasTrue, Present, accountVars, cloudVars
<1>6. DeleteInv'
  BY <1>2 DEF BaseInv, DeleteInv, DeleteNotAimedYet, DeleteHitsItsTarget,
     CliInv, CliTypeOK, Runs, Present, accountVars, cloudVars
<1>7. QED
  BY <1>1, <1>3, <1>4, <1>5, <1>6 DEF BaseInv

LEMMA NoScriptFoundStep ==
  ASSUME ScriptInv, NEW d \in Deleters, NoScriptFound(d)
  PROVE  ScriptInv'
<1>1. BaseInv'
  BY ReturnsStep DEF NoScriptFound, Asks, ScriptInv, DeleterInv
<1>2. /\ pc' = [pc EXCEPT ![d] = "exited"]
      /\ at[d] = "scripts" /\ at' = [at EXCEPT ![d] = First(d)]
      /\ UNCHANGED <<accountVars, scriptVars, hostID>>
  BY DEF NoScriptFound, Asks, DeleteReturns, Exit, Goto, Leaves, GoesOn
<1>3. QED
  BY <1>1, <1>2, NotPicked, FirstOfDelete, DeleteMovesOn DEF accountVars,
     scriptVars

LEMMA ScriptCloudStep ==
  ASSUME ScriptInv, NEW h \in HostIds, CloudStep(h)
  PROVE  ScriptInv'
<1>1. BaseInv'
  BY BootStep, StopStep DEF ScriptInv, CloudStep
<1>2. /\ Present(h)
      /\ \E s \in Statuses : host' = [host EXCEPT ![h] = s]
      /\ wasUp \subseteq wasUp'
      /\ UNCHANGED <<cliVars, victim, owner, at, scriptVars>>
  BY DEF CloudStep, Boot, Stop, Statuses, ActiveStatus
<1>3. \A i \in HostIds : host'[i] = "deleted" <=> host[i] = "deleted"
  BY <1>2 DEF Present, Statuses, ActiveStatus, ScriptInv, ScriptTypeOK,
     AccountTypeOK
<1>4. ScriptsStay
  BY <1>2, <1>3 DEF ScriptsStay, ScriptInv, ScriptTypeOK, cliVars, scriptVars
<1>5. QED
  BY <1>1, <1>4, ScriptsStayStep

(* A request of Provision that makes a script; its run is told of it, asks *)
(* for another one, or ends.                                               *)
LEMMA CreateScriptStep ==
  ASSUME ScriptInv, NEW c \in Creators, CreateScript(c)
  PROVE  ScriptInv'
<1>1. BaseInv'
  <2>1. CASE UNCHANGED cliVars
    <3>1. UNCHANGED vars
      BY <2>1 DEF CreateScript, accountVars, vars
    <3>2. QED
      BY <3>1, BaseStutter DEF ScriptInv
  <2>2. CASE ProvisionFails(c)
    BY <2>2, ProvisionRefusedStep DEF ScriptInv, CreateScript,
       ProvisionRefused, accountVars
  <2>3. QED
    BY <2>1, <2>2 DEF CreateScript, AsksAgain
<1>2. PICK s \in ScriptIds :
        /\ script[s] = "absent"
        /\ script' = [script EXCEPT ![s] = "there"]
        /\ scriptName' = [scriptName EXCEPT ![s] = name[c]]
        /\ \/ /\ scriptID' = [scriptID EXCEPT ![c] = s]
              /\ at' = [at EXCEPT ![c] = "instance"]
              /\ pc' = pc
           \/ UNCHANGED <<scriptID, at, pc>>
           \/ pc' = [pc EXCEPT ![c] = "exited"] /\ UNCHANGED <<scriptID, at>>
  BY DEF CreateScript, GoesOn, AsksAgain, cliVars, ProvisionFails, Exit, Goto
<1>3. /\ pc[c] = "provision" /\ at[c] = "script"
      /\ UNCHANGED <<accountVars, provider, name, label, boots, picked, hostID>>
  BY DEF CreateScript, Asks, AsksAgain, cliVars, ProvisionFails
<1>. /\ ScriptTypeOK /\ CliTypeOK /\ AccountTypeOK /\ at \in [Runs -> Points]
     /\ CreatorInv /\ HostInv /\ GoneForReason /\ DeleterInv /\ Counted
  BY DEF ScriptInv, ScriptTypeOK
<1>4. at' \in [Runs -> Points]
  BY <1>2 DEF Points
<1>5. \A p \in Runs : p # c => pc'[p] = pc[p] /\ at'[p] = at[p]
  BY <1>2 DEF CliTypeOK
<1>6. /\ \A b \in Creators : b # c => scriptID'[b] = scriptID[b]
      /\ \/ pc'[c] = "provision" /\ at'[c] = "instance" /\ scriptID'[c] = s
         \/ /\ pc'[c] \in {"provision", "exited"} /\ at'[c] = "script"
            /\ scriptID'[c] = scriptID[c]
  BY <1>2, <1>3 DEF CliTypeOK, ScriptTypeOK, Runs
<1>7. /\ script'[s] = "there" /\ scriptName'[s] = name[c]
      /\ \A t \in ScriptIds : t # s =>
           script'[t] = script[t] /\ scriptName'[t] = scriptName[t]
      /\ script' \in [ScriptIds -> {"absent", "there", "deleted"}]
      /\ scriptName' \in [ScriptIds -> Names \cup {NoName}]
  BY <1>2 DEF ScriptTypeOK
<1>8. /\ scriptID[c] = NoScript
      /\ \A b \in Creators : scriptID[b] # s
      /\ \A d \in Deleters : picked[d] # s
  BY <1>2, <1>3, ScriptAssumption DEF CreatorInv, DeleterInv
<1>9. /\ \A b \in Creators : scriptID[b] # NoScript => scriptID[b] \in ScriptIds
      /\ \A d \in Deleters : picked[d] # NoScript => picked[d] \in ScriptIds
      /\ s # NoScript
  BY ScriptAssumption DEF ScriptTypeOK
<1>10. ScriptTypeOK'
  <2>1. \A d \in Deleters : at'[d] = at[d]
    BY <1>5, CliAssumption DEF Runs
  <2>2. \A b \in Creators : at'[b] \in {"script", "instance"}
    BY <1>5, <1>6 DEF ScriptTypeOK, Runs
  <2>3. scriptID' \in [Creators -> ScriptIds \cup {NoScript}]
    BY <1>2 DEF ScriptTypeOK
  <2>4. QED
    BY <1>1, <1>3, <1>7, <2>1, <2>2, <2>3 DEF ScriptTypeOK, BaseInv, TypeOK
<1>11. CreatorInv'
  <2>. SUFFICES ASSUME NEW b \in Creators
       PROVE  /\ pc'[b] # "provision" => at'[b] = "script"
              /\ at'[b] = "instance" => scriptID'[b] # NoScript
              /\ pc'[b] \in {"args", "provision"} /\ at'[b] = "script" =>
                   scriptID'[b] = NoScript
              /\ pc'[b] \in {"created", "status", "answered"} =>
                   scriptID'[b] # NoScript
              /\ scriptID'[b] # NoScript =>
                   /\ script'[scriptID'[b]] # "absent"
                   /\ scriptName'[scriptID'[b]] = name'[b]
                   /\ \A a \in Creators : scriptID'[a] = scriptID'[b] => a = b
    BY DEF CreatorInv
  <2>1. CASE b = c
    BY <1>3, <1>6, <1>7, <1>8, <1>9, <2>1
  <2>2. CASE b # c
    <3>1. pc'[b] = pc[b] /\ at'[b] = at[b] /\ scriptID'[b] = scriptID[b]
      BY <1>5, <1>6, <2>2 DEF Runs
    <3>2. ASSUME scriptID[b] # NoScript
          PROVE  /\ script'[scriptID[b]] = script[scriptID[b]]
                 /\ scriptName'[scriptID[b]] = scriptName[scriptID[b]]
                 /\ \A a \in Creators : scriptID'[a] = scriptID[b] => a = b
      BY <1>6, <1>7, <1>8, <1>9, <3>2 DEF CreatorInv
    <3>3. QED
      BY <1>3, <3>1, <3>2 DEF CreatorInv
  <2>3. QED
    BY <2>1, <2>2
<1>12. HostInv'
  <2>1. UNCHANGED owner
    BY <1>3 DEF accountVars, cloudVars
  <2>2. \A h \in HostIds : owner[h] # Nobody =>
          owner[h] \in Creators /\ owner[h] # c
    BY <1>8 DEF HostInv, AccountTypeOK
  <2>3. QED
    BY <1>3, <1>6, <2>1, <2>2 DEF HostInv
<1>13. GoneForReason'
  <2>. SUFFICES ASSUME NEW t \in ScriptIds, script'[t] = "deleted"
       PROVE  \/ /\ provider = "linode"
                 /\ \E b \in Creators : scriptID'[b] = t /\ hostID[b] \in wasUp
              \/ /\ provider = "vultr"
                 /\ \E h \in HostIds :
                      host[h] = "deleted" /\ label[h] = scriptName'[t]
    BY <1>3 DEF GoneForReason, accountVars, cloudVars
  <2>1. t # s /\ script[t] = "deleted" /\ scriptName'[t] = scriptName[t]
    BY <1>7
  <2>2. \A b \in Creators : scriptID[b] = t => scriptID'[b] = t
    BY <1>6, <1>8, ScriptAssumption
  <2>3. QED
    BY <2>1, <2>2 DEF GoneForReason
<1>14. DeleterInv'
  <2>1. \A d \in Deleters : d \in Runs /\ d # c
    BY CliAssumption DEF Runs
  <2>2. \A d \in Deleters : picked[d] # NoScript =>
          /\ script'[picked[d]] = script[picked[d]]
          /\ scriptName'[picked[d]] = scriptName[picked[d]]
    BY <1>7, <1>8, <1>9
  <2>3. UNCHANGED <<victim, host, provider, picked, label>>
    BY <1>3 DEF accountVars, cloudVars
  <2>4. QED
    BY <1>5, <2>1, <2>2, <2>3 DEF DeleterInv
<1>15. Counted'
  <2>. SUFFICES ASSUME provider = "vultr", NEW n \in Names
                PROVE  Tally(HostsGone(n), Deleting(n), ScriptsGone(n))'
    BY <1>3 DEF Counted
  <2>1. HostsGone(n)' = HostsGone(n)
    BY <1>3 DEF HostsGone, accountVars, cloudVars
  <2>2. Deleting(n)' = Deleting(n)
    BY <1>3, <1>5, CliAssumption DEF Deleting, Runs, accountVars
  <2>3. ScriptsGone(n)' = ScriptsGone(n)
    BY <1>2, <1>7 DEF ScriptsGone
  <2>4. Tally(HostsGone(n), Deleting(n), ScriptsGone(n))
    BY DEF Counted
  <2>5. QED
    BY <2>1, <2>2, <2>3, <2>4
<1>16. QED
  BY <1>1, <1>4, <1>10, <1>11, <1>12, <1>13, <1>14, <1>15 DEF ScriptInv

(* A request of Provision that makes a host, of which its run is told or   *)
(* never hears.                                                            *)
LEMMA CreateInstanceStep ==
  ASSUME ScriptInv, NEW c \in Creators, CreateInstance(c)
  PROVE  ScriptInv'
<1>1. PICK h \in HostIds :
        /\ Make(c, h)
        /\ label' = [label EXCEPT ![h] = name[c]]
        /\ boots' = [boots EXCEPT ![h] = scriptID[c]]
        /\ \/ (ProvisionReturns(c, h) \/ ProvisionFails(c)) /\ Leaves(c)
           \/ AsksAgain
  BY DEF CreateInstance
<1>2. BaseInv'
  <2>1. CASE ProvisionReturns(c, h) \/ ProvisionFails(c)
    BY <1>1, <2>1, ProvisionStep DEF ScriptInv, CreateInstance, Provision
  <2>2. CASE AsksAgain
    BY <1>1, <2>2, MakeStep DEF ScriptInv, CreateInstance, AsksAgain, Asks
  <2>3. QED
    BY <1>1, <2>1, <2>2
<1>3. /\ pc[c] = "provision" /\ at[c] = "instance"
      /\ \/ pc' = [pc EXCEPT ![c] = "created"] /\ at' = [at EXCEPT ![c] = "script"]
         \/ pc' = [pc EXCEPT ![c] = "exited"] /\ at' = [at EXCEPT ![c] = "script"]
         \/ UNCHANGED <<pc, at>>
      /\ hostID' = [hostID EXCEPT ![c] = h] \/ hostID' = hostID
      /\ UNCHANGED <<wasUp, victim, provider, name, script, scriptName,
                     scriptID, picked>>
  BY <1>1 DEF CreateInstance, Make, ProvisionReturns, ProvisionFails, Exit,
     Goto, Asks, Leaves, GoesOn, First, AsksAgain, cliVars
<1>. /\ ScriptTypeOK /\ CliTypeOK /\ AccountTypeOK /\ at \in [Runs -> Points]
     /\ CreatorInv /\ HostInv /\ GoneForReason /\ DeleterInv /\ Counted
  BY DEF ScriptInv, ScriptTypeOK
<1>4. /\ host[h] = "absent" /\ owner[h] = Nobody
      /\ \A d \in Deleters : victim[d] # h
  BY <1>1 DEF ScriptInv, BaseInv, AccountInv, AbsentIsUntouched, Make
<1>5. /\ owner'[h] = c /\ host'[h] = "creating"
      /\ label'[h] = name[c] /\ boots'[h] = scriptID[c]
      /\ \A i \in HostIds : i # h =>
           /\ owner'[i] = owner[i] /\ host'[i] = host[i]
           /\ label'[i] = label[i] /\ boots'[i] = boots[i]
  BY <1>1 DEF Make, AccountTypeOK, ScriptTypeOK
<1>6. at' \in [Runs -> Points]
  BY <1>3 DEF Points
<1>7. /\ \A p \in Runs : p # c => pc'[p] = pc[p] /\ at'[p] = at[p]
      /\ \/ pc'[c] \in {"created", "exited"} /\ at'[c] = "script"
         \/ pc'[c] = "provision" /\ at'[c] = "instance"
  BY <1>3 DEF CliTypeOK, Runs
<1>8. \A d \in Deleters : d \in Runs /\ d # c
  BY CliAssumption DEF Runs
<1>9. ScriptTypeOK'
  <2>1. \A d \in Deleters : at'[d] = at[d]
    BY <1>7, <1>8
  <2>2. \A b \in Creators : at'[b] \in {"script", "instance"}
    BY <1>7 DEF ScriptTypeOK, Runs
  <2>3. /\ label' \in [HostIds -> Names \cup {NoName}]
        /\ boots' \in [HostIds -> ScriptIds \cup {NoScript}]
    BY <1>1 DEF ScriptTypeOK
  <2>4. QED
    BY <1>2, <1>3, <2>1, <2>2, <2>3 DEF ScriptTypeOK, BaseInv, TypeOK
<1>10. CreatorInv'
  BY <1>3, <1>7 DEF CreatorInv, Runs
<1>11. HostInv'
  BY <1>3, <1>5 DEF HostInv, CreatorInv
<1>12. GoneForReason'
  <2>. SUFFICES ASSUME NEW s \in ScriptIds, script[s] = "deleted"
       PROVE  \/ /\ provider = "linode"
                 /\ \E b \in Creators : scriptID[b] = s /\ hostID'[b] \in wasUp
              \/ /\ provider = "vultr"
                 /\ \E i \in HostIds :
                      host'[i] = "deleted" /\ label'[i] = scriptName[s]
    BY <1>3 DEF GoneForReason
  <2>1. CASE provider = "linode"
    <3>1. PICK b \in Creators : scriptID[b] = s /\ hostID[b] \in wasUp
      BY <2>1 DEF GoneForReason
    <3>2. hostID[c] = NoHost
      BY <1>3 DEF ScriptInv, BaseInv, CliInv, IdSinceProvision
    <3>3. hostID'[b] = hostID[b]
      BY <1>3, <3>1, <3>2, CliAssumption DEF CliTypeOK, AccountTypeOK
    <3>4. QED
      BY <2>1, <3>1, <3>3
  <2>2. CASE provider # "linode"
    <3>1. PICK i \in HostIds : host[i] = "deleted" /\ label[i] = scriptName[s]
      BY <2>2 DEF GoneForReason
    <3>2. i # h
      BY <1>4, <3>1
    <3>3. QED
      BY <1>5, <2>2, <3>1, <3>2 DEF GoneForReason
  <2>3. QED
    BY <2>1, <2>2
<1>13. \A d \in Deleters : victim[d] # NoHost =>
         /\ victim[d] \in HostIds
         /\ label'[victim[d]] = label[victim[d]]
         /\ host'[victim[d]] = host[victim[d]]
  BY <1>4, <1>5 DEF AccountTypeOK
<1>14. DeleterInv'
  BY <1>3, <1>7, <1>8, <1>13 DEF DeleterInv
<1>15. Counted'
  <2>. SUFFICES ASSUME provider = "vultr", NEW n \in Names
                PROVE  Tally(HostsGone(n), Deleting(n), ScriptsGone(n))'
    BY <1>3 DEF Counted
  <2>1. ScriptsGone(n)' = ScriptsGone(n)
    BY <1>3 DEF ScriptsGone
  <2>2. HostsGone(n)' = HostsGone(n)
    BY <1>4, <1>5 DEF HostsGone
  <2>3. Deleting(n)' = Deleting(n)
    BY <1>3, <1>7, <1>8, <1>13 DEF Deleting, DeleterInv
  <2>4. Tally(HostsGone(n), Deleting(n), ScriptsGone(n))
    BY DEF Counted
  <2>5. QED
    BY <2>1, <2>2, <2>3, <2>4
<1>16. QED
  BY <1>2, <1>6, <1>9, <1>10, <1>11, <1>12, <1>14, <1>15 DEF ScriptInv

(* A host goes, and its delete has something left to do.                   *)
LEMMA EraseStep ==
  ASSUME BaseInv, NEW d \in Deleters, victim[d] # NoHost, Erase(victim[d]),
         UNCHANGED <<cliVars, target, victim>>
  PROVE  BaseInv'
<1>. /\ AccountTypeOK /\ CliInv /\ victim[d] \in HostIds
  BY DEF BaseInv, TypeOK, AccountTypeOK
<1>1. CliInv'
  BY CliUnchanged DEF BaseInv
<1>2. TypeOK'
  BY <1>1, CliAssumption DEF TypeOK, CliInv, AccountTypeOK, HostStates, Erase
<1>3. HoldsOwn'
  BY DEF BaseInv, HoldsOwn, Erase, cliVars
<1>4. AccountInv'
  BY CliAssumption, CloudAssumption DEF BaseInv, AccountInv,
     AbsentIsUntouched, UpIsAddressed, AnswerWasTrue, Present, Statuses,
     ActiveStatus, AccountTypeOK, Erase, cliVars
<1>5. DeleteInv'
  BY DEF BaseInv, DeleteInv, DeleteNotAimedYet, DeleteHitsItsTarget, Present,
     Statuses, ActiveStatus, AccountTypeOK, Erase, cliVars
<1>6. QED
  BY <1>1, <1>2, <1>3, <1>4, <1>5 DEF BaseInv

(* The request of Delete that erases the host, after which the run ends or *)
(* goes on to look for the script.                                         *)
LEMMA DeleteInstanceStep ==
  ASSUME ScriptInv, NEW d \in Deleters, DeleteInstance(d)
  PROVE  ScriptInv'
<1>. DEFINE v == victim[d]
<1>1. BaseInv'
  <2>1. CASE DeleteReturns(d) \/ DeleteFails(d)
    BY <2>1, RemoveStep DEF ScriptInv, DeleteInstance, Remove
  <2>2. CASE UNCHANGED cliVars
    BY <2>2, EraseStep DEF ScriptInv, DeleteInstance
  <2>3. QED
    BY <2>1, <2>2 DEF DeleteInstance
<1>2. /\ pc[d] = "delete" /\ at[d] = "remove" /\ v # NoHost
      /\ Present(v)
      /\ host' = [host EXCEPT ![v] = "deleted"]
      /\ UNCHANGED <<owner, wasUp, victim, scriptVars, hostID>>
  BY DEF DeleteInstance, Asks, Erase, DeleteReturns, DeleteFails, cliVars
<1>3. \/ /\ pc' = [pc EXCEPT ![d] = "exited"]
         /\ at' = [at EXCEPT ![d] = First(d)]
      \/ /\ pc' = pc /\ provider = "vultr"
         /\ at' = [at EXCEPT ![d] = "scripts"]
  BY DEF DeleteInstance, DeleteReturns, DeleteFails, Exit, Goto, Leaves,
     GoesOn, cliVars
<1>. /\ ScriptTypeOK /\ CliTypeOK /\ AccountTypeOK /\ at \in [Runs -> Points]
     /\ CreatorInv /\ HostInv /\ GoneForReason /\ DeleterInv /\ Counted
  BY DEF ScriptInv, ScriptTypeOK
<1>4. v \in HostIds
  BY <1>2 DEF AccountTypeOK
<1>5. picked[d] = NoScript
  BY <1>2, NotPicked
<1>. HIDE DEF v
<1>6. /\ host'[v] = "deleted" /\ host[v] # "deleted"
      /\ \A h \in HostIds : h # v => host'[h] = host[h]
  BY <1>2, <1>4 DEF AccountTypeOK, Present, Statuses, ActiveStatus
<1>7. /\ \A p \in Runs : p # d => pc'[p] = pc[p] /\ at'[p] = at[p]
      /\ \/ pc'[d] = "exited" /\ at'[d] = First(d)
         \/ pc'[d] = "delete" /\ at'[d] = "scripts" /\ provider = "vultr"
  BY <1>2, <1>3 DEF CliTypeOK, Runs
<1>8. at' \in [Runs -> Points]
  BY <1>3, FirstOfDelete DEF Points
<1>9. \A c \in Creators : c \in Runs /\ c # d
  BY CliAssumption DEF Runs
<1>10. ScriptTypeOK'
  <2>1. \A e \in Deleters : at'[e] \in {"get", "remove", "scripts", "script"}
    BY <1>7, FirstOfDelete DEF ScriptTypeOK, Runs
  <2>2. \A c \in Creators : at'[c] \in {"script", "instance"}
    BY <1>7, <1>9 DEF ScriptTypeOK
  <2>3. QED
    BY <1>1, <1>2, <2>1, <2>2 DEF ScriptTypeOK, BaseInv, TypeOK, scriptVars,
       storeVars
<1>11. CreatorInv'
  BY <1>2, <1>7, <1>9 DEF CreatorInv, scriptVars, storeVars
<1>12. HostInv'
  BY <1>2 DEF HostInv, scriptVars, storeVars
<1>13. GoneForReason'
  BY <1>2, <1>6 DEF GoneForReason, scriptVars, storeVars
<1>14. DeleterInv'
  <2>. SUFFICES ASSUME NEW e \in Deleters
       PROVE  /\ provider' = "linode" => at'[e] = "remove"
              /\ pc'[e] # "delete" => at'[e] \notin {"scripts", "script"}
              /\ at'[e] \in {"scripts", "script"} =>
                   victim'[e] # NoHost /\ host'[victim'[e]] = "deleted"
              /\ picked'[e] # NoScript =>
                   /\ at'[e] = "script"
                   /\ script'[picked'[e]] # "absent"
                   /\ scriptName'[picked'[e]] = label'[victim'[e]]
              /\ at'[e] = "script" => picked'[e] # NoScript
    BY DEF DeleterInv
  <2>1. CASE e = d
    BY <1>2, <1>5, <1>6, <1>7, <2>1, FirstOfDelete DEF scriptVars, v
  <2>2. CASE e # d
    <3>1. pc'[e] = pc[e] /\ at'[e] = at[e]
      BY <1>7, <2>2 DEF Runs
    <3>2. victim[e] # NoHost /\ host[victim[e]] = "deleted" =>
            host'[victim[e]] = "deleted"
      BY <1>6 DEF AccountTypeOK
    <3>3. QED
      BY <1>2, <3>1, <3>2 DEF DeleterInv, scriptVars, storeVars
  <2>3. QED
    BY <2>1, <2>2
<1>15. Counted'
  <2>. SUFFICES ASSUME provider = "vultr", NEW n \in Names
                PROVE  Tally(HostsGone(n), Deleting(n), ScriptsGone(n))'
    BY <1>2 DEF Counted, scriptVars
  <2>1. ScriptsGone(n)' = ScriptsGone(n)
    BY <1>2 DEF ScriptsGone, scriptVars, storeVars
  <2>2. Tally(HostsGone(n), Deleting(n), ScriptsGone(n))
    BY DEF Counted
  <2>3. UNCHANGED <<label, victim>>
    BY <1>2 DEF scriptVars, storeVars
  <2>4. CASE label[v] = n
    <3>1. v \notin HostsGone(n) /\ HostsGone(n)' = HostsGone(n) \cup {v}
      BY <1>4, <1>6, <2>3, <2>4 DEF HostsGone
    <3>2. Deleting(n)' \subseteq Deleting(n) \cup {d}
      BY <1>7, <2>3 DEF Deleting, Runs
    <3>3. Tally(HostsGone(n) \cup {v}, Deleting(n)', ScriptsGone(n))
      BY <2>2, <3>1, <3>2, TallyErase
    <3>4. QED
      BY <2>1, <3>1, <3>3
  <2>5. CASE label[v] # n
    <3>1. HostsGone(n)' = HostsGone(n)
      BY <1>6, <2>3, <2>5 DEF HostsGone
    <3>2. Deleting(n)' \subseteq Deleting(n)
      BY <1>7, <2>3, <2>5 DEF Deleting, Runs, v
    <3>3. QED
      BY <2>1, <2>2, <3>1, <3>2, TallyFewer
  <2>6. QED
    BY <2>4, <2>5
<1>16. QED
  BY <1>1, <1>8, <1>10, <1>11, <1>12, <1>13, <1>14, <1>15 DEF ScriptInv

(* The delete finds a script named like its host.                          *)
LEMMA PickScriptStep ==
  ASSUME ScriptInv, NEW d \in Deleters, PickScript(d)
  PROVE  ScriptInv'
<1>1. UNCHANGED vars
  BY DEF PickScript, accountVars, vars
<1>2. BaseInv'
  BY <1>1, BaseStutter DEF ScriptInv
<1>3. PICK s \in ScriptsLike(victim[d]) : picked' = [picked EXCEPT ![d] = s]
  BY DEF PickScript
<1>. /\ ScriptTypeOK /\ AccountTypeOK /\ at \in [Runs -> Points]
     /\ CreatorInv /\ HostInv /\ GoneForReason /\ DeleterInv /\ Counted
  BY DEF ScriptInv, ScriptTypeOK
<1>4. /\ pc[d] = "delete" /\ at[d] = "scripts"
      /\ at' = [at EXCEPT ![d] = "script"]
      /\ UNCHANGED <<cliVars, accountVars, provider, name, scriptID, storeVars>>
  BY DEF PickScript, Asks, GoesOn
<1>5. /\ s \in ScriptIds /\ script[s] = "there"
      /\ scriptName[s] = label[victim[d]]
      /\ s # NoScript
  BY ScriptAssumption DEF ScriptsLike
<1>6. /\ at'[d] = "script"
      /\ \A p \in Runs : p # d => at'[p] = at[p]
  BY <1>4 DEF Runs
<1>7. /\ picked'[d] = s
      /\ \A e \in Deleters : e # d => picked'[e] = picked[e]
      /\ picked' \in [Deleters -> ScriptIds \cup {NoScript}]
  BY <1>3, <1>5 DEF ScriptTypeOK
<1>8. \A b \in Creators : b \in Runs /\ b # d
  BY CliAssumption DEF Runs
<1>9. /\ \A e \in Deleters : at[e] # "script" => picked[e] = NoScript
      /\ provider = "vultr"
  BY <1>4, ScriptAssumption DEF DeleterInv, ScriptTypeOK
<1>10. at' \in [Runs -> Points]
  BY <1>4 DEF Points
<1>11. ScriptTypeOK'
  <2>1. \A e \in Deleters : at'[e] \in {"get", "remove", "scripts", "script"}
    BY <1>6 DEF ScriptTypeOK, Runs
  <2>2. \A b \in Creators : at'[b] \in {"script", "instance"}
    BY <1>6, <1>8 DEF ScriptTypeOK
  <2>3. QED
    BY <1>2, <1>4, <1>7, <2>1, <2>2 DEF ScriptTypeOK, BaseInv, TypeOK,
       storeVars
<1>12. CreatorInv'
  BY <1>4, <1>6, <1>8 DEF CreatorInv, storeVars, cliVars
<1>13. DeleterInv'
  <2>1. \A e \in Deleters : e \in Runs
    BY DEF Runs
  <2>2. UNCHANGED <<pc, provider, victim, host, script, scriptName, label>>
    BY <1>4 DEF accountVars, cloudVars, cliVars, storeVars
  <2>3. QED
    BY <1>4, <1>5, <1>6, <1>7, <1>9, <2>1, <2>2 DEF DeleterInv
<1>14. HostInv' /\ GoneForReason'
  BY <1>4 DEF HostInv, GoneForReason, accountVars, cloudVars, storeVars, cliVars
<1>15. Counted'
  <2>. SUFFICES ASSUME NEW n \in Names
                PROVE  Tally(HostsGone(n), Deleting(n), ScriptsGone(n))'
    BY DEF Counted
  <2>1. ScriptsGone(n)' = ScriptsGone(n) /\ HostsGone(n)' = HostsGone(n)
    BY <1>4 DEF ScriptsGone, HostsGone, accountVars, cloudVars, storeVars
  <2>2. Deleting(n)' = Deleting(n)
    BY <1>4, <1>6 DEF Deleting, Runs, accountVars, storeVars
  <2>3. QED
    BY <1>9, <2>1, <2>2 DEF Counted
<1>16. QED
  BY <1>2, <1>10, <1>11, <1>12, <1>13, <1>14, <1>15 DEF ScriptInv

(* The delete drops the script it has found, which has the name of a host  *)
(* that has gone.                                                          *)
LEMMA DropScriptStep ==
  ASSUME ScriptInv, NEW d \in Deleters, DropScript(d)
  PROVE  ScriptInv'
<1>. DEFINE v == victim[d]
            s == picked[d]
<1>. /\ ScriptTypeOK /\ AccountTypeOK /\ CliTypeOK /\ at \in [Runs -> Points]
     /\ CreatorInv /\ HostInv /\ GoneForReason /\ DeleterInv /\ Counted
  BY DEF ScriptInv, ScriptTypeOK
<1>1. pc[d] = "delete" /\ at[d] = "script" /\ DeleteReturns(d)
  BY DEF DropScript, Asks
<1>2. /\ v \in HostIds /\ host[v] = "deleted"
      /\ s \in ScriptIds /\ script[s] # "absent" /\ scriptName[s] = label[v]
      /\ provider = "vultr"
  BY <1>1, ScriptAssumption DEF DeleterInv, AccountTypeOK, ScriptTypeOK
<1>3. BaseInv'
  BY <1>1, <1>2, ReturnsStep DEF ScriptInv, DropScript, DeleterInv
<1>4. /\ pc' = [pc EXCEPT ![d] = "exited"]
      /\ at' = [at EXCEPT ![d] = First(d)]
      /\ picked' = [picked EXCEPT ![d] = NoScript]
      /\ script' \in {script, [script EXCEPT ![s] = "deleted"]}
      /\ UNCHANGED <<accountVars, provider, name, scriptID, label, scriptName,
                     boots, hostID>>
  BY <1>1 DEF DropScript, DeleteReturns, Exit, Goto, Leaves, GoesOn
<1>. HIDE DEF v, s
<1>5. /\ \A p \in Runs : p # d => pc'[p] = pc[p] /\ at'[p] = at[p]
      /\ at'[d] = First(d) /\ pc'[d] = "exited"
      /\ at' \in [Runs -> Points]
  BY <1>4, FirstOfDelete DEF CliTypeOK, Points, Runs
<1>6. /\ \A t \in ScriptIds : t # s => script'[t] = script[t]
      /\ script'[s] \in {script[s], "deleted"}
      /\ script' \in [ScriptIds -> {"absent", "there", "deleted"}]
  BY <1>2, <1>4 DEF ScriptTypeOK
<1>7. /\ picked'[d] = NoScript
      /\ \A e \in Deleters : e # d => picked'[e] = picked[e]
      /\ picked' \in [Deleters -> ScriptIds \cup {NoScript}]
  BY <1>4 DEF ScriptTypeOK
<1>8. \A c \in Creators : c \in Runs /\ c # d
  BY CliAssumption DEF Runs
<1>9. \A t \in ScriptIds : script[t] # "absent" => script'[t] # "absent"
  BY <1>6
<1>10. ScriptTypeOK'
  <2>1. \A e \in Deleters : at'[e] \in {"get", "remove", "scripts", "script"}
    BY <1>5, FirstOfDelete DEF ScriptTypeOK, Runs
  <2>2. \A c \in Creators : at'[c] \in {"script", "instance"}
    BY <1>5, <1>8 DEF ScriptTypeOK
  <2>3. QED
    BY <1>3, <1>4, <1>6, <1>7, <2>1, <2>2 DEF ScriptTypeOK, BaseInv, TypeOK
<1>11. CreatorInv'
  <2>1. \A c \in Creators : scriptID[c] # NoScript => scriptID[c] \in ScriptIds
    BY DEF ScriptTypeOK
  <2>2. QED
    BY <1>4, <1>5, <1>8, <1>9, <2>1 DEF CreatorInv
<1>12. HostInv'
  BY <1>4 DEF HostInv, accountVars, cloudVars
<1>13. GoneForReason'
  BY <1>2, <1>4, <1>6 DEF GoneForReason, accountVars, cloudVars
<1>14. DeleterInv'
  <2>1. \A e \in Deleters : /\ e \in Runs
                            /\ picked[e] # NoScript => picked[e] \in ScriptIds
    BY DEF ScriptTypeOK, Runs
  <2>2. UNCHANGED <<provider, victim, host, label, scriptName>>
    BY <1>4 DEF accountVars, cloudVars
  <2>3. QED
    BY <1>5, <1>7, <1>9, <2>1, <2>2, FirstOfDelete DEF DeleterInv
<1>15. Counted'
  <2>. SUFFICES ASSUME NEW n \in Names
                PROVE  Tally(HostsGone(n), Deleting(n), ScriptsGone(n))'
    BY DEF Counted
  <2>1. HostsGone(n)' = HostsGone(n)
    BY <1>4 DEF HostsGone, accountVars, cloudVars
  <2>2. Deleting(n)' \subseteq Deleting(n) \ {d}
    BY <1>4, <1>5, FirstOfDelete DEF Deleting, Runs, accountVars
  <2>3. Tally(HostsGone(n), Deleting(n), ScriptsGone(n))
    BY <1>2 DEF Counted
  <2>4. CASE ScriptsGone(n)' = ScriptsGone(n)
    BY <2>1, <2>2, <2>3, <2>4, TallyFewer
  <2>5. CASE ScriptsGone(n)' # ScriptsGone(n)
    <3>1. scriptName[s] = n /\ ScriptsGone(n)' = ScriptsGone(n) \cup {s}
      BY <1>2, <1>4, <1>6, <2>5 DEF ScriptsGone
    <3>2. d \in Deleting(n)
      BY <1>1, <1>2, <3>1 DEF Deleting, v
    <3>3. Tally(HostsGone(n), Deleting(n) \ {d}, ScriptsGone(n) \cup {s})
      BY <2>3, <3>2, TallyDrop
    <3>4. QED
      BY <2>1, <2>2, <3>1, <3>3, TallyFewer
  <2>6. QED
    BY <2>4, <2>5
<1>16. QED
  BY <1>3, <1>5, <1>10, <1>11, <1>12, <1>13, <1>14, <1>15 DEF ScriptInv

----------------------------------------------------------------------------
(* Every step, and what follows                                            *)

LEMMA ScriptNextInv == ScriptInv /\ [ScriptNext]_scriptCloudVars => ScriptInv'
<1>. SUFFICES ASSUME ScriptInv, [ScriptNext]_scriptCloudVars PROVE ScriptInv'
  OBVIOUS
<1>1. ASSUME NEW c \in Creators, ScriptCreateStep(c) PROVE ScriptInv'
  BY <1>1, ScriptRunsMove, CreateScriptStep, CreateInstanceStep,
     ProvisionGivesUpStep, StatusDropsScriptStep DEF ScriptCreateStep
<1>2. ASSUME NEW d \in Deleters, ScriptDeleteStep(d) PROVE ScriptInv'
  BY <1>2, ScriptStartDeleteStep, ScriptRejectArgsStep, LookupVultrStep,
     GetInstanceStep, DeleteInstanceStep, PickScriptStep, NoScriptFoundStep,
     DropScriptStep, DeleteGivesUpStep DEF ScriptDeleteStep
<1>3. ASSUME NEW p \in Runs, ScriptKill(p) PROVE ScriptInv'
  BY <1>3, ScriptKillStep
<1>4. ASSUME NEW h \in HostIds, CloudStep(h) PROVE ScriptInv'
  BY <1>4, ScriptCloudStep
<1>5. CASE UNCHANGED scriptCloudVars
  BY <1>5, ScriptStutter
<1>6. QED
  BY <1>1, <1>2, <1>3, <1>4, <1>5 DEF ScriptNext

LEMMA ScriptInvariance == ScriptSpec => []ScriptInv
BY ScriptInitInv, ScriptNextInv, PTL DEF ScriptSpec

(* Every variable keeps its type, and each run asks only for requests its  *)
(* provider has (linode.go, vultr.go).                                     *)
THEOREM ScriptTypeCorrect == ScriptSpec => []ScriptTypeOK
<1>1. ScriptInv => ScriptTypeOK
  BY DEF ScriptInv
<1>2. QED
  BY <1>1, ScriptInvariance, PTL

(* A host that has not been up finds the script it boots with: at Linode   *)
(* if it is the one its run was told of, at Vultr until another host of    *)
(* the same label is deleted, whichever requests fail or are repeated      *)
(* (linode.go:131-139, vultr.go:84-115, govultr.go:91-99).                 *)
THEOREM BootsWithItsScriptAlways == ScriptSpec => []BootsWithItsScript
<1>1. ScriptInv => BootsWithItsScript
  <2>. SUFFICES ASSUME ScriptInv, NEW h \in HostIds, owner[h] # Nobody,
                       Present(h), h \notin wasUp,
                       IF provider = "linode" THEN KnownToItsRun(h)
                                              ELSE ~NamesakeDeleted(h)
                PROVE  script[boots[h]] = "there"
    BY DEF BootsWithItsScript
  <2>. DEFINE c == owner[h]
              s == boots[h]
  <2>1. /\ ScriptTypeOK /\ AccountTypeOK /\ CreatorInv /\ HostInv
        /\ GoneForReason
    BY DEF ScriptInv, ScriptTypeOK
  <2>2. /\ c \in Creators /\ s = scriptID[c] /\ s \in ScriptIds
        /\ label[h] = name[c]
    BY <2>1 DEF HostInv, AccountTypeOK, ScriptTypeOK
  <2>3. /\ script[s] # "absent" /\ scriptName[s] = name[c]
        /\ \A b \in Creators : scriptID[b] = s => b = c
    BY <2>1, <2>2, ScriptAssumption DEF CreatorInv
  <2>4. host[h] # "deleted"
    BY DEF Present, Statuses, ActiveStatus
  <2>. HIDE DEF c, s
  <2>5. ASSUME script[s] = "deleted", provider = "linode" PROVE FALSE
    <3>1. hostID[c] \in wasUp
      BY <2>1, <2>2, <2>3, <2>5 DEF GoneForReason
    <3>2. hostID[c] \in {h, NoHost}
      BY <2>2, <2>5 DEF KnownToItsRun, c
    <3>3. QED
      BY <2>1, <3>1, <3>2, CliAssumption DEF AccountTypeOK
  <2>6. ASSUME script[s] = "deleted", provider # "linode" PROVE FALSE
    <3>1. PICK g \in HostIds : host[g] = "deleted" /\ label[g] = scriptName[s]
      BY <2>1, <2>2, <2>6 DEF GoneForReason
    <3>2. QED
      BY <2>2, <2>3, <2>4, <2>6, <3>1 DEF NamesakeDeleted
  <2>7. QED
    BY <2>1, <2>2, <2>3, <2>5, <2>6 DEF ScriptTypeOK, s
<1>2. QED
  BY <1>1, ScriptInvariance, PTL

(* With Vultr no more scripts of a name go than hosts of that name have    *)
(* gone, however many hosts and scripts have it and whoever made them      *)
(* (vultr.go:84-115).                                                      *)
THEOREM ScriptPerDeletedHostAlways == ScriptSpec => []ScriptPerDeletedHost
<1>1. ScriptInv => ScriptPerDeletedHost
  <2>. SUFFICES ASSUME ScriptInv, provider = "vultr", NEW n \in Names
                PROVE  Cardinality(ScriptsGone(n)) <= Cardinality(HostsGone(n))
    BY DEF ScriptPerDeletedHost, ScriptsGone, HostsGone
  <2>1. Tally(HostsGone(n), Deleting(n), ScriptsGone(n))
    BY DEF ScriptInv, Counted
  <2>2. /\ Cardinality(HostsGone(n)) \in Nat
        /\ Cardinality(Deleting(n)) \in Nat
        /\ Cardinality(ScriptsGone(n)) \in Nat
    BY <2>1, FS_CardinalityType DEF Tally
  <2>3. QED
    BY <2>1, <2>2 DEF Tally
<1>2. QED
  BY <1>1, ScriptInvariance, PTL

(* What SummaryCorrect and DeleteCorrect say of the one-request providers  *)
(* holds with Linode and Vultr too, although one run may make several      *)
(* hosts: the summary is about the one it was told of (create.go:346-411), *)
(* and a delete that reports success has removed its host before it looked *)
(* for the script (vultr.go:90-115).                                       *)
THEOREM ScriptAccountAlways ==
  ScriptSpec => [](SummaryIsOwnHost /\ DeleteHitsItsTarget)
<1>1. ScriptInv => SummaryIsOwnHost /\ DeleteHitsItsTarget
  BY CliAssumption DEF ScriptInv, BaseInv, DeleteInv, TypeOK, AccountTypeOK,
     CliInv, SummaryIsLast, HoldsOwn, AccountInv, AnswerWasTrue,
     SummaryIsOwnHost
<1>2. QED
  BY <1>1, ScriptInvariance, PTL

LEMMA ScriptPromiseStep ==
  ScriptInv /\ PromiseInv /\ [ScriptNext]_scriptCloudVars =>
    PromiseInv' /\ Promised
<1>. SUFFICES ASSUME ScriptInv, PromiseInv, [ScriptNext]_scriptCloudVars
              PROVE  PromiseInv' /\ Promised
  OBVIOUS
<1>. CliInv /\ AccountTypeOK
  BY DEF ScriptInv, BaseInv, TypeOK
<1>1. ASSUME NEW c \in Creators, ScriptCreateStep(c)
      PROVE  PromiseInv' /\ Promised
  <2>1. CASE CreateInstance(c)
    <3>1. PICK h \in HostIds :
            /\ Make(c, h)
            /\ \/ ProvisionReturns(c, h) \/ ProvisionFails(c)
               \/ UNCHANGED cliVars
      BY <2>1 DEF CreateInstance, AsksAgain
    <3>2. QED
      BY <2>1, <3>1, LaunchKeeps DEF CreateInstance, Make
  <2>2. CASE StatusDropsScript(c)
    BY <2>2, StatusKeeps DEF StatusDropsScript
  <2>3. CASE CreateScript(c) \/ ProvisionGivesUp(c)
    BY <2>3, QuietCreate DEF CreateScript, AsksAgain, ProvisionGivesUp,
       accountVars, cloudVars
  <2>4. CASE /\ \/ AcceptCreate(c) \/ RejectArgs(c) \/ PrintHost(c)
                \/ HandleStatus(c) \/ StatusFails(c)
             /\ UNCHANGED <<accountVars, at, scriptVars>>
    BY <2>4, QuietCreate, HandleStatusKeeps DEF accountVars, cloudVars
  <2>5. QED
    BY <1>1, <2>1, <2>2, <2>3, <2>4 DEF ScriptCreateStep
<1>2. ASSUME NEW d \in Deleters, ScriptDeleteStep(d)
      PROVE  PromiseInv' /\ Promised
  <2>1. CASE StartDelete(d) \/ LookupVultr(d)
    BY <2>1, AimKeeps DEF LookupVultr
  <2>2. CASE DeleteInstance(d)
    BY <2>2, EraseKeeps DEF DeleteInstance, AccountTypeOK
  <2>3. CASE \/ RejectArgs(d) /\ UNCHANGED accountVars
             \/ GetInstance(d) \/ PickScript(d) \/ NoScriptFound(d)
             \/ DropScript(d) \/ DeleteGivesUp(d)
    BY <2>3, QuietDelete DEF GetInstance, PickScript, NoScriptFound,
       DropScript, DeleteGivesUp, accountVars, cloudVars
  <2>4. QED
    BY <1>2, <2>1, <2>2, <2>3 DEF ScriptDeleteStep
<1>3. ASSUME NEW p \in Runs, ScriptKill(p) PROVE PromiseInv' /\ Promised
  BY <1>3, InterruptKeeps DEF ScriptKill, accountVars, cloudVars
<1>4. ASSUME NEW h \in HostIds, CloudStep(h) PROVE PromiseInv' /\ Promised
  BY <1>4, BootKeeps, StopKeeps DEF CloudStep
<1>5. CASE UNCHANGED scriptCloudVars
  BY <1>5, StutterKeeps DEF scriptCloudVars, accountVars, cloudVars
<1>6. QED
  BY <1>1, <1>2, <1>3, <1>4, <1>5 DEF ScriptNext

(* create and delete against Linode and Vultr implement the promise to the *)
(* user, whichever requests their clients repeat (README.md:67,            *)
(* create.go:358, delete.go:163).                                          *)
THEOREM ScriptImplements == ScriptSpec => KeepsThePromise
<1>1. ScriptInit => PromiseInv /\ Promise!Init
  BY PromiseInit, PromiseInvInit DEF ScriptInit
<1>2. ScriptInv /\ PromiseInv /\ [ScriptNext]_scriptCloudVars =>
        PromiseInv' /\ [Promise!Next]_(Promise!serverVars)
  BY ScriptPromiseStep DEF Promised
<1>3. QED
  BY <1>1, <1>2, ScriptInvariance, PTL DEF ScriptSpec, KeepsThePromise,
     Promise!Spec

=============================================================================
