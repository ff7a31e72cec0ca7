--------------------------- MODULE GceCloudProofs ---------------------------
(***************************************************************************)
(* Proofs about GceCloud, for every set of runs and names, every choice of *)
(* names and kinds, whatever the project holds before, and every number of *)
(* polls and pages.                                                        *)
(*                                                                         *)
(* A name is shared by all runs that were given it, and what keeps two of  *)
(* them apart is the address reserved for it: Provision gets past it only  *)
(* where there was none.  The inductive invariant follows this lock.  The  *)
(* one run that holds it (LockInv) is the one that made the instance       *)
(* (InstanceInv), or nobody has made one yet, and so what Status says of   *)
(* the name is about that run's instance (ReplyInv).  A delete that is     *)
(* aimed at the name may break the lock, and from then on nothing is       *)
(* claimed of it.  The firewall rule is tied to how far Provision has got  *)
(* (RuleInv, KindInv).                                                     *)
(***************************************************************************)
EXTENDS GceCloud, CliProofs

(* Somebody aims a delete at the instance of the name n.                   *)
Aimed(n) == \E d \in Deleters : victim[d] = n

(* Provision of c has reserved the address of its name.                    *)
Holds(c) == at[c] \in {"ready", "instance"}

(* What SetRule makes of the rule for a run.                               *)
RuleOf(c) == IF KindOf[c] = "tcp" THEN "all" ELSE "web"

(* Some HTTPS create has got past its look at the rule.                    *)
HttpsHasLooked == \E b \in Creators : KindOf[b] = "https" /\ at[b] # "exists"

CreateInv ==
  \A c \in Creators :
    /\ hostID[c] # NoHost => hostID[c] = NameOf[c] /\ at[c] = "instance"
    /\ at[c] \in {"exists", "insert", "update", "reserve"} => tries[c] = 0
    /\ at[c] = "ready" => tries[c] < AddrTries

LockInv ==
  \A c \in Creators : Holds(c) /\ ~Aimed(NameOf[c]) =>
    /\ reserved[NameOf[c]] # "none"
    /\ \A b \in Creators : Holds(b) /\ NameOf[b] = NameOf[c] => b = c

InstanceInv ==
  \A c \in Creators : hostID[c] # NoHost /\ ~Aimed(NameOf[c]) =>
    owner[NameOf[c]] = c \/ host[NameOf[c]] = "absent"

ReplyInv ==
  \A c \in Creators : reply[c].status = ActiveStatus =>
    /\ hostID[c] # NoHost
    /\ ~Aimed(NameOf[c]) => owner[NameOf[c]] = c

DeleteInv ==
  \A d \in Deleters :
    /\ pc[d] = "args" => at[d] = "list"
    /\ at[d] = "list" => victim[d] = NoHost

RuleInv ==
  \A c \in Creators :
    at[c] \in {"update", "reserve", "ready", "instance"} => rule # "none"

KindInv ==
  \A c \in Creators :
    at[c] \in {"reserve", "ready", "instance"} =>
      rule = RuleOf(c) \/ rule = "all" \/ HttpsHasLooked

IInv ==
  /\ TypeOK
  /\ CliInv
  /\ CreateInv
  /\ LockInv
  /\ InstanceInv
  /\ ReplyInv
  /\ DeleteInv
  /\ RuleInv
  /\ KindInv

(* A step of a run that leaves the project and the requests alone.         *)
RunsMove ==
  /\ UNCHANGED <<gceVars, hostID, reply>>
  /\ \A d \in Deleters : pc[d] # "args" => pc'[d] # "args"

----------------------------------------------------------------------------
(* The initial states                                                      *)

LEMMA InitIInv == Init => IInv
<1>. SUFFICES ASSUME Init PROVE IInv
  OBVIOUS
<1>1. CliInv
  BY CliInvInit DEF Init
<1>2. TypeOK
  BY <1>1, GceAssumption DEF Init, TypeOK, CliInv, Requests, Runs, Statuses,
     ActiveStatus
<1>3. \A c \in Creators :
        at[c] = "exists" /\ tries[c] = 0 /\ hostID[c] = NoHost
  BY DEF Init, CliInit, Runs
<1>4. CreateInv
  BY <1>3 DEF CreateInv
<1>5. LockInv
  BY <1>3 DEF LockInv, Holds
<1>6. InstanceInv
  BY <1>3 DEF InstanceInv
<1>7. ReplyInv
  BY DEF Init, CliInit, ReplyInv, NoReply, ActiveStatus
<1>8. DeleteInv
  BY CliAssumption DEF Init, DeleteInv, Runs
<1>9. RuleInv /\ KindInv
  BY <1>3 DEF RuleInv, KindInv
<1>10. QED
  BY <1>1, <1>2, <1>4, <1>5, <1>6, <1>7, <1>8, <1>9 DEF IInv

----------------------------------------------------------------------------
(* Steps of a run that leave the project alone                             *)

LEMMA RunsMoveStep ==
  ASSUME IInv, CliInv', RunsMove
  PROVE  IInv'
<1>1. TypeOK'
  BY DEF IInv, TypeOK, CliInv, RunsMove, gceVars, localVars, instanceVars
<1>2. CreateInv' /\ LockInv' /\ InstanceInv' /\ ReplyInv'
  BY DEF IInv, CreateInv, LockInv, InstanceInv, ReplyInv, Aimed, Holds,
     RunsMove, gceVars, localVars, instanceVars
<1>3. DeleteInv' /\ RuleInv' /\ KindInv'
  BY DEF IInv, DeleteInv, RuleInv, KindInv, HttpsHasLooked, RunsMove,
     gceVars, localVars
<1>4. QED
  BY <1>1, <1>2, <1>3 DEF IInv

LEMMA AcceptCreateStep ==
  ASSUME IInv, NEW c \in Creators, AcceptCreate(c), UNCHANGED gceVars
  PROVE  IInv'
<1>1. CliInv'
  BY CliAcceptCreate DEF IInv
<1>2. RunsMove
  BY DEF RunsMove, AcceptCreate, Goto
<1>3. QED
  BY <1>1, <1>2, RunsMoveStep

LEMMA RejectArgsStep ==
  ASSUME IInv, NEW p \in Runs, RejectArgs(p), UNCHANGED gceVars
  PROVE  IInv'
<1>1. CliInv'
  BY CliRejectArgs DEF IInv
<1>2. RunsMove
  BY DEF RunsMove, RejectArgs, Exit, Goto
<1>3. QED
  BY <1>1, <1>2, RunsMoveStep

LEMMA PrintHostStep ==
  ASSUME IInv, NEW c \in Creators, PrintHost(c), UNCHANGED gceVars
  PROVE  IInv'
<1>1. CliInv'
  BY CliPrintHost DEF IInv
<1>2. RunsMove
  BY DEF RunsMove, PrintHost, Goto
<1>3. QED
  BY <1>1, <1>2, RunsMoveStep

LEMMA HandleStatusStep ==
  ASSUME IInv, NEW c \in Creators, HandleStatus(c), UNCHANGED gceVars
  PROVE  IInv'
<1>1. CliInv'
  BY CliHandleStatus DEF IInv
<1>2. RunsMove
  BY CliAssumption DEF RunsMove, HandleStatus, PrintSummary, NextRound, Exit,
     Goto, IInv, CliInv, CliTypeOK, Runs
<1>3. QED
  BY <1>1, <1>2, RunsMoveStep

LEMMA StatusFailsStep ==
  ASSUME IInv, NEW c \in Creators, StatusFails(c), UNCHANGED gceVars
  PROVE  IInv'
<1>1. CliInv'
  BY CliStatusFails DEF IInv
<1>2. RunsMove
  BY DEF RunsMove, StatusFails, Exit, Goto
<1>3. QED
  BY <1>1, <1>2, RunsMoveStep

LEMMA ProvisionRefusedStep ==
  ASSUME IInv, NEW c \in Creators, ProvisionRefused(c)
  PROVE  IInv'
<1>1. CliInv'
  BY CliProvisionFails DEF IInv, ProvisionRefused
<1>2. RunsMove
  BY DEF RunsMove, ProvisionRefused, ProvisionFails, Exit, Goto
<1>3. QED
  BY <1>1, <1>2, RunsMoveStep

LEMMA DeleteRefusedStep ==
  ASSUME IInv, NEW d \in Deleters, DeleteRefused(d)
  PROVE  IInv'
<1>1. CliInv'
  BY CliDeleteFails DEF IInv, DeleteRefused
<1>2. RunsMove
  BY DEF RunsMove, DeleteRefused, DeleteFails, Exit, Goto
<1>3. QED
  BY <1>1, <1>2, RunsMoveStep

LEMMA KillStep ==
  ASSUME IInv, NEW p \in Runs, Kill(p)
  PROVE  IInv'
<1>1. CliInv'
  BY CliInterrupt DEF IInv, Kill
<1>2. RunsMove
  BY DEF RunsMove, Kill, Interrupt, Exit, Goto
<1>3. QED
  BY <1>1, <1>2, RunsMoveStep

----------------------------------------------------------------------------
(* Provision and Status                                                    *)

LEMMA RuleExistsStep ==
  ASSUME IInv, NEW c \in Creators, RuleExists(c)
  PROVE  IInv'
<1>1. /\ pc[c] = "provision" /\ at[c] = "exists"
      /\ at' = [at EXCEPT ![c] = "insert"]
           \/ (rule # "none" /\ at' = [at EXCEPT ![c] = "update"])
      /\ UNCHANGED <<cliVars, tries, ipAddress, target, victim, inlets, rule,
                     reserved, instanceVars>>
  BY DEF RuleExists, Asks, GoesOn
<1>2. CliInv'
  BY <1>1, CliUnchanged DEF IInv
<1>3. TypeOK'
  BY <1>1, <1>2 DEF IInv, TypeOK, CliInv, Requests, instanceVars
<1>4. CreateInv'
  BY <1>1 DEF IInv, CreateInv, TypeOK, Runs, cliVars
<1>5. LockInv' /\ InstanceInv' /\ ReplyInv'
  BY <1>1 DEF IInv, LockInv, InstanceInv, ReplyInv, Aimed, Holds, TypeOK,
     Runs, cliVars, instanceVars
<1>6. DeleteInv'
  BY <1>1, CliAssumption DEF IInv, DeleteInv, TypeOK, Runs, cliVars
<1>7. RuleInv' /\ KindInv'
  BY <1>1 DEF IInv, RuleInv, KindInv, HttpsHasLooked, RuleOf,
     TypeOK, Runs
<1>8. QED
  BY <1>2, <1>3, <1>4, <1>5, <1>6, <1>7 DEF IInv

LEMMA SetRuleStep ==
  ASSUME IInv, NEW c \in Creators, SetRule(c)
  PROVE  IInv'
<1>1. /\ pc[c] = "provision" /\ at[c] \in {"insert", "update"}
      /\ rule' = RuleOf(c)
      /\ UNCHANGED <<tries, ipAddress, target, victim, inlets, reserved,
                     instanceVars>>
  BY DEF SetRule, Asks, RuleOf
<1>2. \/ at' = [at EXCEPT ![c] = "reserve"] /\ UNCHANGED cliVars
      \/ ProvisionFails(c) /\ UNCHANGED at
  BY DEF SetRule, GoesOn
<1>3. CliInv'
  BY <1>2, CliUnchanged, CliProvisionFails DEF IInv
<1>4. /\ UNCHANGED <<hostID, reply>>
      /\ \A d \in Deleters : pc'[d] = pc[d] /\ at'[d] = at[d]
  BY <1>2, CliAssumption DEF cliVars, ProvisionFails, Exit, Goto, IInv, CliInv,
     CliTypeOK, TypeOK, Runs
<1>5. TypeOK'
  BY <1>1, <1>2, <1>3 DEF IInv, TypeOK, CliInv, Requests, RuleOf, instanceVars
<1>6. CreateInv'
  BY <1>1, <1>2, <1>4 DEF IInv, CreateInv, TypeOK, Runs
<1>7. LockInv' /\ InstanceInv' /\ ReplyInv'
  BY <1>1, <1>2, <1>4 DEF IInv, LockInv, InstanceInv, ReplyInv, Aimed, Holds,
     TypeOK, Runs, instanceVars
<1>8. DeleteInv'
  BY <1>1, <1>4 DEF IInv, DeleteInv
<1>9. RuleInv'
  BY <1>1, <1>2 DEF RuleInv, RuleOf
<1>10. KindInv'
  BY <1>1, <1>2, GceAssumption DEF IInv, KindInv, HttpsHasLooked, RuleOf,
     Kinds, TypeOK, Runs
<1>11. QED
  BY <1>3, <1>5, <1>6, <1>7, <1>8, <1>9, <1>10 DEF IInv

LEMMA ReserveAddressStep ==
  ASSUME IInv, NEW c \in Creators, ReserveAddress(c)
  PROVE  IInv'
<1>1. /\ pc[c] = "provision" /\ at[c] = "reserve"
      /\ reserved[NameOf[c]] = "none"
      /\ reserved' = [reserved EXCEPT ![NameOf[c]] = "pending"]
      /\ UNCHANGED <<tries, ipAddress, target, victim, inlets, rule,
                     instanceVars>>
  BY DEF ReserveAddress, Asks
<1>2. \/ at' = [at EXCEPT ![c] = "ready"] /\ UNCHANGED cliVars
      \/ ProvisionFails(c) /\ UNCHANGED at
  BY DEF ReserveAddress, GoesOn
<1>3. CliInv'
  BY <1>2, CliUnchanged, CliProvisionFails DEF IInv
<1>4. /\ UNCHANGED <<hostID, reply>>
      /\ \A d \in Deleters : pc'[d] = pc[d] /\ at'[d] = at[d]
  BY <1>2, CliAssumption DEF cliVars, ProvisionFails, Exit, Goto, IInv, CliInv,
     CliTypeOK, TypeOK, Runs
<1>5. NameOf[c] \in HostIds
  BY GceAssumption
<1>6. TypeOK'
  BY <1>1, <1>2, <1>3 DEF IInv, TypeOK, CliInv, Requests, instanceVars
<1>7. CreateInv'
  BY <1>1, <1>2, <1>4, GceAssumption DEF IInv, CreateInv, TypeOK, Runs
<1>8. LockInv'
  <2>1. \A n \in HostIds : reserved[n] # "none" => reserved'[n] # "none"
    BY <1>1, <1>5 DEF IInv, TypeOK
  <2>2. reserved'[NameOf[c]] # "none"
    BY <1>1, <1>5 DEF IInv, TypeOK
  <2>3. \A b \in Creators : Holds(b)' => Holds(b) \/ b = c
    BY <1>2 DEF IInv, TypeOK, Runs, Holds
  <2>4. \A b \in Creators :
          Holds(b) /\ NameOf[b] = NameOf[c] => Aimed(NameOf[c])
    BY <1>1 DEF IInv, LockInv
  <2>5. \A n : Aimed(n)' <=> Aimed(n)
    BY <1>1 DEF Aimed
  <2>6. QED
    BY <2>1, <2>2, <2>3, <2>4, <2>5, GceAssumption DEF IInv, LockInv
<1>9. InstanceInv' /\ ReplyInv'
  BY <1>1, <1>4 DEF IInv, InstanceInv, ReplyInv, Aimed, instanceVars
<1>10. DeleteInv'
  BY <1>1, <1>4 DEF IInv, DeleteInv
<1>11. RuleInv' /\ KindInv'
  BY <1>1, <1>2 DEF IInv, RuleInv, KindInv, HttpsHasLooked, RuleOf,
     TypeOK, Runs
<1>12. QED
  BY <1>3, <1>6, <1>7, <1>8, <1>9, <1>10, <1>11 DEF IInv

LEMMA AskAddressStep ==
  ASSUME IInv, NEW c \in Creators, AskAddress(c)
  PROVE  IInv'
<1>1. /\ pc[c] = "provision" /\ at[c] = "ready"
      /\ tries' = [tries EXCEPT ![c] = @ + 1]
      /\ UNCHANGED <<cliVars, target, victim, inlets, rule, reserved,
                     instanceVars>>
  BY DEF AskAddress, Asks
<1>2. PICK r \in {"ready", "instance"} :
        /\ at' = [at EXCEPT ![c] = r]
        /\ r = "ready" => tries[c] + 1 < AddrTries
  BY DEF AskAddress, GoesOn
<1>3. CliInv'
  BY <1>1, CliUnchanged DEF IInv
<1>4. TypeOK'
  <2>1. ipAddress' \in [Creators -> Addresses \cup {NoAddr}]
    BY DEF AskAddress, IInv, TypeOK
  <2>2. tries[c] < AddrTries /\ tries[c] \in Nat
    BY <1>1 DEF IInv, CreateInv, TypeOK
  <2>3. tries' \in [Creators -> 0 .. AddrTries]
    BY <1>1, <2>2, GceAssumption DEF IInv, TypeOK
  <2>4. at' \in [Runs -> Requests]
    BY <1>2 DEF IInv, TypeOK, Requests
  <2>5. QED
    BY <1>1, <1>3, <2>1, <2>3, <2>4 DEF IInv, TypeOK, CliInv, instanceVars
<1>5. CreateInv'
  BY <1>1, <1>2, CliAssumption DEF IInv, CreateInv, CliInv, IdSinceProvision,
     TypeOK, Runs, cliVars
<1>6. \A b \in Creators : Holds(b)' <=> Holds(b)
  BY <1>1, <1>2 DEF IInv, TypeOK, Runs, Holds
<1>7. LockInv' /\ InstanceInv' /\ ReplyInv'
  BY <1>1, <1>6 DEF IInv, LockInv, InstanceInv, ReplyInv, Aimed, cliVars,
     instanceVars
<1>8. DeleteInv'
  BY <1>1, <1>2, CliAssumption DEF IInv, DeleteInv, TypeOK, Runs, cliVars
<1>9. RuleInv' /\ KindInv'
  BY <1>1, <1>2 DEF IInv, RuleInv, KindInv, HttpsHasLooked, RuleOf,
     TypeOK, Runs
<1>10. QED
  BY <1>3, <1>4, <1>5, <1>7, <1>8, <1>9 DEF IInv

(* The name's lock is free of others, so that whoever has an id of this    *)
(* name is c itself, and c has none while it provisions.                   *)
LEMMA NoIdBeforeInsert ==
  ASSUME IInv, NEW c \in Creators, pc[c] = "provision", at[c] = "instance",
         ~Aimed(NameOf[c])
  PROVE  \A b \in Creators : NameOf[b] = NameOf[c] => hostID[b] = NoHost
<1>. SUFFICES ASSUME NEW b \in Creators, NameOf[b] = NameOf[c],
                     hostID[b] # NoHost
              PROVE  FALSE
  OBVIOUS
<1>1. Holds(b) /\ Holds(c)
  BY DEF IInv, CreateInv, Holds
<1>2. b = c
  BY <1>1 DEF IInv, LockInv
<1>3. hostID[c] = NoHost
  BY DEF IInv, CliInv, IdSinceProvision
<1>4. QED
  BY <1>2, <1>3

LEMMA InsertInstanceStep ==
  ASSUME IInv, NEW c \in Creators, InsertInstance(c)
  PROVE  IInv'
<1>1. /\ pc[c] = "provision" /\ at[c] = "instance"
      /\ host[NameOf[c]] = "absent"
      /\ host' = [host EXCEPT ![NameOf[c]] = "creating"]
      /\ addr' = [addr EXCEPT ![NameOf[c]] = ipAddress[c]]
      /\ owner' = [owner EXCEPT ![NameOf[c]] = c]
      /\ ipAddress' = [ipAddress EXCEPT ![c] = NoAddr]
      /\ UNCHANGED <<at, tries, target, victim, inlets, rule, reserved>>
  BY DEF InsertInstance, Asks
<1>2. ProvisionReturns(c, NameOf[c]) \/ ProvisionFails(c)
  BY DEF InsertInstance
<1>3. NameOf[c] \in HostIds
  BY GceAssumption
<1>4. CliInv'
  BY <1>2, <1>3, CliProvisionReturns, CliProvisionFails DEF IInv
<1>5. /\ UNCHANGED reply
      /\ \A b \in Creators : b # c => hostID'[b] = hostID[b]
      /\ hostID'[c] \in {NameOf[c], NoHost}
      /\ \A d \in Deleters : pc'[d] = pc[d]
  BY <1>1, <1>2, CliAssumption DEF ProvisionReturns, ProvisionFails, Exit,
     Goto, IInv, CliInv, CliTypeOK, IdSinceProvision, Runs
<1>6. TypeOK'
  <2>1. host' \in [HostIds -> Statuses \cup {"absent"}]
    BY <1>1 DEF IInv, TypeOK, Statuses
  <2>2. addr' \in [HostIds -> Addresses \cup {NoAddr}]
    BY <1>1 DEF IInv, TypeOK
  <2>3. owner' \in [HostIds -> Creators \cup {Nobody}]
    BY <1>1 DEF IInv, TypeOK
  <2>4. ipAddress' \in [Creators -> Addresses \cup {NoAddr}]
    BY <1>1 DEF IInv, TypeOK
  <2>5. QED
    BY <1>1, <1>4, <2>1, <2>2, <2>3, <2>4 DEF IInv, TypeOK, CliInv
<1>7. CreateInv'
  BY <1>1, <1>5 DEF IInv, CreateInv
<1>8. LockInv'
  BY <1>1 DEF IInv, LockInv, Aimed, Holds
<1>9. /\ owner'[NameOf[c]] = c
      /\ \A n \in HostIds : n # NameOf[c] =>
           owner'[n] = owner[n] /\ host'[n] = host[n]
      /\ \A n : Aimed(n)' <=> Aimed(n)
  BY <1>1, <1>3 DEF IInv, TypeOK, Aimed
<1>10. InstanceInv'
  BY <1>1, <1>5, <1>9, NoIdBeforeInsert, GceAssumption DEF IInv, InstanceInv
<1>11. ReplyInv'
  <2>. SUFFICES ASSUME NEW b \in Creators, reply[b].status = ActiveStatus
                PROVE  /\ hostID'[b] # NoHost
                       /\ ~Aimed(NameOf[b]) => owner'[NameOf[b]] = b
    BY <1>5, <1>9 DEF ReplyInv
  <2>1. hostID[b] # NoHost /\ b # c
    BY <1>1 DEF IInv, ReplyInv, CliInv, IdSinceProvision
  <2>2. ~Aimed(NameOf[b]) => NameOf[b] # NameOf[c] /\ owner[NameOf[b]] = b
    BY <1>1, <2>1, NoIdBeforeInsert DEF IInv, ReplyInv
  <2>3. QED
    BY <1>5, <1>9, <2>1, <2>2, GceAssumption
<1>12. DeleteInv'
  BY <1>1, <1>5 DEF IInv, DeleteInv
<1>13. RuleInv' /\ KindInv'
  BY <1>1 DEF IInv, RuleInv, KindInv, HttpsHasLooked, RuleOf
<1>14. QED
  BY <1>4, <1>6, <1>7, <1>8, <1>10, <1>11, <1>12, <1>13 DEF IInv

LEMMA InsertFailsLaterStep ==
  ASSUME IInv, NEW c \in Creators, InsertFailsLater(c)
  PROVE  IInv'
<1>1. /\ pc[c] = "provision" /\ at[c] = "instance"
      /\ host[NameOf[c]] = "absent"
      /\ ProvisionReturns(c, NameOf[c])
      /\ UNCHANGED gceVars
  BY DEF InsertFailsLater, Asks
<1>2. CliInv'
  BY <1>1, CliProvisionReturns, GceAssumption DEF IInv
<1>3. /\ UNCHANGED reply
      /\ hostID' = [hostID EXCEPT ![c] = NameOf[c]]
      /\ pc' = [pc EXCEPT ![c] = "created"]
  BY <1>1 DEF ProvisionReturns, Goto
<1>4. TypeOK'
  BY <1>1, <1>2 DEF IInv, TypeOK, CliInv, gceVars, localVars, instanceVars
<1>5. CreateInv'
  BY <1>1, <1>3 DEF IInv, CreateInv, CliInv, CliTypeOK, gceVars, localVars
<1>6. LockInv'
  BY <1>1 DEF IInv, LockInv, Aimed, Holds, gceVars, localVars
<1>7. InstanceInv' /\ ReplyInv'
  <2>1. UNCHANGED <<host, owner>> /\ \A n : Aimed(n)' <=> Aimed(n)
    BY <1>1 DEF Aimed, gceVars, localVars, instanceVars
  <2>2. \A b \in Creators : b # c => hostID'[b] = hostID[b]
    BY <1>3 DEF IInv, CliInv, CliTypeOK
  <2>3. hostID'[c] = NameOf[c]
    BY <1>3 DEF IInv, CliInv, CliTypeOK
  <2>4. NameOf[c] # NoHost
    BY CliAssumption, GceAssumption
  <2>5. QED
    BY <1>1, <1>3, <2>1, <2>2, <2>3, <2>4 DEF IInv, InstanceInv, ReplyInv
<1>8. DeleteInv'
  BY <1>1, <1>3, CliAssumption DEF IInv, DeleteInv, CliInv, CliTypeOK, Runs,
     gceVars, localVars
<1>9. RuleInv' /\ KindInv'
  BY <1>1 DEF IInv, RuleInv, KindInv, HttpsHasLooked, RuleOf, gceVars,
     localVars
<1>10. QED
  BY <1>2, <1>4, <1>5, <1>6, <1>7, <1>8, <1>9 DEF IInv

LEMMA StatusStep ==
  ASSUME IInv, NEW c \in Creators, Status(c)
  PROVE  IInv'
<1>1. /\ hostID[c] = NameOf[c]
      /\ Present(NameOf[c])
      /\ UNCHANGED gceVars
  BY DEF Status, IInv, CreateInv, CliInv, IdSinceProvision
<1>2. PICK r \in Replies : StatusReturns(c, r)
  BY <1>1, GceAssumption DEF Status, Replies, Present, IInv, TypeOK
<1>3. CliInv'
  BY <1>2, CliStatusReturns DEF IInv
<1>4. /\ UNCHANGED hostID
      /\ \A b \in Creators : b # c => reply'[b] = reply[b]
      /\ \A d \in Deleters : pc'[d] = pc[d]
  BY <1>2, CliAssumption DEF StatusReturns, Goto, IInv, CliInv, CliTypeOK, Runs
<1>5. TypeOK'
  BY <1>1, <1>3 DEF IInv, TypeOK, CliInv, gceVars, localVars, instanceVars
<1>6. CreateInv' /\ LockInv' /\ InstanceInv'
  BY <1>1, <1>4 DEF IInv, CreateInv, LockInv, InstanceInv, Aimed, Holds,
     gceVars, localVars, instanceVars
<1>7. ReplyInv'
  <2>1. ~Aimed(NameOf[c]) => owner[NameOf[c]] = c
    BY <1>1, CliAssumption, GceAssumption DEF IInv, InstanceInv, Present,
       Statuses, ActiveStatus
  <2>2. hostID[c] # NoHost
    BY <1>1, CliAssumption, GceAssumption
  <2>3. QED
    BY <1>1, <1>4, <2>1, <2>2 DEF IInv, ReplyInv, Aimed, gceVars, localVars,
       instanceVars
<1>8. DeleteInv' /\ RuleInv' /\ KindInv'
  BY <1>1, <1>4 DEF IInv, DeleteInv, RuleInv, KindInv, HttpsHasLooked,
     RuleOf, gceVars, localVars
<1>9. QED
  BY <1>3, <1>5, <1>6, <1>7, <1>8 DEF IInv

----------------------------------------------------------------------------
(* Delete                                                                  *)

(* What a delete decides about its victim unlocks names and locks none.    *)
LEMMA AimStays ==
  ASSUME IInv, NEW d \in Deleters, at[d] = "list",
         \A e \in Deleters : e # d => victim'[e] = victim[e],
         NEW n \in HostIds, Aimed(n)
  PROVE  Aimed(n)'
BY CliAssumption DEF Aimed, IInv, DeleteInv

(* A step of a delete that touches neither rule nor instances, and no      *)
(* address of a name that no delete is aimed at.                           *)
DeleteMoves(d) ==
  /\ \A p \in Runs : p # d => at'[p] = at[p] /\ pc'[p] = pc[p]
  /\ pc'[d] # "args"
  /\ \A e \in Deleters : e # d => victim'[e] = victim[e]
  /\ victim'[d] = victim[d] \/ at[d] = "list"
  /\ at'[d] = "list" => at[d] = "list" /\ victim'[d] = victim[d]
  /\ \A n \in HostIds : reserved'[n] = reserved[n] \/ Aimed(n)
  /\ UNCHANGED <<tries, rule, hostID, reply, instanceVars>>

LEMMA DeleteMovesStep ==
  ASSUME IInv, NEW d \in Deleters, DeleteMoves(d), CliInv', TypeOK'
  PROVE  IInv'
<1>1. \A n \in HostIds : Aimed(n) => Aimed(n)'
  <2>1. CASE at[d] = "list"
    BY <2>1, AimStays DEF DeleteMoves
  <2>2. CASE at[d] # "list"
    BY <2>2 DEF DeleteMoves, Aimed
  <2>3. QED
    BY <2>1, <2>2
<1>2. \A c \in Creators : NameOf[c] \in HostIds /\ at'[c] = at[c]
  BY CliAssumption, GceAssumption DEF DeleteMoves, Runs
<1>3. CreateInv'
  BY <1>2 DEF DeleteMoves, IInv, CreateInv
<1>4. LockInv'
  BY <1>1, <1>2 DEF DeleteMoves, IInv, LockInv, Holds
<1>5. InstanceInv' /\ ReplyInv'
  BY <1>1, <1>2 DEF DeleteMoves, IInv, InstanceInv, ReplyInv, instanceVars
<1>6. DeleteInv'
  BY DEF DeleteMoves, IInv, DeleteInv, Runs
<1>7. RuleInv' /\ KindInv'
  BY <1>2 DEF DeleteMoves, IInv, RuleInv, KindInv, HttpsHasLooked, RuleOf
<1>8. QED
  BY <1>3, <1>4, <1>5, <1>6, <1>7 DEF IInv

LEMMA StartDeleteStep ==
  ASSUME IInv, NEW d \in Deleters, StartDelete(d)
  PROVE  IInv'
<1>1. CliInv'
  BY CliAcceptDelete DEF IInv, StartDelete
<1>2. /\ pc[d] = "args" /\ at[d] = "list"
      /\ pc' = [pc EXCEPT ![d] = "delete"]
      /\ UNCHANGED <<hostID, reply, tries, ipAddress, inlets, rule, reserved,
                     instanceVars>>
  BY DEF StartDelete, AcceptDelete, Goto, IInv, DeleteInv
<1>3. \/ /\ \E h \in HostIds : victim' = [victim EXCEPT ![d] = h]
         /\ at' = [at EXCEPT ![d] = "address"]
         /\ UNCHANGED target
      \/ /\ \E a \in Addresses : target' = [target EXCEPT ![d] = a]
         /\ UNCHANGED <<victim, at>>
  BY DEF StartDelete, GoesOn
<1>4. TypeOK'
  BY <1>1, <1>2, <1>3 DEF IInv, TypeOK, CliInv, Requests, instanceVars
<1>5. DeleteMoves(d)
  BY <1>2, <1>3 DEF DeleteMoves, IInv, TypeOK, CliInv, CliTypeOK, Runs
<1>6. QED
  BY <1>1, <1>4, <1>5, DeleteMovesStep

LEMMA ListPageStep ==
  ASSUME IInv, NEW d \in Deleters, ListPage(d)
  PROVE  IInv'
<1>1. /\ pc[d] = "delete" /\ at[d] = "list"
      /\ UNCHANGED <<tries, ipAddress, target, rule, reserved, instanceVars>>
  BY DEF ListPage, Asks
<1>2. PICK read \in SUBSET (HostIds \X (Addresses \cup {NoAddr})) :
        \/ /\ inlets' = [inlets EXCEPT ![d] = read]
           /\ UNCHANGED <<cliVars, victim, at>>
        \/ /\ inlets' = [inlets EXCEPT ![d] = {}]
           /\ \E h \in HostIds : victim' = [victim EXCEPT ![d] = h]
           /\ at' = [at EXCEPT ![d] = "address"]
           /\ UNCHANGED cliVars
        \/ /\ inlets' = [inlets EXCEPT ![d] = {}]
           /\ DeleteFails(d)
           /\ UNCHANGED <<victim, at>>
  <2>1. PICK page \in SUBSET HostIds :
          \/ /\ inlets' = [inlets EXCEPT ![d] =
                             inlets[d] \cup {<<h, addr[h]>> : h \in page}]
             /\ UNCHANGED <<cliVars, victim, at>>
          \/ /\ inlets' = [inlets EXCEPT ![d] = {}]
             /\ \/ /\ \E h \in HostIds : victim' = [victim EXCEPT ![d] = h]
                   /\ at' = [at EXCEPT ![d] = "address"]
                   /\ UNCHANGED cliVars
                \/ DeleteFails(d) /\ UNCHANGED <<victim, at>>
    BY DEF ListPage, GoesOn
  <2>2. inlets[d] \cup {<<h, addr[h]>> : h \in page}
          \in SUBSET (HostIds \X (Addresses \cup {NoAddr}))
    BY DEF IInv, TypeOK
  <2>3. QED
    BY <2>1, <2>2
<1>3. CliInv'
  BY <1>2, CliUnchanged, CliDeleteFails DEF IInv
<1>4. TypeOK'
  BY <1>1, <1>2, <1>3 DEF IInv, TypeOK, CliInv, Requests, instanceVars
<1>5. DeleteMoves(d)
  BY <1>1, <1>2 DEF DeleteMoves, DeleteFails, Exit, Goto, IInv, TypeOK, CliInv,
     CliTypeOK, Runs, cliVars
<1>6. QED
  BY <1>3, <1>4, <1>5, DeleteMovesStep

LEMMA FindAddressStep ==
  ASSUME IInv, NEW d \in Deleters, FindAddress(d)
  PROVE  IInv'
<1>1. /\ pc[d] = "delete" /\ at[d] = "address"
      /\ \E r \in {"release", "instance"} : at' = [at EXCEPT ![d] = r]
      /\ UNCHANGED <<cliVars, tries, ipAddress, target, victim, inlets, rule,
                     reserved, instanceVars>>
  BY DEF FindAddress, Asks, GoesOn
<1>2. CliInv'
  BY <1>1, CliUnchanged DEF IInv
<1>3. TypeOK'
  BY <1>1, <1>2 DEF IInv, TypeOK, CliInv, Requests, instanceVars
<1>4. DeleteMoves(d)
  BY <1>1 DEF DeleteMoves, IInv, TypeOK, Runs, cliVars
<1>5. QED
  BY <1>2, <1>3, <1>4, DeleteMovesStep

LEMMA ReleaseAddressStep ==
  ASSUME IInv, NEW d \in Deleters, ReleaseAddress(d)
  PROVE  IInv'
<1>1. /\ pc[d] = "delete" /\ at[d] = "release"
      /\ at' = [at EXCEPT ![d] = "instance"]
      /\ \/ reserved' = [reserved EXCEPT ![victim[d]] = "none"]
         \/ UNCHANGED reserved
      /\ UNCHANGED <<cliVars, tries, ipAddress, target, victim, inlets, rule,
                     instanceVars>>
  BY DEF ReleaseAddress, Asks, GoesOn
<1>2. CliInv'
  BY <1>1, CliUnchanged DEF IInv
<1>3. TypeOK'
  BY <1>1, <1>2 DEF IInv, TypeOK, CliInv, Requests, instanceVars
<1>4. DeleteMoves(d)
  BY <1>1 DEF DeleteMoves, IInv, TypeOK, Aimed, Runs, cliVars
<1>5. QED
  BY <1>2, <1>3, <1>4, DeleteMovesStep

LEMMA DeleteInstanceStep ==
  ASSUME IInv, NEW d \in Deleters, DeleteInstance(d)
  PROVE  IInv'
<1>1. /\ pc[d] = "delete" /\ at[d] = "instance"
      /\ host' = [host EXCEPT ![victim[d]] = "absent"]
      /\ addr' = [addr EXCEPT ![victim[d]] = NoAddr]
      /\ owner' = [owner EXCEPT ![victim[d]] = Nobody]
      /\ DeleteReturns(d) \/ DeleteFails(d)
      /\ UNCHANGED <<localVars, rule, reserved>>
  BY DEF DeleteInstance, Asks
<1>2. CliInv'
  BY <1>1, CliDeleteReturns, CliDeleteFails DEF IInv
<1>3. /\ UNCHANGED <<hostID, reply>>
      /\ pc' = [pc EXCEPT ![d] = "exited"]
  BY <1>1 DEF DeleteReturns, DeleteFails, Exit, Goto
<1>4. TypeOK'
  <2>1. /\ host' \in [HostIds -> Statuses \cup {"absent"}]
        /\ addr' \in [HostIds -> Addresses \cup {NoAddr}]
        /\ owner' \in [HostIds -> Creators \cup {Nobody}]
    BY <1>1 DEF IInv, TypeOK
  <2>2. QED
    BY <1>1, <1>2, <2>1 DEF IInv, TypeOK, CliInv, localVars
<1>5. /\ \A n : Aimed(n)' <=> Aimed(n)
      /\ \A n \in HostIds : ~Aimed(n) =>
           host'[n] = host[n] /\ owner'[n] = owner[n]
  BY <1>1 DEF IInv, TypeOK, Aimed, localVars
<1>6. CreateInv' /\ LockInv'
  BY <1>1, <1>3 DEF IInv, CreateInv, LockInv, Holds, Aimed, localVars
<1>7. InstanceInv' /\ ReplyInv'
  BY <1>3, <1>5, GceAssumption DEF IInv, InstanceInv, ReplyInv
<1>8. DeleteInv' /\ RuleInv' /\ KindInv'
  BY <1>1, <1>3 DEF IInv, CliInv, CliTypeOK, DeleteInv, RuleInv, KindInv,
     HttpsHasLooked, RuleOf, localVars, Runs
<1>9. QED
  BY <1>2, <1>4, <1>6, <1>7, <1>8 DEF IInv

----------------------------------------------------------------------------
(* The cloud                                                               *)

(* A step of the cloud: no lock is opened, no instance comes or goes.      *)
CloudMoves ==
  /\ UNCHANGED <<cliVars, localVars, rule, owner>>
  /\ \A n \in HostIds : reserved[n] # "none" => reserved'[n] # "none"
  /\ \A n \in HostIds : host[n] = "absent" => host'[n] = "absent"

LEMMA CloudMovesStep ==
  ASSUME IInv, CloudMoves, TypeOK'
  PROVE  IInv'
<1>1. CliInv'
  BY CliUnchanged DEF IInv, CloudMoves
<1>2. CreateInv' /\ DeleteInv' /\ RuleInv' /\ KindInv'
  BY DEF IInv, CreateInv, DeleteInv, RuleInv, KindInv, HttpsHasLooked,
     RuleOf, CloudMoves,
     cliVars, localVars
<1>3. LockInv' /\ InstanceInv' /\ ReplyInv'
  BY GceAssumption DEF IInv, LockInv, InstanceInv, ReplyInv, Aimed, Holds,
     CloudMoves, cliVars, localVars
<1>4. QED
  BY <1>1, <1>2, <1>3 DEF IInv

LEMMA AddressReadyStep ==
  ASSUME IInv, NEW h \in HostIds, AddressReady(h)
  PROVE  IInv'
<1>1. PICK a \in Addresses : reserved' = [reserved EXCEPT ![h] = a]
  BY DEF AddressReady
<1>2. UNCHANGED <<cliVars, localVars, rule, instanceVars>>
  BY DEF AddressReady
<1>3. TypeOK'
  BY <1>1, <1>2, CliUnchanged DEF IInv, TypeOK, CliInv, localVars, instanceVars
<1>4. CloudMoves
  BY <1>1, <1>2, GceAssumption DEF CloudMoves, IInv, TypeOK, instanceVars
<1>5. QED
  BY <1>3, <1>4, CloudMovesStep

LEMMA BootStep ==
  ASSUME IInv, NEW h \in HostIds, Boot(h)
  PROVE  IInv'
<1>1. /\ host[h] # "absent"
      /\ host' = [host EXCEPT ![h] = ActiveStatus]
      /\ UNCHANGED <<cliVars, localVars, rule, reserved, owner>>
  BY DEF Boot, Present, Statuses, ActiveStatus
<1>2. TypeOK'
  <2>1. addr' \in [HostIds -> Addresses \cup {NoAddr}]
    BY DEF Boot, IInv, TypeOK
  <2>2. host' \in [HostIds -> Statuses \cup {"absent"}]
    BY <1>1 DEF IInv, TypeOK, Statuses
  <2>3. QED
    BY <1>1, <2>1, <2>2, CliUnchanged DEF IInv, TypeOK, CliInv, localVars
<1>3. CloudMoves
  BY <1>1 DEF CloudMoves, IInv, TypeOK
<1>4. QED
  BY <1>2, <1>3, CloudMovesStep

LEMMA StopStep ==
  ASSUME IInv, NEW h \in HostIds, Stop(h)
  PROVE  IInv'
<1>1. /\ host[h] # "absent"
      /\ host' = [host EXCEPT ![h] = "off"]
      /\ addr' = [addr EXCEPT ![h] =
                    IF reserved[h] = addr[h] THEN addr[h] ELSE NoAddr]
      /\ UNCHANGED <<cliVars, localVars, rule, reserved, owner>>
  BY DEF Stop, Present, Statuses, ActiveStatus
<1>2. TypeOK'
  <2>1. addr' \in [HostIds -> Addresses \cup {NoAddr}]
    BY <1>1 DEF IInv, TypeOK
  <2>2. host' \in [HostIds -> Statuses \cup {"absent"}]
    BY <1>1 DEF IInv, TypeOK, Statuses
  <2>3. QED
    BY <1>1, <2>1, <2>2, CliUnchanged DEF IInv, TypeOK, CliInv, localVars
<1>3. CloudMoves
  BY <1>1 DEF CloudMoves, IInv, TypeOK
<1>4. QED
  BY <1>2, <1>3, CloudMovesStep

----------------------------------------------------------------------------
(* Theorems                                                                *)

LEMMA NextIInv == IInv /\ [Next]_vars => IInv'
<1>. SUFFICES ASSUME IInv, [Next]_vars PROVE IInv'
  OBVIOUS
<1>1. CASE UNCHANGED vars
  <2>1. CliInv'
    BY <1>1, CliUnchanged DEF IInv, vars
  <2>2. RunsMove
    BY <1>1 DEF RunsMove, vars, cliVars
  <2>3. QED
    BY <2>1, <2>2, RunsMoveStep
<1>2. ASSUME NEW c \in Creators, CreateStep(c) PROVE IInv'
  BY <1>2, AcceptCreateStep, RejectArgsStep, PrintHostStep, HandleStatusStep,
     StatusFailsStep, RuleExistsStep, SetRuleStep, ReserveAddressStep,
     AskAddressStep, InsertInstanceStep, InsertFailsLaterStep,
     ProvisionRefusedStep, StatusStep DEF CreateStep, Runs
<1>3. ASSUME NEW d \in Deleters, DeleteStep(d) PROVE IInv'
  BY <1>3, RejectArgsStep, StartDeleteStep, ListPageStep, FindAddressStep,
     ReleaseAddressStep, DeleteInstanceStep, DeleteRefusedStep
     DEF DeleteStep, Runs
<1>4. ASSUME NEW p \in Runs, Kill(p) PROVE IInv'
  BY <1>4, KillStep
<1>5. ASSUME NEW h \in HostIds, AddressReady(h) \/ Boot(h) \/ Stop(h)
      PROVE  IInv'
  BY <1>5, AddressReadyStep, BootStep, StopStep
<1>6. QED
  BY <1>1, <1>2, <1>3, <1>4, <1>5 DEF Next

LEMMA Invariance == Spec => []IInv
BY InitIInv, NextIInv, PTL DEF Spec

(* Every variable keeps its type: the polls of create and the questions    *)
(* for its address stay within their bounds (create.go:347, gce.go:44-69). *)
THEOREM TypeCorrect == Spec => []TypeOK
<1>1. IInv => TypeOK
  BY DEF IInv
<1>2. QED
  BY <1>1, Invariance, PTL

(* However many runs share a name, a summary is about the instance its own *)
(* run made, until a delete is aimed at the name: the second run does not  *)
(* get past the reserved address (gce.go:44-69).                           *)
THEOREM SummaryIsOwnInstanceAlways == Spec => []SummaryIsOwnInstance
<1>1. IInv => SummaryIsOwnInstance
  BY DEF IInv, CliInv, SummaryIsLast, ReplyInv, SummaryIsOwnInstance, Aimed
<1>2. QED
  BY <1>1, Invariance, PTL

(* No announced tunnel is without its web ports, and one for TCP is        *)
(* without the other ports only if some HTTPS create of the project has    *)
(* got past its look at the rule, whatever order the checks, inserts and   *)
(* updates of the rule come in (gce.go:167-229).                           *)
THEOREM OnlyHttpsNarrowsRuleAlways == Spec => []OnlyHttpsNarrowsRule
<1>1. IInv => OnlyHttpsNarrowsRule
  <2>. SUFFICES ASSUME IInv, NEW c \in Creators, "summary" \in printed[c],
                       rule # "all"
                PROVE  rule = "web" /\ HttpsHasLooked
    BY DEF OnlyHttpsNarrowsRule, HttpsHasLooked
  <2>1. at[c] = "instance"
    BY DEF IInv, CliInv, IdSinceProvision, CreateInv
  <2>2. rule = "web"
    BY <2>1 DEF IInv, RuleInv, TypeOK
  <2>3. HttpsHasLooked
    BY <2>1, <2>2, GceAssumption DEF IInv, KindInv, HttpsHasLooked, RuleOf,
       Kinds
  <2>4. QED
    BY <2>2, <2>3
<1>2. QED
  BY <1>1, Invariance, PTL

=============================================================================
