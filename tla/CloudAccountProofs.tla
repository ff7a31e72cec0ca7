------------------------- MODULE CloudAccountProofs -------------------------
(***************************************************************************)
(* What the steps of the runs and of an account mean for ExitServers, the  *)
(* promise to the user, under the mapping of CloudAccount.  Each lemma     *)
(* names the change of the account that matters and what it must leave     *)
(* alone; the proofs about a provider apply them to its requests.          *)
(***************************************************************************)
EXTENDS CloudAccount, CliProofs

(* The abstract variables, as the mapping defines them.                    *)
Life == [h \in HostIds |-> LifeOf(h)]
Condemned == {h \in HostIds : \E d \in Deleters : victim[d] = h}
Announced == {h \in HostIds : \E c \in Creators :
                hostID[c] = h /\ "summary" \in printed[c]}

(* The part of DeleteHitsItsTarget that holds of every provider, also one  *)
(* that takes the address of a stopped host back: a delete that reports    *)
(* success has removed the host it was aimed at, for good                  *)
(* (delete.go:163-168).                                                    *)
DeletedIsGone ==
  \A d \in Deleters : exit[d] = "ok" =>
    victim[d] # NoHost /\ host[victim[d]] = "deleted"

LEMMA PromiseInit == CliInit /\ AccountInit => Promise!Init
<1>. SUFFICES ASSUME CliInit, AccountInit PROVE Promise!Init
  OBVIOUS
<1>1. Life = [h \in HostIds |-> IF h \in Foreign THEN "up" ELSE "none"]
  BY DEF AccountInit, Life, LifeOf, ActiveStatus
<1>2. wasUp = {h \in HostIds : Life[h] = "up"}
  BY <1>1, CloudAssumption DEF AccountInit
<1>3. Announced = {} /\ Condemned = {}
  BY CliAssumption DEF AccountInit, CliInit, Announced, Condemned
<1>4. QED
  BY <1>1, <1>2, <1>3 DEF Promise!Init, Life, Announced, Condemned

----------------------------------------------------------------------------
(* Runs                                                                    *)

(* Nothing but PrintSummary announces a host.                              *)
LEMMA SameAnnounced ==
  ASSUME CliInv, NEW c \in Creators,
         \/ AcceptCreate(c) \/ RejectArgs(c) \/ PrintHost(c) \/ StatusFails(c)
         \/ ProvisionFails(c) \/ Interrupt(c)
         \/ \E h \in HostIds : ProvisionReturns(c, h)
         \/ \E r \in Replies : StatusReturns(c, r)
  PROVE  Announced' = Announced
<1>1. CASE \E h \in HostIds : ProvisionReturns(c, h)
  <2>1. /\ printed[c] = {} /\ printed' = printed
        /\ \A b \in Creators \ {c} : hostID'[b] = hostID[b]
    BY <1>1 DEF ProvisionReturns, CliInv, CliTypeOK, IdSinceProvision
  <2>2. QED
    BY <2>1 DEF Announced
<1>2. CASE /\ hostID' = hostID
           /\ \/ printed' = printed
              \/ printed' = [printed EXCEPT ![c] = @ \cup {"id"}]
  BY <1>2 DEF Announced, CliInv, CliTypeOK
<1>3. QED
  BY <1>1, <1>2 DEF AcceptCreate, RejectArgs, PrintHost, StatusFails,
     ProvisionFails, Interrupt, StatusReturns

(* A step that leaves all of the promise alone.                            *)
LEMMA Quiet ==
  ASSUME UNCHANGED <<host, wasUp, victim>>, Announced' = Announced
  PROVE  UNCHANGED Promise!serverVars
BY DEF Promise!serverVars, Life, LifeOf, Condemned, Announced

LEMMA QuietRun ==
  ASSUME UNCHANGED <<host, wasUp, victim>>, UNCHANGED <<hostID, printed>>
  PROVE  UNCHANGED Promise!serverVars
BY DEF Promise!serverVars, Life, LifeOf, Condemned, Announced

LEMMA Announces ==
  ASSUME CliInv, NEW c \in Creators, HandleStatus(c),
         reply[c].status = ActiveStatus => hostID[c] \in wasUp,
         wasUp \subseteq HostIds,
         UNCHANGED <<host, wasUp, victim>>
  PROVE  (\E h \in HostIds : Promise!Announce(h)) \/ UNCHANGED Promise!serverVars
<1>1. CASE reply[c].status = ActiveStatus
  <2>1. printed' = [printed EXCEPT ![c] = @ \cup {"summary"}] /\ hostID' = hostID
    BY <1>1 DEF HandleStatus, PrintSummary
  <2>2. Announced' = Announced \cup {hostID[c]}
    BY <1>1, <2>1 DEF Announced, CliInv, CliTypeOK
  <2>3. Life' = Life /\ Condemned' = Condemned
    BY DEF Life, LifeOf, Condemned
  <2>4. QED
    BY <1>1, <2>2, <2>3 DEF Promise!Announce, Life, Announced, Condemned
<1>2. CASE reply[c].status # ActiveStatus
  BY <1>2, QuietRun DEF HandleStatus, NextRound
<1>3. QED
  BY <1>1, <1>2

LEMMA Condemns ==
  ASSUME AccountTypeOK, NEW d \in Deleters, victim[d] = NoHost,
         \/ \E h \in HostIds : victim' = [victim EXCEPT ![d] = h]
         \/ UNCHANGED victim,
         UNCHANGED <<host, wasUp, hostID, printed>>
  PROVE  (\E h \in HostIds : Promise!Condemn(h)) \/ UNCHANGED Promise!serverVars
<1>1. Life' = Life /\ Announced' = Announced
  BY DEF Life, LifeOf, Announced
<1>2. CASE \E h \in HostIds : victim' = [victim EXCEPT ![d] = h]
  <2>1. PICK h \in HostIds : victim' = [victim EXCEPT ![d] = h]
    BY <1>2
  <2>2. Condemned' = Condemned \cup {h}
    BY <2>1, CliAssumption DEF Condemned, AccountTypeOK
  <2>3. QED
    BY <1>1, <2>2 DEF Promise!Condemn, Life, Announced, Condemned
<1>3. CASE UNCHANGED victim
  BY <1>3, QuietRun
<1>4. QED
  BY <1>2, <1>3

----------------------------------------------------------------------------
(* Hosts                                                                   *)

LEMMA Launches ==
  ASSUME AccountTypeOK, NEW h \in HostIds, NEW s \in {"creating", "off"},
         host[h] = "absent", host' = [host EXCEPT ![h] = s],
         UNCHANGED <<wasUp, victim>>, Announced' = Announced
  PROVE  Promise!Launch(h)
<1>1. Life[h] = "none" /\ Life' = [Life EXCEPT ![h] = "down"]
  BY DEF Life, LifeOf, AccountTypeOK, ActiveStatus
<1>2. Condemned' = Condemned
  BY DEF Condemned
<1>3. QED
  BY <1>1, <1>2 DEF Promise!Launch, Life, Announced, Condemned

LEMMA ComesUp ==
  ASSUME AccountTypeOK, NEW h \in HostIds, Boot(h)
  PROVE  Promise!ComeUp(h)
<1>1. Life[h] = "down" /\ Life' = [Life EXCEPT ![h] = "up"]
  BY DEF Boot, Present, Life, LifeOf, AccountTypeOK, HostStates, ActiveStatus,
     Statuses
<1>2. Announced' = Announced /\ Condemned' = Condemned
  BY DEF Boot, cliVars, Announced, Condemned
<1>3. QED
  BY <1>1, <1>2 DEF Boot, Promise!ComeUp, Life, Announced, Condemned

(* Whoever switches a host off or on again.                                *)
LEMMA GoesDown ==
  ASSUME AccountTypeOK, NEW h \in HostIds, NEW s \in {"creating", "off"},
         Present(h), host' = [host EXCEPT ![h] = s],
         UNCHANGED <<wasUp, victim>>, Announced' = Announced
  PROVE  Promise!GoDown(h) \/ UNCHANGED Promise!serverVars
<1>1. Condemned' = Condemned
  BY DEF Condemned
<1>2. CASE host[h] = ActiveStatus
  <2>1. Life[h] = "up" /\ Life' = [Life EXCEPT ![h] = "down"]
    BY <1>2 DEF Life, LifeOf, AccountTypeOK, ActiveStatus
  <2>2. QED
    BY <1>1, <2>1 DEF Promise!GoDown, Life, Announced, Condemned
<1>3. CASE host[h] # ActiveStatus
  <2>1. Life' = Life
    BY <1>3 DEF Present, Life, LifeOf, AccountTypeOK, ActiveStatus, Statuses
  <2>2. QED
    BY <1>1, <2>1 DEF Promise!serverVars, Life, Announced, Condemned
<1>4. QED
  BY <1>2, <1>3

LEMMA Removes ==
  ASSUME AccountTypeOK, NEW d \in Deleters, NEW h \in HostIds,
         victim[d] = h, Erase(h), UNCHANGED <<victim, hostID, printed>>
  PROVE  Promise!Remove(h)
<1>1. Life[h] \in {"up", "down"} /\ Life' = [Life EXCEPT ![h] = "gone"]
  BY DEF Erase, Present, Life, LifeOf, AccountTypeOK, ActiveStatus, Statuses
<1>2. h \in Condemned
  BY DEF Condemned
<1>3. Announced' = Announced /\ Condemned' = Condemned
  BY DEF Announced, Condemned
<1>4. QED
  BY <1>1, <1>2, <1>3 DEF Erase, Promise!Remove, Life, Announced, Condemned

----------------------------------------------------------------------------
(* Whole steps.  Each keeps the promise, and with it what that takes from  *)
(* an account besides its type: an answer is no older than the first time  *)
(* the host was up, and a delete is aimed once.                            *)

PromiseInv ==
  /\ \A h \in HostIds : host[h] = ActiveStatus => h \in wasUp
  /\ \A c \in Creators : reply[c].status = ActiveStatus => hostID[c] \in wasUp
  /\ \A d \in Deleters : pc[d] = "args" => victim[d] = NoHost

Promised == Promise!Next \/ UNCHANGED Promise!serverVars

LEMMA PromiseInvInit == CliInit /\ AccountInit => PromiseInv
BY CliAssumption, CloudAssumption DEF CliInit, AccountInit, PromiseInv,
   NoReply, ActiveStatus

LEMMA PromiseKept ==
  ASSUME PromiseInv, UNCHANGED <<wasUp, reply, hostID, victim>>,
         \A h \in HostIds : host'[h] = ActiveStatus => host[h] = ActiveStatus,
         \A d \in Deleters : pc'[d] = "args" => pc[d] = "args"
  PROVE  PromiseInv'
BY DEF PromiseInv

(* The steps of create that neither change the account nor announce.       *)
LEMMA QuietCreate ==
  ASSUME CliInv, PromiseInv, NEW c \in Creators,
         UNCHANGED <<host, wasUp, victim>>,
         \/ AcceptCreate(c) \/ RejectArgs(c) \/ PrintHost(c) \/ StatusFails(c)
         \/ ProvisionFails(c) \/ UNCHANGED cliVars
  PROVE  PromiseInv' /\ Promised
<1>1. Announced' = Announced
  BY SameAnnounced DEF cliVars, Announced
<1>2. \A d \in Deleters : pc'[d] = pc[d]
  BY CliAssumption DEF CliInv, CliTypeOK, AcceptCreate, RejectArgs, PrintHost,
     StatusFails, ProvisionFails, cliVars, Goto, Exit, Runs
<1>3. UNCHANGED <<reply, hostID>>
  BY DEF AcceptCreate, RejectArgs, PrintHost, StatusFails, ProvisionFails,
     cliVars
<1>4. QED
  BY <1>1, <1>2, <1>3, PromiseKept, Quiet DEF Promised

LEMMA HandleStatusKeeps ==
  ASSUME CliInv, AccountTypeOK, PromiseInv, NEW c \in Creators,
         HandleStatus(c), UNCHANGED <<host, wasUp, victim>>
  PROVE  PromiseInv' /\ Promised
<1>1. \A d \in Deleters : pc'[d] = pc[d]
  BY CliAssumption DEF CliInv, CliTypeOK, HandleStatus, PrintSummary,
     NextRound, Exit, Goto, Runs
<1>2. PromiseInv'
  BY <1>1, PromiseKept DEF HandleStatus
<1>3. Promised
  BY Announces DEF Promised, PromiseInv, AccountTypeOK, Promise!Next
<1>4. QED
  BY <1>2, <1>3

LEMMA StatusKeeps ==
  ASSUME CliInv, AccountTypeOK, PromiseInv, NEW c \in Creators, Status(c)
  PROVE  PromiseInv' /\ Promised
<1>. DEFINE r == [status |-> host[hostID[c]], ip |-> addr[hostID[c]]]
<1>1. StatusReturns(c, r) /\ UNCHANGED <<host, addr, wasUp, victim>>
  BY DEF Status, cloudVars
<1>2. hostID[c] \in HostIds
  BY <1>1 DEF CliInv, CliTypeOK, IdSinceProvision, StatusReturns
<1>3. UNCHANGED <<hostID, printed>>
  BY <1>1 DEF StatusReturns
<1>4. PromiseInv'
  BY <1>1, <1>2, <1>3, CliAssumption DEF PromiseInv, CliInv, CliTypeOK,
     StatusReturns, Goto, Runs
<1>5. QED
  BY <1>1, <1>3, <1>4, QuietRun DEF Promised

(* What the steps of Provision do to the rest of a run: a run that is told *)
(* its host has no answer of Status yet.                                   *)
LEMMA ProvisionSteps ==
  ASSUME CliInv, AccountTypeOK, PromiseInv, NEW c \in Creators,
         \/ UNCHANGED cliVars \/ ProvisionFails(c)
         \/ \E i \in HostIds : ProvisionReturns(c, i)
  PROVE  /\ reply' = reply
         /\ \A d \in Deleters : pc'[d] = pc[d]
         /\ \A b \in Creators : reply[b].status = ActiveStatus =>
              hostID'[b] = hostID[b]
<1>1. CASE \E i \in HostIds : ProvisionReturns(c, i)
  <2>1. reply[c].status # ActiveStatus
    BY <1>1, CliAssumption DEF PromiseInv, AccountTypeOK, CliInv,
       IdSinceProvision, ProvisionReturns
  <2>2. QED
    BY <1>1, <2>1, CliAssumption DEF ProvisionReturns, Goto, CliInv, CliTypeOK,
       Runs
<1>2. CASE UNCHANGED cliVars \/ ProvisionFails(c)
  BY <1>2, CliAssumption DEF ProvisionFails, cliVars, Goto, Exit, CliInv,
     CliTypeOK, Runs
<1>3. QED
  BY <1>1, <1>2

(* Provision goes on after, ends with, or fails over the launch of a host. *)
LEMMA LaunchKeeps ==
  ASSUME CliInv, AccountTypeOK, PromiseInv, NEW c \in Creators,
         NEW h \in HostIds, NEW s \in {"creating", "off"},
         host[h] = "absent", host' = [host EXCEPT ![h] = s],
         UNCHANGED <<wasUp, victim>>,
         UNCHANGED cliVars \/ ProvisionReturns(c, h) \/ ProvisionFails(c)
  PROVE  PromiseInv' /\ Promised
<1>1. Announced' = Announced
  BY SameAnnounced DEF cliVars, Announced
<1>2. Promise!Launch(h)
  BY <1>1, Launches
<1>3. \A i \in HostIds : host'[i] = ActiveStatus => host[i] = ActiveStatus
  BY DEF AccountTypeOK, ActiveStatus
<1>4. PromiseInv'
  BY <1>3, ProvisionSteps DEF PromiseInv
<1>5. QED
  BY <1>2, <1>4 DEF Promised, Promise!Next

(* Provision ends, by switching its host on or with the host as it is.     *)
LEMMA ProvisionKeeps ==
  ASSUME CliInv, AccountTypeOK, PromiseInv, NEW c \in Creators,
         NEW h \in HostIds,
         \/ host' = host
         \/ Present(h) /\ host' = [host EXCEPT ![h] = "creating"],
         UNCHANGED <<wasUp, victim>>,
         \/ \E i \in HostIds : ProvisionReturns(c, i)
         \/ ProvisionFails(c)
  PROVE  PromiseInv' /\ Promised
<1>1. Announced' = Announced
  BY SameAnnounced
<1>2. Promise!GoDown(h) \/ UNCHANGED Promise!serverVars
  BY <1>1, Quiet, GoesDown
<1>3. \A i \in HostIds : host'[i] = ActiveStatus => host[i] = ActiveStatus
  BY DEF AccountTypeOK, ActiveStatus
<1>4. PromiseInv'
  BY <1>3, ProvisionSteps DEF PromiseInv
<1>5. QED
  BY <1>2, <1>4 DEF Promised, Promise!Next

LEMMA AimKeeps ==
  ASSUME CliInv, AccountTypeOK, PromiseInv, NEW d \in Deleters,
         StartDelete(d) \/ Lookup(d)
  PROVE  PromiseInv' /\ Promised
<1>1. /\ victim[d] = NoHost
      /\ UNCHANGED <<host, wasUp, hostID, printed, reply>>
      /\ \/ \E h \in HostIds : victim' = [victim EXCEPT ![d] = h]
         \/ UNCHANGED victim
  BY DEF PromiseInv, StartDelete, AcceptDelete, Lookup, Listed, cloudVars,
     cliVars
<1>2. pc'[d] # "args" /\ \A b \in Deleters \ {d} : pc'[b] = pc[b]
  BY DEF StartDelete, AcceptDelete, Lookup, cliVars, Goto, CliInv, CliTypeOK,
     Runs
<1>3. PromiseInv'
  BY <1>1, <1>2 DEF PromiseInv, AccountTypeOK
<1>4. Promised
  BY <1>1, Condemns DEF Promised, Promise!Next
<1>5. QED
  BY <1>3, <1>4

(* What a step of a run does to the rest of its state while it is in       *)
(* Delete, or before: nothing.                                             *)
LEMMA DeleteSteps ==
  ASSUME CliInv, NEW d \in Deleters,
         RejectArgs(d) \/ DeleteFails(d) \/ DeleteReturns(d) \/ UNCHANGED cliVars
  PROVE  /\ UNCHANGED <<reply, hostID, printed>>
         /\ \A b \in Deleters : pc'[b] = "args" => pc[b] = "args"
BY DEF RejectArgs, DeleteFails, DeleteReturns, cliVars, Exit, Goto, CliInv,
   CliTypeOK, Runs

(* The requests of Delete that read, or touch other things than hosts.     *)
LEMMA QuietDelete ==
  ASSUME CliInv, PromiseInv, NEW d \in Deleters,
         UNCHANGED <<host, wasUp, victim>>,
         RejectArgs(d) \/ DeleteFails(d) \/ DeleteReturns(d) \/ UNCHANGED cliVars
  PROVE  PromiseInv' /\ Promised
BY DeleteSteps, PromiseKept, QuietRun DEF Promised

LEMMA PowerOffKeeps ==
  ASSUME CliInv, AccountTypeOK, PromiseInv, NEW d \in Deleters,
         NEW h \in HostIds, Present(h), host' = [host EXCEPT ![h] = "off"],
         UNCHANGED <<wasUp, victim>>, UNCHANGED cliVars \/ DeleteFails(d)
  PROVE  PromiseInv' /\ Promised
<1>1. Promise!GoDown(h) \/ UNCHANGED Promise!serverVars
  BY DeleteSteps, GoesDown DEF Announced
<1>2. \A i \in HostIds : host'[i] = ActiveStatus => host[i] = ActiveStatus
  BY DEF AccountTypeOK, ActiveStatus
<1>3. QED
  BY <1>1, <1>2, DeleteSteps, PromiseKept DEF Promised, Promise!Next

LEMMA EraseKeeps ==
  ASSUME CliInv, AccountTypeOK, PromiseInv, NEW d \in Deleters,
         victim[d] \in HostIds, Erase(victim[d]), UNCHANGED victim,
         UNCHANGED cliVars \/ DeleteFails(d) \/ DeleteReturns(d)
  PROVE  PromiseInv' /\ Promised
<1>1. Promise!Remove(victim[d])
  BY DeleteSteps, Removes
<1>2. \A i \in HostIds : host'[i] = ActiveStatus => host[i] = ActiveStatus
  BY DEF Erase, AccountTypeOK, ActiveStatus
<1>3. QED
  BY <1>1, <1>2, DeleteSteps, PromiseKept DEF Erase, Promised, Promise!Next

LEMMA InterruptKeeps ==
  ASSUME CliInv, PromiseInv, NEW p \in Runs, Interrupt(p),
         UNCHANGED <<host, wasUp, victim>>
  PROVE  PromiseInv' /\ Promised
<1>1. \A d \in Deleters : pc'[d] = "args" => pc[d] = "args"
  BY DEF Interrupt, Exit, Goto, CliInv, CliTypeOK, Runs
<1>2. QED
  BY <1>1, PromiseKept, QuietRun DEF Interrupt, Promised

LEMMA BootKeeps ==
  ASSUME AccountTypeOK, PromiseInv, NEW h \in HostIds, Boot(h)
  PROVE  PromiseInv' /\ Promised
<1>1. PromiseInv'
  BY DEF Boot, PromiseInv, cliVars, AccountTypeOK
<1>2. QED
  BY <1>1, ComesUp DEF Promised, Promise!Next

LEMMA StopKeeps ==
  ASSUME AccountTypeOK, PromiseInv, NEW h \in HostIds,
         Stop(h) \/ StopAndRelease(h)
  PROVE  PromiseInv' /\ Promised
<1>1. \A i \in HostIds : host'[i] = ActiveStatus => host[i] = ActiveStatus
  BY DEF Stop, StopAndRelease, AccountTypeOK, ActiveStatus
<1>2. PromiseInv'
  BY <1>1, PromiseKept DEF Stop, StopAndRelease, cliVars
<1>3. Promise!GoDown(h) \/ UNCHANGED Promise!serverVars
  BY GoesDown DEF Stop, StopAndRelease, cliVars, Announced
<1>4. QED
  BY <1>2, <1>3 DEF Promised, Promise!Next

LEMMA StutterKeeps ==
  ASSUME PromiseInv, UNCHANGED <<cliVars, host, wasUp, victim>>
  PROVE  PromiseInv' /\ Promised
BY PromiseKept, QuietRun DEF cliVars, Promised

=============================================================================
