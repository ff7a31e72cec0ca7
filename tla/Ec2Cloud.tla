------------------------------ MODULE Ec2Cloud ------------------------------
(***************************************************************************)
(* create and delete against EC2 (ec2.go).                                 *)
(*                                                                         *)
(* Provision makes a security group, fills it, runs an instance with it    *)
(* and tags the instance; Status asks two questions; Delete asks which     *)
(* groups the instance has, terminates it, waits, and removes the groups.  *)
(* EC2 refuses to delete a group that an instance uses, and an instance    *)
(* uses its group until some time after it was told to terminate.          *)
(***************************************************************************)
EXTENDS CloudAccount

CONSTANTS
  GroupIds,  \* the ids EC2 can give to a security group
  NoGroup    \* no group

ASSUME Ec2Assumption == NoGroup \notin GroupIds

VARIABLES
  at,       \* the next request of each run in Provision, Status or Delete
  groupID,  \* groupID of each create, NoGroup before it has an answer
  groups,   \* `groups` of each delete: those not yet removed
  group,    \* the state of each security group
  uses,     \* the group each instance uses
  tagged,   \* the instances that carry the tag of an exit-node
  maker,    \* history: the run that made each group
  stopped   \* history: the instances that have been stopped

groupVars == <<group, uses, maker>>
ec2Vars == <<groupID, groups, groupVars, tagged, stopped>>
vars == <<cliVars, accountVars, at, ec2Vars>>

CreateRequests ==
  {"group", "rules", "run", "cleanup", "tags", "health", "address"}
DeleteRequests == {"describe", "terminate", "wait", "groups"}

TypeOK ==
  /\ CliTypeOK
  /\ AccountTypeOK
  /\ at \in [Runs -> CreateRequests \cup DeleteRequests]
  /\ groupID \in [Creators -> GroupIds \cup {NoGroup}]
  /\ groups \in [Deleters -> SUBSET GroupIds]
  /\ group \in [GroupIds -> {"absent", "present", "deleted"}]
  /\ uses \in [HostIds -> GroupIds \cup {NoGroup}]
  /\ tagged \subseteq HostIds \ Foreign
  /\ maker \in [GroupIds -> Creators \cup {Nobody}]
  /\ stopped \subseteq HostIds

(* The groups of foreign instances are left out.                           *)
Init ==
  /\ CliInit
  /\ AccountInit
  /\ at = [p \in Runs |-> IF p \in Creators THEN "group" ELSE "describe"]
  /\ groupID = [c \in Creators |-> NoGroup]
  /\ groups = [d \in Deleters |-> {}]
  /\ group = [g \in GroupIds |-> "absent"]
  /\ uses = [h \in HostIds |-> NoGroup]
  /\ tagged = {}
  /\ maker = [g \in GroupIds |-> Nobody]
  /\ stopped = {}

InUse(g) == \E h \in HostIds : uses[h] = g

(* Run p is at a request, and a request has the next one follow it.        *)
Asks(p, label, request) == pc[p] = label /\ at[p] = request
GoesOn(p, request) == at' = [at EXCEPT ![p] = request]

----------------------------------------------------------------------------
(* The cloud                                                               *)

(* A public address is given back when the instance stops.                 *)
StopInstance(h) ==
  /\ StopAndRelease(h)
  /\ stopped' = stopped \cup {h}
  /\ UNCHANGED <<at, groupID, groups, groupVars, tagged>>

(* The interface of a terminated instance is taken down at last.           *)
Terminated(h) ==
  /\ host[h] = "deleted"
  /\ uses[h] # NoGroup
  /\ uses' = [uses EXCEPT ![h] = NoGroup]
  /\ UNCHANGED <<cliVars, accountVars, at, groupID, groups, group, maker,
                 tagged, stopped>>

CloudStep(h) ==
  \/ Boot(h) /\ UNCHANGED <<at, ec2Vars>>
  \/ StopInstance(h) \/ Terminated(h)

----------------------------------------------------------------------------
(* Provision                                                               *)

(* The image is found and CreateSecurityGroup takes effect.                *)
CreateGroup(c) ==
  /\ Asks(c, "provision", "group")
  /\ \E g \in GroupIds :
       /\ group[g] = "absent"
       /\ group' = [group EXCEPT ![g] = "present"]
       /\ maker' = [maker EXCEPT ![g] = c]
       /\ \/ /\ groupID' = [groupID EXCEPT ![c] = g]
             /\ GoesOn(c, "rules")
             /\ UNCHANGED cliVars
          \/ /\ ProvisionFails(c)
             /\ UNCHANGED <<at, groupID>>
  /\ UNCHANGED <<accountVars, groups, uses, tagged, stopped>>

(* The control port, and the other ports or the range of high ports.       *)
AuthorizeRules(c) ==
  /\ Asks(c, "provision", "rules")
  /\ GoesOn(c, "run")
  /\ UNCHANGED <<cliVars, accountVars, ec2Vars>>

(* RunInstances takes effect; without an answer the clean-up comes next.   *)
RunInstances(c) ==
  /\ Asks(c, "provision", "run")
  /\ \E h \in HostIds :
       /\ Make(c, h)
       /\ uses' = [uses EXCEPT ![h] = groupID[c]]
  /\ GoesOn(c, "tags") \/ GoesOn(c, "cleanup")
  /\ UNCHANGED <<cliVars, target, victim, groupID, groups, group, maker,
                 tagged, stopped>>

(* Mutant: the group is not cleaned up.                                    *)
RunRefusedNoCleanUp(c) ==
  /\ Asks(c, "provision", "run")
  /\ ProvisionFails(c)
  /\ UNCHANGED <<accountVars, at, ec2Vars>>

RunRefused(c) ==
  /\ Asks(c, "provision", "run")
  /\ GoesOn(c, "cleanup")
  /\ UNCHANGED <<cliVars, accountVars, ec2Vars>>

(* The group goes, unless an instance uses it after all.                   *)
CleanUp(c) ==
  /\ Asks(c, "provision", "cleanup")
  /\ ~InUse(groupID[c])
  /\ group' = [group EXCEPT ![groupID[c]] = "deleted"]
  /\ ProvisionFails(c)
  /\ UNCHANGED <<accountVars, at, groupID, groups, uses, maker, tagged,
                 stopped>>

(* The error of CreateTags is dropped.                                     *)
CreateTags(c) ==
  /\ Asks(c, "provision", "tags")
  /\ \E h \in HostIds :
       /\ owner[h] = c
       /\ tagged' \in {tagged, tagged \cup {h}}
       /\ ProvisionReturns(c, h)
  /\ GoesOn(c, "health")
  /\ UNCHANGED <<accountVars, groupID, groups, groupVars, stopped>>

(* Any other request is refused.  A rule that cannot be made leaves the    *)
(* group, with or without the rules before it.                             *)
ProvisionRefused(c) ==
  /\ at[c] \in {"group", "rules", "cleanup"}
  /\ ProvisionFails(c)
  /\ UNCHANGED <<accountVars, at, ec2Vars>>

----------------------------------------------------------------------------
(* Status                                                                  *)

(* Mutant: any health of an instance counts as "ok".                       *)
AskHealthAny(c) ==
  /\ Asks(c, "status", "health")
  /\ reply' = [reply EXCEPT ![c].status =
       IF Present(hostID[c]) THEN ActiveStatus ELSE "creating"]
  /\ GoesOn(c, "address")
  /\ UNCHANGED <<pc, hostID, polls, printed, exit, accountVars, ec2Vars>>

(* DescribeInstanceStatus says "ok", something else, or nothing at all of  *)
(* an instance that is not running.  `status` is kept in the reply.        *)
AskHealth(c) ==
  /\ Asks(c, "status", "health")
  /\ reply' = [reply EXCEPT ![c].status =
       IF host[hostID[c]] = ActiveStatus THEN ActiveStatus ELSE "creating"]
  /\ GoesOn(c, "address")
  /\ UNCHANGED <<pc, hostID, polls, printed, exit, accountVars, ec2Vars>>

(* Mutant: the first reservation of the account is taken.                  *)
AskAddressOfAny(c) ==
  /\ Asks(c, "status", "address")
  /\ \E h \in HostIds :
       Present(h) /\ StatusReturns(c, [reply[c] EXCEPT !.ip = addr[h]])
  /\ GoesOn(c, "health")
  /\ UNCHANGED <<accountVars, ec2Vars>>

(* DescribeInstances; an instance is still described after its end.        *)
AskAddress(c) ==
  /\ Asks(c, "status", "address")
  /\ StatusReturns(c, [reply[c] EXCEPT !.ip = addr[hostID[c]]])
  /\ GoesOn(c, "health")
  /\ UNCHANGED <<accountVars, ec2Vars>>

CreateStep(c) ==
  \/ /\ \/ AcceptCreate(c) \/ RejectArgs(c) \/ PrintHost(c) \/ HandleStatus(c)
        \/ StatusFails(c)
     /\ UNCHANGED <<accountVars, at, ec2Vars>>
  \/ CreateGroup(c) \/ AuthorizeRules(c) \/ RunInstances(c) \/ RunRefused(c)
  \/ CleanUp(c) \/ CreateTags(c) \/ ProvisionRefused(c)
  \/ AskHealth(c) \/ AskAddress(c)

----------------------------------------------------------------------------
(* Delete                                                                  *)

(* The list has the tagged instances that are not terminated.              *)
LookupTagged(d) ==
  /\ Lookup(d)
  /\ victim'[d] \in tagged
  /\ UNCHANGED <<at, ec2Vars>>

Describe(d) ==
  /\ Asks(d, "delete", "describe")
  /\ victim[d] # NoHost
  /\ groups' = [groups EXCEPT ![d] = {uses[victim[d]]} \ {NoGroup}]
  /\ GoesOn(d, "terminate")
  /\ UNCHANGED <<cliVars, accountVars, groupID, groupVars, tagged, stopped>>

(* TerminateInstances does not mind an instance that is gone.              *)
Terminate(d) ==
  /\ Asks(d, "delete", "terminate")
  /\ Erase(victim[d]) \/ (~Present(victim[d]) /\ UNCHANGED cloudVars)
  /\ \/ GoesOn(d, "wait") /\ UNCHANGED cliVars
     \/ DeleteFails(d) /\ UNCHANGED at
  /\ UNCHANGED <<target, victim, ec2Vars>>

WaitUntilTerminated(d) ==
  /\ Asks(d, "delete", "wait")
  /\ uses[victim[d]] = NoGroup
  /\ GoesOn(d, "groups")
  /\ UNCHANGED <<cliVars, accountVars, ec2Vars>>

DeleteGroup(d) ==
  /\ Asks(d, "delete", "groups")
  /\ \E g \in groups[d] :
       /\ group[g] = "present"
       /\ ~InUse(g)
       /\ group' = [group EXCEPT ![g] = "deleted"]
       /\ groups' = [groups EXCEPT ![d] = @ \ {g}]
  /\ UNCHANGED cliVars \/ DeleteFails(d)
  /\ UNCHANGED <<accountVars, at, groupID, uses, maker, tagged, stopped>>

DeleteDone(d) ==
  /\ Asks(d, "delete", "groups")
  /\ groups[d] = {}
  /\ DeleteReturns(d)
  /\ UNCHANGED <<accountVars, at, ec2Vars>>

(* No instance has the IP, a request is refused (a group that is in use or *)
(* is gone), or the wait ends after 40 attempts.                           *)
DeleteRefused(d) ==
  /\ at[d] = "groups" => groups[d] # {}
  /\ DeleteFails(d)
  /\ UNCHANGED <<accountVars, at, ec2Vars>>

DeleteStep(d) ==
  \/ /\ StartDelete(d) \/ (RejectArgs(d) /\ UNCHANGED accountVars)
     /\ UNCHANGED <<at, ec2Vars>>
  \/ LookupTagged(d) \/ Describe(d) \/ Terminate(d) \/ WaitUntilTerminated(d)
  \/ DeleteGroup(d) \/ DeleteDone(d) \/ DeleteRefused(d)

----------------------------------------------------------------------------

Kill(p) ==
  /\ Interrupt(p)
  /\ UNCHANGED <<accountVars, at, ec2Vars>>

Next ==
  \/ \E c \in Creators : CreateStep(c)
  \/ \E d \in Deleters : DeleteStep(d)
  \/ \E p \in Runs : Kill(p)
  \/ \E h \in HostIds : CloudStep(h)

Spec == Init /\ [][Next]_vars

----------------------------------------------------------------------------
(* Properties                                                              *)

(* The summary a create prints is about its own instance, and its URL      *)
(* leads there unless the instance has been stopped, although status and   *)
(* address come from two requests and the instance may be stopped, started *)
(* or terminated in between (ec2.go:124-157, create.go:358-411).           *)
SummaryLeadsToHost ==
  \A c \in Creators : "summary" \in printed[c] =>
    LET h == hostID[c] IN
    /\ owner[h] = c
    /\ h \in wasUp
    /\ Present(h) /\ h \notin stopped =>
         addr[h] # NoAddr /\ addr[h] = reply[c].ip

(* A security group that no instance uses and no run is still busy with is *)
(* there only because its create was killed or failed over the group, one  *)
(* of its rules or its clean-up, or because a delete that had found it did *)
(* not come to its end.  In particular the groups are gone when every run  *)
(* ended well, whatever the order of the deletes (ec2.go:87-97, 178-202).  *)
NoSilentGroup ==
  \A g \in GroupIds : group[g] = "present" =>
    \/ InUse(g)
    \/ exit[maker[g]] \in {"running", "killed"}
    \/ exit[maker[g]] = "error" /\ at[maker[g]] \in {"group", "rules", "cleanup"}
    \/ \E d \in Deleters : exit[d] # "ok" /\ g \in groups[d]

(* The whole keeps the promise of the simpler providers: an instance is    *)
(* terminated only when a delete is aimed at it, is launched once, and is  *)
(* announced only after it was up (README.md:67, ec2.go:124-205).          *)
KeepsThePromise == Promise!Spec

=============================================================================
