------------------------------ MODULE GceCloud ------------------------------
(***************************************************************************)
(* create and delete against GCE (gce.go).                                 *)
(*                                                                         *)
(* An instance goes by the name its user gave it, which may be given again *)
(* once it is free, and so does the static address reserved for it.  All   *)
(* instances of a project are behind one firewall rule, "inlets", which    *)
(* every create sets for its own kind of tunnel.  Names are in HostIds:    *)
(* runs work in one project and zone, so that a name is as good as an id.  *)
(***************************************************************************)
EXTENDS Cli, FiniteSets

CONSTANTS
  NameOf,    \* the name of the host of each create
  KindOf,    \* the kind of tunnel of each create
  Before,    \* the exit-nodes there are before any of the runs, with the
             \* addresses they have
  RuleBefore, \* what the firewall may let in before any of the runs
  AddrTries, \* how often Provision asks whether the address is ready
  PageSize,  \* how many instances the API puts on one page of a list
  Nobody     \* the owner of an instance that no run made

Kinds == {"tcp", "https"}

ASSUME GceAssumption ==
  /\ NameOf \in [Creators -> HostIds]
  /\ KindOf \in [Creators -> Kinds]
  /\ DOMAIN Before \subseteq HostIds
  /\ \A h \in DOMAIN Before : Before[h] \in Addresses
  /\ \A g, h \in DOMAIN Before : Before[g] = Before[h] => g = h
  /\ RuleBefore \subseteq {"none", "web", "all"}
  /\ AddrTries \in Nat \ {0}
  /\ PageSize \in Nat \ {0}
  /\ Nobody \notin Creators
  /\ Addresses \cap {"none", "pending"} = {}

VARIABLES
  at,        \* the next request of each run in Provision or Delete
  tries,     \* how often each create has asked for its address
  ipAddress, \* ipAddress of each create
  target,    \* the --ip of each delete, NoAddr when --id was given
  victim,    \* the instance each delete will remove, NoHost while unknown
  inlets,    \* what the pages each delete has read say of names and addresses
  rule,      \* what the firewall lets in: nothing yet, "web" ports, "all"
  reserved,  \* the static address of each name
  host,      \* the state of each instance
  addr,      \* the public address of each instance
  owner      \* history: the run that made the present instance of a name

localVars == <<at, tries, ipAddress, target, victim, inlets>>
instanceVars == <<host, addr, owner>>
gceVars == <<localVars, rule, reserved, instanceVars>>
vars == <<cliVars, gceVars>>

Requests == {"exists", "insert", "update", "reserve", "ready", "instance",
             "list", "address", "release"}

TypeOK ==
  /\ CliTypeOK
  /\ at \in [Runs -> Requests]
  /\ tries \in [Creators -> 0 .. AddrTries]
  /\ ipAddress \in [Creators -> Addresses \cup {NoAddr}]
  /\ target \in [Deleters -> Addresses \cup {NoAddr}]
  /\ victim \in [Deleters -> HostIds \cup {NoHost}]
  /\ inlets \in [Deleters -> SUBSET (HostIds \X (Addresses \cup {NoAddr}))]
  /\ rule \in {"none", "web", "all"}
  /\ reserved \in [HostIds -> Addresses \cup {"none", "pending"}]
  /\ host \in [HostIds -> Statuses \cup {"absent"}]
  /\ addr \in [HostIds -> Addresses \cup {NoAddr}]
  /\ owner \in [HostIds -> Creators \cup {Nobody}]

Present(h) == host[h] \in Statuses
Unused(a) == \A h \in HostIds : addr[h] # a /\ reserved[h] # a

(* The nodes of before have ephemeral addresses, and the cloud leaves them *)
(* as they are.                                                            *)
Init ==
  /\ CliInit
  /\ at = [p \in Runs |-> IF p \in Creators THEN "exists" ELSE "list"]
  /\ tries = [c \in Creators |-> 0]
  /\ ipAddress = [c \in Creators |-> NoAddr]
  /\ target = [d \in Deleters |-> NoAddr]
  /\ victim = [d \in Deleters |-> NoHost]
  /\ inlets = [d \in Deleters |-> {}]
  /\ rule \in RuleBefore
  /\ reserved = [h \in HostIds |-> "none"]
  /\ host = [h \in HostIds |->
               IF h \in DOMAIN Before THEN ActiveStatus ELSE "absent"]
  /\ addr = [h \in HostIds |-> IF h \in DOMAIN Before THEN Before[h] ELSE NoAddr]
  /\ owner = [h \in HostIds |-> Nobody]

Asks(p, label, request) == pc[p] = label /\ at[p] = request
GoesOn(p, request) == at' = [at EXCEPT ![p] = request]

----------------------------------------------------------------------------
(* The cloud                                                               *)

AddressReady(h) ==
  /\ reserved[h] = "pending"
  /\ \E a \in Addresses :
       Unused(a) /\ reserved' = [reserved EXCEPT ![h] = a]
  /\ UNCHANGED <<cliVars, localVars, rule, instanceVars>>

(* An instance without a static address gets an ephemeral one.             *)
Boot(h) ==
  /\ Present(h)
  /\ host[h] # ActiveStatus
  /\ host' = [host EXCEPT ![h] = ActiveStatus]
  /\ \/ addr[h] # NoAddr /\ UNCHANGED addr
     \/ /\ addr[h] = NoAddr
        /\ \E a \in Addresses : Unused(a) /\ addr' = [addr EXCEPT ![h] = a]
  /\ UNCHANGED <<cliVars, localVars, rule, reserved, owner>>

(* A stopped instance keeps a static address only.                         *)
Stop(h) ==
  /\ Present(h)
  /\ host[h] # "off"
  /\ host' = [host EXCEPT ![h] = "off"]
  /\ addr' = [addr EXCEPT ![h] = IF reserved[h] = @ THEN @ ELSE NoAddr]
  /\ UNCHANGED <<cliVars, localVars, rule, reserved, owner>>

----------------------------------------------------------------------------
(* Provision                                                               *)

(* Mutant: a rule that exists is left as it is.                            *)
RuleExistsIsEnough(c) ==
  /\ Asks(c, "provision", "exists")
  /\ IF rule = "none" THEN GoesOn(c, "insert") ELSE GoesOn(c, "reserve")
  /\ UNCHANGED <<cliVars, tries, ipAddress, target, victim, inlets, rule,
                 reserved, instanceVars>>

(* gceFirewallExists: an error of the request counts as "no".              *)
RuleExists(c) ==
  /\ Asks(c, "provision", "exists")
  /\ GoesOn(c, "insert") \/ (rule # "none" /\ GoesOn(c, "update"))
  /\ UNCHANGED <<cliVars, tries, ipAddress, target, victim, inlets, rule,
                 reserved, instanceVars>>

(* The rule is made, unless another run has made it since, or updated.     *)
SetRule(c) ==
  /\ \/ Asks(c, "provision", "insert") /\ rule = "none"
     \/ Asks(c, "provision", "update")
  /\ rule' = IF KindOf[c] = "tcp" THEN "all" ELSE "web"
  /\ \/ GoesOn(c, "reserve") /\ UNCHANGED cliVars
     \/ ProvisionFails(c) /\ UNCHANGED at
  /\ UNCHANGED <<tries, ipAddress, target, victim, inlets, reserved,
                 instanceVars>>

(* Mutant: an address of the name is taken for the one asked for.          *)
ReserveConflictAccepted(c) ==
  /\ Asks(c, "provision", "reserve")
  /\ reserved' = [reserved EXCEPT ![NameOf[c]] = IF @ = "none" THEN "pending" ELSE @]
  /\ GoesOn(c, "ready")
  /\ UNCHANGED <<cliVars, tries, ipAddress, target, victim, inlets, rule,
                 instanceVars>>

(* Addresses.Insert; a name that has an address is a conflict.             *)
ReserveAddress(c) ==
  /\ Asks(c, "provision", "reserve")
  /\ reserved[NameOf[c]] = "none"
  /\ reserved' = [reserved EXCEPT ![NameOf[c]] = "pending"]
  /\ \/ GoesOn(c, "ready") /\ UNCHANGED cliVars
     \/ ProvisionFails(c) /\ UNCHANGED at
  /\ UNCHANGED <<tries, ipAddress, target, victim, inlets, rule, instanceVars>>

(* One round of the loop; when it is used up ipAddress stays empty.        *)
AskAddress(c) ==
  /\ Asks(c, "provision", "ready")
  /\ tries' = [tries EXCEPT ![c] = @ + 1]
  /\ \/ /\ reserved[NameOf[c]] \in Addresses
        /\ ipAddress' = [ipAddress EXCEPT ![c] = reserved[NameOf[c]]]
        /\ GoesOn(c, "instance")
     \/ /\ reserved[NameOf[c]] = "pending"
        /\ GoesOn(c, IF tries[c] + 1 < AddrTries THEN "ready" ELSE "instance")
        /\ UNCHANGED ipAddress
  /\ UNCHANGED <<cliVars, target, victim, inlets, rule, reserved, instanceVars>>

(* Instances.Insert takes effect.  The address must still be reserved.     *)
InsertInstance(c) ==
  LET h == NameOf[c] IN
  /\ Asks(c, "provision", "instance")
  /\ host[h] = "absent"
  /\ ipAddress[c] \in {NoAddr, reserved[h]}
  /\ host' = [host EXCEPT ![h] = "creating"]
  /\ addr' = [addr EXCEPT ![h] = ipAddress[c]]
  /\ owner' = [owner EXCEPT ![h] = c]
  /\ ProvisionReturns(c, h) \/ ProvisionFails(c)
  /\ ipAddress' = [ipAddress EXCEPT ![c] = NoAddr]
  /\ UNCHANGED <<at, tries, target, victim, inlets, rule, reserved>>

(* The request is accepted, and the operation it starts comes to nothing;  *)
(* Provision does not wait for it.  A conflict would be refused at once.   *)
InsertFailsLater(c) ==
  /\ Asks(c, "provision", "instance")
  /\ host[NameOf[c]] = "absent"
  /\ ProvisionReturns(c, NameOf[c])
  /\ UNCHANGED gceVars

ProvisionRefused(c) ==
  /\ at[c] # "exists"
  /\ ProvisionFails(c)
  /\ UNCHANGED gceVars

Status(c) ==
  LET h == hostID[c] IN
  /\ pc[c] = "status"
  /\ Present(h)
  /\ StatusReturns(c, [status |-> host[h], ip |-> addr[h]])
  /\ UNCHANGED gceVars

CreateStep(c) ==
  \/ /\ \/ AcceptCreate(c) \/ RejectArgs(c) \/ PrintHost(c) \/ HandleStatus(c)
        \/ StatusFails(c)
     /\ UNCHANGED gceVars
  \/ RuleExists(c) \/ SetRule(c) \/ ReserveAddress(c) \/ AskAddress(c)
  \/ InsertInstance(c) \/ InsertFailsLater(c) \/ ProvisionRefused(c)
  \/ Status(c)

----------------------------------------------------------------------------
(* Delete                                                                  *)

StartDelete(d) ==
  /\ AcceptDelete(d)
  /\ \/ /\ \E h \in HostIds : victim' = [victim EXCEPT ![d] = h]
        /\ GoesOn(d, "address")
        /\ UNCHANGED target
     \/ /\ \E a \in Addresses : target' = [target EXCEPT ![d] = a]
        /\ UNCHANGED <<victim, at>>
  /\ UNCHANGED <<tries, ipAddress, inlets, rule, reserved, instanceVars>>

(* A page of List.  The token of the next page is not taken from the       *)
(* answer: while there is one, the loop asks for the first page again.     *)
ListPage(d) ==
  LET nodes == {h \in HostIds : Present(h)} IN
  /\ Asks(d, "delete", "list")
  /\ \E page \in SUBSET nodes :
       /\ page # nodes => Cardinality(page) = PageSize
       /\ page = nodes => Cardinality(page) <= PageSize
       /\ LET read == inlets[d] \cup {<<h, addr[h]>> : h \in page} IN
          \/ /\ page # nodes
             /\ inlets' = [inlets EXCEPT ![d] = read]
             /\ UNCHANGED <<cliVars, victim, at>>
          \/ /\ page = nodes
             /\ inlets' = [inlets EXCEPT ![d] = {}]
             /\ \/ /\ \E h \in HostIds :
                       /\ <<h, target[d]>> \in read
                       /\ victim' = [victim EXCEPT ![d] = h]
                  /\ GoesOn(d, "address")
                  /\ UNCHANGED cliVars
               \/ /\ \A h \in HostIds : <<h, target[d]>> \notin read
                  /\ DeleteFails(d)
                  /\ UNCHANGED <<victim, at>>
  /\ UNCHANGED <<tries, ipAddress, target, rule, reserved, instanceVars>>

(* Is there an address of that name?  An error counts as "no", and there   *)
(* is one whenever --ip is given without --region.                         *)
FindAddress(d) ==
  /\ Asks(d, "delete", "address")
  /\ \/ reserved[victim[d]] \in Addresses /\ GoesOn(d, "release")
     \/ GoesOn(d, "instance")
  /\ UNCHANGED <<cliVars, tries, ipAddress, target, victim, inlets, rule,
                 reserved, instanceVars>>

(* An address in use is not released; every error is only logged.          *)
ReleaseAddress(d) ==
  LET a == reserved[victim[d]] IN
  /\ Asks(d, "delete", "release")
  /\ \/ /\ \A h \in HostIds : addr[h] # a
        /\ reserved' = [reserved EXCEPT ![victim[d]] = "none"]
     \/ UNCHANGED reserved
  /\ GoesOn(d, "instance")
  /\ UNCHANGED <<cliVars, tries, ipAddress, target, victim, inlets, rule,
                 instanceVars>>

DeleteInstance(d) ==
  LET h == victim[d] IN
  /\ Asks(d, "delete", "instance")
  /\ Present(h)
  /\ host' = [host EXCEPT ![h] = "absent"]
  /\ addr' = [addr EXCEPT ![h] = NoAddr]
  /\ owner' = [owner EXCEPT ![h] = Nobody]
  /\ DeleteReturns(d) \/ DeleteFails(d)
  /\ UNCHANGED <<localVars, rule, reserved>>

DeleteRefused(d) ==
  /\ at[d] \in {"list", "instance"}
  /\ DeleteFails(d)
  /\ UNCHANGED gceVars

DeleteStep(d) ==
  \/ RejectArgs(d) /\ UNCHANGED gceVars
  \/ StartDelete(d) \/ ListPage(d) \/ FindAddress(d) \/ ReleaseAddress(d)
  \/ DeleteInstance(d) \/ DeleteRefused(d)

----------------------------------------------------------------------------

Kill(p) == Interrupt(p) /\ UNCHANGED gceVars

Next ==
  \/ \E c \in Creators : CreateStep(c)
  \/ \E d \in Deleters : DeleteStep(d)
  \/ \E p \in Runs : Kill(p)
  \/ \E h \in HostIds \ DOMAIN Before : AddressReady(h) \/ Boot(h) \/ Stop(h)

(* The operating system schedules the runs, and no request hangs; but no   *)
(* request to list fails only because it is made over and over again.      *)
Fairness ==
  /\ \A c \in Creators : WF_vars(CreateStep(c))
  /\ \A d \in Deleters :
       WF_vars(ListPage(d) \/ (~Asks(d, "delete", "list") /\ DeleteStep(d)))

Spec == Init /\ [][Next]_vars /\ Fairness

----------------------------------------------------------------------------
(* Properties                                                              *)

(* The firewall lets in what the tunnel of every announced instance needs: *)
(* any port for TCP, for the printed command names ports of the user's     *)
(* (create.go:395), and 8123, 80 and 443 for HTTPS.  It does not hold in a *)
(* project with tunnels of both kinds: all of them share one rule, and the *)
(* last create sets it to what its own kind needs (gce.go:181-229).        *)
PortsOpen ==
  \A c \in Creators :
    "summary" \in printed[c] /\ owner[NameOf[c]] = c =>
      IF KindOf[c] = "tcp" THEN rule = "all" ELSE rule \in {"web", "all"}

(* What is left of that: whatever order the checks, inserts and updates of *)
(* the one rule come in, and whatever rule was there before, no announced  *)
(* tunnel is without its web ports, and one for TCP is without the other   *)
(* ports only if some HTTPS create of the project, be it one that failed   *)
(* or of another name, has got past its look at the rule (gce.go:212-229). *)
OnlyHttpsNarrowsRule ==
  \A c \in Creators : "summary" \in printed[c] =>
    \/ rule = "all"
    \/ /\ rule = "web"
       /\ \E b \in Creators : KindOf[b] = "https" /\ at[b] # "exists"

(* Two creates of one name never hand out the same instance: as long as no *)
(* delete is aimed at the name, a summary is about the instance this run   *)
(* made.  The reserved address is what keeps the second create away, even  *)
(* when the operation the first one started comes to nothing later         *)
(* (gce.go:44-69, 144-163, create.go:346-411).                             *)
SummaryIsOwnInstance ==
  \A c \in Creators :
    "summary" \in printed[c] /\ (\A d \in Deleters : victim[d] # NameOf[c]) =>
      owner[NameOf[c]] = c

(* Every run ends, unless the project stays at more exit-nodes than one    *)
(* page holds: then a delete --ip may list them for ever (gce.go:332-362). *)
ManyPages == Cardinality({h \in HostIds : Present(h)}) > PageSize
EveryRunEnds == \A p \in Runs : <>(pc[p] = "exited") \/ <>[]ManyPages

=============================================================================
