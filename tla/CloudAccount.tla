---------------------------- MODULE CloudAccount ----------------------------
(***************************************************************************)
(* An account of a cloud provider: the hosts in it, what the provider does *)
(* to them by itself, and the parts of provision.Provisioner that most     *)
(* providers share, which are the requests that touch hosts alone: asking  *)
(* for the status of a host and finding the host that has an address.      *)
(*                                                                         *)
(* A request and what the command does with its answer are one step, with  *)
(* one outcome per pair (request took effect or not, answer is an error or *)
(* not).  The account is changed meanwhile by the cloud (hosts boot and    *)
(* stop) and by all the other runs.                                        *)
(*                                                                         *)
(* The provider modules extend this one and add what else they keep.       *)
(***************************************************************************)
EXTENDS Cli

CONSTANTS
  Foreign,      \* machines of the account that inletsctl did not make
  FiltersByTag, \* whether the lookup by IP lists exit-servers only
  Nobody        \* the owner of a host that no run made

ASSUME CloudAssumption ==
  /\ Foreign \subseteq HostIds
  /\ FiltersByTag \in BOOLEAN
  /\ Nobody \notin Creators

VARIABLES
  host,    \* the state of each host in the account
  addr,    \* the public address of each host
  target,  \* the --ip of each delete, NoAddr when --id was given
  victim,  \* the id each delete will remove, NoHost while it is unknown
  owner,   \* history: the run whose request made the host
  wasUp    \* history: the hosts that have been active

cloudVars == <<host, addr, owner, wasUp>>
accountVars == <<cloudVars, target, victim>>

HostStates == {"absent", "deleted"} \cup Statuses

AccountTypeOK ==
  /\ host \in [HostIds -> HostStates]
  /\ addr \in [HostIds -> Addresses \cup {NoAddr}]
  /\ target \in [Deleters -> Addresses \cup {NoAddr}]
  /\ victim \in [Deleters -> HostIds \cup {NoHost}]
  /\ owner \in [HostIds -> Creators \cup {Nobody}]
  /\ wasUp \subseteq HostIds

Present(h) == host[h] \in Statuses
Unused(a) == \A h \in HostIds : addr[h] # a

AccountInit ==
  /\ host = [h \in HostIds |-> IF h \in Foreign THEN ActiveStatus ELSE "absent"]
  /\ addr \in [HostIds -> Addresses \cup {NoAddr}]
  /\ \A h \in HostIds : addr[h] \in Addresses <=> h \in Foreign
  /\ \A g, h \in Foreign : addr[g] = addr[h] => g = h
  /\ target = [d \in Deleters |-> NoAddr]
  /\ victim = [d \in Deleters |-> NoHost]
  /\ owner = [h \in HostIds |-> Nobody]
  /\ wasUp = Foreign

----------------------------------------------------------------------------
(* The cloud                                                               *)

(* A host is up and has its public address, under the status "active".     *)
Boot(h) ==
  /\ Present(h)
  /\ host[h] # ActiveStatus
  /\ host' = [host EXCEPT ![h] = ActiveStatus]
  /\ \/ /\ addr[h] = NoAddr
        /\ \E a \in Addresses : Unused(a) /\ addr' = [addr EXCEPT ![h] = a]
     \/ /\ addr[h] # NoAddr
        /\ UNCHANGED addr
  /\ wasUp' = wasUp \cup {h}
  /\ UNCHANGED <<cliVars, target, victim, owner>>

(* A host fails to come up, is powered off or crashes.                     *)
Stop(h) ==
  /\ Present(h)
  /\ host[h] # "off"
  /\ host' = [host EXCEPT ![h] = "off"]
  /\ UNCHANGED <<cliVars, target, victim, addr, owner, wasUp>>

(* The same with a provider that takes a dynamic address back.             *)
StopAndRelease(h) ==
  /\ Present(h)
  /\ host[h] # "off"
  /\ host' = [host EXCEPT ![h] = "off"]
  /\ addr' = [addr EXCEPT ![h] = NoAddr]
  /\ UNCHANGED <<cliVars, target, victim, owner, wasUp>>

----------------------------------------------------------------------------
(* Requests                                                                *)

(* The request to make a host takes effect.                                *)
Make(c, h) ==
  /\ host[h] = "absent"
  /\ host' = [host EXCEPT ![h] = "creating"]
  /\ owner' = [owner EXCEPT ![h] = c]
  /\ UNCHANGED <<addr, wasUp>>

(* The request to remove a host takes effect.                              *)
Erase(h) ==
  /\ Present(h)
  /\ host' = [host EXCEPT ![h] = "deleted"]
  /\ addr' = [addr EXCEPT ![h] = NoAddr]
  /\ UNCHANGED <<owner, wasUp>>

Status(c) ==
  /\ pc[c] = "status"
  /\ Present(hostID[c])
  /\ StatusReturns(c, [status |-> host[hostID[c]], ip |-> addr[hostID[c]]])
  /\ UNCHANGED <<cloudVars, target, victim>>

(* The user gives the id of any host there is or was (an id also wins over *)
(* an IP), or an IP.                                                       *)
StartDelete(d) ==
  /\ AcceptDelete(d)
  /\ \/ /\ \E h \in HostIds :
             /\ host[h] # "absent"
             /\ victim' = [victim EXCEPT ![d] = h]
        /\ UNCHANGED target
     \/ /\ \E a \in Addresses : target' = [target EXCEPT ![d] = a]
        /\ UNCHANGED victim
  /\ UNCHANGED cloudVars

(* What List returns: DigitalOcean asks for the tag "inlets", Hetzner for  *)
(* the label "managed-by=inlets", OVH for every instance of the project.   *)
Listed == {h \in HostIds : Present(h) /\ (FiltersByTag => h \notin Foreign)}

(* Mutant: the lookup takes the first host of the list.                    *)
LookupFirst(d) ==
  /\ pc[d] = "delete"
  /\ victim[d] = NoHost
  /\ \E h \in Listed : victim' = [victim EXCEPT ![d] = h]
  /\ UNCHANGED <<cliVars, cloudVars, target>>

Lookup(d) ==
  /\ pc[d] = "delete"
  /\ victim[d] = NoHost
  /\ \E h \in Listed :
       /\ addr[h] = target[d]
       /\ victim' = [victim EXCEPT ![d] = h]
  /\ UNCHANGED <<cliVars, cloudVars, target>>

----------------------------------------------------------------------------
(* Properties                                                              *)

(* The connection summary a create prints is about the host this very run  *)
(* made, that host has been up, and for as long as the host exists the     *)
(* printed URL leads to it, however many other runs, stops and deletes     *)
(* came between the poll that saw it and the print (create.go:339-411).    *)
SummaryIsOwnHost ==
  \A c \in Creators : "summary" \in printed[c] =>
    /\ owner[hostID[c]] = c
    /\ hostID[c] \in wasUp
    /\ Present(hostID[c]) => addr[hostID[c]] = reply[c].ip

(* A host is left behind unknown to its user only by a run that ended with *)
(* an error or was killed: a run that exits with status 0, with or without *)
(* a summary, has printed the id of every host it made (create.go:339-344).*)
NoSilentOrphan ==
  \A h \in HostIds : \A c \in Creators :
    owner[h] = c /\ exit[c] = "ok" => "id" \in printed[c] /\ hostID[c] = h

(* One run of create makes at most one host, even when an answer is lost:  *)
(* "The `create` command provisions a cheap cloud VM" (README.md:8), and   *)
(* create.go:339-342 does not retry.  It does not hold where the client of *)
(* the provider repeats a request by itself (vultr.go:23, linode.go:60).   *)
OneHostPerRun ==
  \A g, h \in HostIds : owner[g] = owner[h] /\ owner[g] # Nobody => g = h

(* A delete that reports success has removed the host it was aimed at, and *)
(* nothing brings that host back; a delete --ip that still has its host    *)
(* ahead of it is aimed at the one that holds the address, even if another *)
(* delete and a new host have moved addresses since the lookup             *)
(* (delete.go:153-167, digitalocean.go:59-76).                             *)
DeleteHitsItsTarget ==
  \A d \in Deleters :
    /\ exit[d] = "ok" => victim[d] # NoHost /\ host[victim[d]] = "deleted"
    /\ /\ target[d] # NoAddr
       /\ victim[d] # NoHost
       /\ Present(victim[d])
       => addr[victim[d]] = target[d]

(* delete --ip never removes a machine inletsctl did not make: "Delete an  *)
(* exit node created at an earlier time by inletsctl" (delete.go:44).  It  *)
(* does not hold with OVH, whose list has every instance of the project    *)
(* (ovh.go:79-91).                                                         *)
OnlyExitNodesByIP ==
  \A d \in Deleters : target[d] # NoAddr => victim[d] \notin Foreign

----------------------------------------------------------------------------
(* The promise to the user, of which this is one implementation            *)

LifeOf(h) ==
  CASE host[h] = "absent" -> "none"
    [] host[h] = ActiveStatus -> "up"
    [] host[h] \in {"creating", "off"} -> "down"
    [] OTHER -> "gone"

Promise == INSTANCE ExitServers WITH
  Servers <- HostIds,
  life <- [h \in HostIds |-> LifeOf(h)],
  condemned <- {h \in HostIds : \E d \in Deleters : victim[d] = h},
  announced <- {h \in HostIds : \E c \in Creators :
                  hostID[c] = h /\ "summary" \in printed[c]}

=============================================================================
