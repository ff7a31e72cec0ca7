------------------------------ MODULE Commands ------------------------------
(***************************************************************************)
(* The command lines of `inletsctl create` and `inletsctl delete`: which   *)
(* ones are accepted, what they ask the provider for, and whether a delete *)
(* looks for the host where the create has put it.                         *)
(*                                                                         *)
(* create and delete read their flags in two functions of their own        *)
(* (runCreate, runDelete) that have to agree about defaults, sources of    *)
(* credentials and mandatory flags.  One behaviour is one create, and one  *)
(* delete of what it has made by the same user.  A value is told apart     *)
(* from another only where the commands or the providers do so.            *)
(***************************************************************************)

CONSTANTS
  Places,      \* the names a user may give to --region and --zone
  Zones,       \* those of them that read like a zone of scaleway
  CreateLines  \* the flags of the create under consideration

Unset == "unset"  \* the flag is not on the command line
Empty == ""

Providers == {"digitalocean", "scaleway", "gce", "ec2", "azure", "linode",
              "hetzner", "vultr", "ovh"}

(* Where a credential may come from: a file, a flag, the environment.      *)
Sources == [file : {Unset, "unreadable", "blank", "value"},
            flag : BOOLEAN, env : BOOLEAN]

(* account is the flag for the part of the account: --organisation-id with *)
(* scaleway, --project-id with gce and ovh, --subscription-id with azure.  *)
Lines == [provider : Providers \cup {"other"},
          region : Places \cup {Unset, Empty}, zone : Places \cup {Unset},
          access : Sources, secret : Sources, account : BOOLEAN,
          vpc : BOOLEAN, subnet : BOOLEAN,
          session : {Unset, "unreadable", "value"},
          tcp : {Unset, "true", "false"}, domains : BOOLEAN, issuer : BOOLEAN]

ASSUME LinesAssumption ==
  /\ Zones \subseteq Places
  /\ {"fr-par-1", "eu-west-1", "us-central1-a"} \subseteq Places
  /\ CreateLines \subseteq Lines

VARIABLES
  line,    \* the flags of the create
  host,    \* the host create has asked for, or NoHost
  advice,  \* how the user came by the flags of the delete
  outcome  \* the outcome of the last command

commandsVars == <<line, host, advice, outcome>>

----------------------------------------------------------------------------
(* Flags                                                                   *)

(* The value a credential gets: "none", an error, or the source it is      *)
(* taken from.  A file wins over a flag even if there is nothing in it.    *)
FileOrFlag(s) ==
  CASE s.file = "unreadable" -> "error"
    [] s.file = "blank" -> "none"
    [] s.file = "value" -> "file"
    [] s.file = Unset -> IF s.flag THEN "flag" ELSE "none"

(* pkg/env looks into the environment when there is no value yet;          *)
(* getFileOrString of cmd/common.go does not.                              *)
FileFlagOrEnv(s) ==
  IF FileOrFlag(s) = "none" /\ s.env THEN "env" ELSE FileOrFlag(s)

Given(value) == value \notin {"none", "error"}

TakesSecretKey == {"scaleway", "ec2", "ovh"}

(* The zone has a default in the flag set of both commands.                *)
ZoneOf(f) == IF f.zone = Unset THEN "us-central1-a" ELSE f.zone

(* getProvisioner knows the provider, and scaleway's parses the zone.      *)
HasProvisioner(provider, region) ==
  /\ provider \in Providers
  /\ provider = "scaleway" => region \in Zones \cup {Empty}

----------------------------------------------------------------------------
(* create                                                                  *)

CreateRegion == [digitalocean |-> "lon1", scaleway |-> "fr-par-1",
                 ec2 |-> "eu-west-1", hetzner |-> "hel1", vultr |-> "LHR",
                 linode |-> "eu-west", ovh |-> "DE1"]

RegionOfCreate(f) ==
  IF f.region # Unset THEN f.region
  ELSE IF f.provider \in DOMAIN CreateRegion THEN CreateRegion[f.provider]
  ELSE Empty

(* Mutant: --tcp is not reset when domains are given.                      *)
TcpAsGiven(f) == f.tcp = "true"

(* Domains win over --tcp.                                                 *)
Tcp(f) == f.tcp = "true" /\ ~f.domains

CreateSecret(f) == FileOrFlag(f.secret)

CreateAccepts(f) ==
  /\ HasProvisioner(f.provider, RegionOfCreate(f))
  /\ Given(FileFlagOrEnv(f.access))
  /\ f.provider = "gce" => f.region # Unset
  /\ f.provider \in TakesSecretKey => Given(CreateSecret(f))
  /\ f.provider \in {"gce", "ovh", "scaleway"} => f.account
  /\ f.provider = "ec2" => (f.vpc <=> f.subnet) /\ f.session # "unreadable"
  /\ f.domains \/ f.tcp = "true"
  /\ f.domains => f.issuer

(* Requests to ovh and azure have the project and the subscription in      *)
(* their paths, and fail without one.                                      *)
InAccount(f) == f.provider \in {"ovh", "azure"} => f.account

(* Provision itself refuses an empty region.                               *)
Provisions(f) ==
  /\ f.provider \in {"gce", "ec2"} => RegionOfCreate(f) # Empty
  /\ InAccount(f)

(* Mutant: scaleway has no default zone of its own.                        *)
PlaceNoZone(provider, region, zone) ==
  CASE provider \in {"ec2", "scaleway"} -> region
    [] provider = "gce" -> zone
    [] OTHER -> "anywhere"

(* ec2 and scaleway look no further than their client's region or zone;    *)
(* the GCE API wants the zone; elsewhere an id is known in every region.   *)
Place(provider, region, zone) ==
  CASE provider = "ec2" -> region
    [] provider = "scaleway" -> IF region = Empty THEN "fr-par-1" ELSE region
    [] provider = "gce" -> zone
    [] OTHER -> "anywhere"

(* createHost, and the user-data it is given.                              *)
CreateHost(f) ==
  [place |-> Place(f.provider, RegionOfCreate(f), ZoneOf(f)),
   userData |-> IF f.domains THEN "https" ELSE "tcp",
   pro |-> Tcp(f),
   webPorts |-> f.provider = "ec2" /\ f.domains]

NoHost == [place |-> "nowhere", userData |-> "none", pro |-> FALSE,
           webPorts |-> FALSE]

----------------------------------------------------------------------------
(* delete                                                                  *)

DeleteRegion == [scaleway |-> "fr-par-1", ec2 |-> "eu-west-1"]

(* Mutant: the default region of scaleway only.                            *)
RegionOfDeleteNoEc2(f) ==
  IF f.region # Unset THEN f.region
  ELSE IF f.provider = "scaleway" THEN DeleteRegion.scaleway
  ELSE Empty

RegionOfDelete(f) ==
  IF f.region # Unset THEN f.region
  ELSE IF f.provider \in DOMAIN DeleteRegion THEN DeleteRegion[f.provider]
  ELSE Empty

(* Mutant: the environment comes before the file and the flag.             *)
DeleteSecretEnvFirst(f) == IF f.secret.env THEN "env" ELSE FileOrFlag(f.secret)

DeleteSecret(f) == FileFlagOrEnv(f.secret)

(* How a user gets to the flags of a delete: from the summary that create  *)
(* prints, from the flags given to create, or from the example in the help *)
(* text, which names no host.                                              *)
Advices == {"summary", "same flags", "example"}

(* The summary names the provider and the id alone.  The user adds the     *)
(* credentials, which are those of the create, and nothing else.           *)
DeleteLine(f, how) ==
  IF how = "summary"
    THEN [f EXCEPT !.region = Unset, !.zone = Unset, !.account = FALSE]
    ELSE f

NamesHost(how) == how # "example"

DeleteAccepts(f, how) ==
  /\ HasProvisioner(f.provider, RegionOfDelete(f))
  /\ Given(FileFlagOrEnv(f.access))
  /\ f.provider \in TakesSecretKey => Given(DeleteSecret(f))
  /\ f.provider = "ec2" => f.session # "unreadable"
  /\ f.provider = "scaleway" => f.account
  /\ NamesHost(how)

(* In the id GCE gives a host there is a zone too, but --zone wins over it *)
(* and always has a value.                                                 *)
LooksIn(f) == Place(f.provider, RegionOfDelete(f), ZoneOf(f))

(* The host is where the request of Delete looks for it.                   *)
Finds(f) == InAccount(f) /\ LooksIn(f) = host.place

----------------------------------------------------------------------------

CommandsTypeOK ==
  /\ line \in CreateLines
  /\ host \in [place : Places \cup {"anywhere", "nowhere"},
               userData : {"https", "tcp", "none"},
               pro : BOOLEAN, webPorts : BOOLEAN]
  /\ advice \in Advices \cup {"none"}
  /\ outcome \in {"none", "created", "rejected", "deleted", "not found"}

CommandsInit ==
  /\ line \in CreateLines
  /\ host = NoHost
  /\ advice = "none"
  /\ outcome = "none"

Create ==
  /\ outcome = "none"
  /\ \/ /\ CreateAccepts(line) /\ Provisions(line)
        /\ host' = CreateHost(line)
        /\ outcome' = "created"
     \/ /\ ~(CreateAccepts(line) /\ Provisions(line))
        /\ outcome' = "rejected"
        /\ UNCHANGED host
  /\ UNCHANGED <<line, advice>>

Delete(how) ==
  LET f == DeleteLine(line, how) IN
  /\ outcome = "created"
  /\ advice' = how
  /\ \/ /\ ~DeleteAccepts(f, how)
        /\ outcome' = "rejected"
        /\ UNCHANGED host
     \/ /\ DeleteAccepts(f, how)
        /\ Finds(f)
        /\ outcome' = "deleted"
        /\ host' = NoHost
     \/ /\ DeleteAccepts(f, how)
        /\ ~Finds(f)
        /\ outcome' = "not found"
        /\ UNCHANGED host
  /\ UNCHANGED line

CommandsNext == Create \/ \E how \in Advices : Delete(how)

CommandsSpec == CommandsInit /\ [][CommandsNext]_commandsVars

----------------------------------------------------------------------------
(* Properties                                                              *)

(* With the flags of the create, and --id, a delete is accepted, and looks *)
(* where the host is: the two tables of defaults agree, and no flag is     *)
(* mandatory for delete that is not for create (create.go:159-257,         *)
(* delete.go:62-151).                                                      *)
SameFlagsDelete == advice = "same flags" => outcome = "deleted"

(* A host that could be made can be deleted with the same secret key, read *)
(* from the same place, although the commands read it with two functions   *)
(* (create.go:212, delete.go:91).                                          *)
SameSecretKey ==
  outcome = "created" /\ line.provider \in TakesSecretKey =>
    DeleteSecret(line) = CreateSecret(line)

(* The software on the host, the meaning of `pro` for the firewall, and    *)
(* the web ports that are opened belong to one and the same kind of        *)
(* tunnel, whatever the mix of --tcp and --letsencrypt-domain              *)
(* (create.go:115-118, 285-305, 497-504).                                  *)
OneKindOfTunnel ==
  host # NoHost =>
    /\ host.pro <=> host.userData = "tcp"
    /\ line.provider = "ec2" => (host.webPorts <=> host.userData = "https")

(* The command printed under "To delete:", which names the provider and    *)
(* the id alone, deletes a host that was made in the default place, with   *)
(* the providers whose delete wants no more to find it: each default is    *)
(* chosen by code of its own in create, in delete and in the provisioner   *)
(* (create.go:168-201, 371-372, 397-398, delete.go:62-75).  For a host     *)
(* elsewhere it does not, the line having no --region or --zone, nor with  *)
(* scaleway, ovh and azure, the line having no --organisation-id,          *)
(* --project-id or --subscription-id.                                      *)
SummaryDeletes ==
  /\ advice = "summary"
  /\ line.provider \notin {"scaleway", "ovh", "azure"}
  /\ line.zone = Unset
  /\ line.region = Unset \/ line.provider = "gce"
  => outcome = "deleted"

(* delete accepts the command that create prints under "To delete:", with  *)
(* the credentials of the create: `inletsctl delete --provider %s --id     *)
(* "%s"` (create.go:371-372, 397-398).  It does not hold: with scaleway    *)
(* delete wants --organisation-id as well (delete.go:107-112).             *)
PrintedLineAccepted == advice = "summary" => outcome # "rejected"

=============================================================================
