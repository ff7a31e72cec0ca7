---------------------------- MODULE ScriptCloud ----------------------------
(***************************************************************************)
(* create and delete against the two providers that keep the user-data of  *)
(* a host apart from it, in a script of the account: Linode (linode.go),   *)
(* which drops the script when the host is seen running, and Vultr         *)
(* (vultr.go), which drops a script when the host is deleted.              *)
(*                                                                         *)
(* The clients of both send a request again whose answer is a failure they *)
(* take for a passing one: govultr, which inletsctl does not configure, on *)
(* every lost connection and every 5xx (up to three times), linodego on    *)
(* 408, 503 and GOAWAY.  A request to make something may have taken effect *)
(* by then, so that one run can make several scripts and several hosts, of *)
(* which it knows the last.  How often is bounded here by the ids there    *)
(* are.  A request to delete that is sent again finds nothing and fails.   *)
(*                                                                         *)
(* The name of a script and the label of a host are the name the user      *)
(* chose, and nothing keeps two users from choosing the same.              *)
(***************************************************************************)
EXTENDS CloudAccount, FiniteSets

CONSTANTS
  Names,         \* the values of --name, and other labels and script names
  NoName,        \* a label nobody gave
  ScriptIds,     \* the ids a provider can give to a script
  NoScript,      \* the id of no script
  OtherScripts,  \* scripts of the account that inletsctl did not make
  Providers      \* the providers considered

ASSUME ScriptAssumption ==
  /\ Names # {}
  /\ NoName \notin Names
  /\ NoScript \notin ScriptIds
  /\ OtherScripts \subseteq ScriptIds
  /\ Providers \subseteq {"linode", "vultr"}

VARIABLES
  provider,    \* the provider the account is with
  name,        \* the --name of each create
  label,       \* the label of each host
  script,      \* the state of each script in the account
  scriptName,  \* the name of each script
  boots,       \* the script each host boots with
  scriptID,    \* the script each create was told of, p.stackscriptID
  at,          \* the next request of each run in Provision or Delete
  picked       \* the script each delete is about to drop

storeVars == <<label, script, scriptName, boots>>
scriptVars == <<provider, name, picked, scriptID, storeVars>>
scriptCloudVars == <<cliVars, accountVars, at, scriptVars>>

ScriptTypeOK ==
  /\ CliTypeOK
  /\ AccountTypeOK
  /\ provider \in Providers
  /\ name \in [Creators -> Names]
  /\ label \in [HostIds -> Names \cup {NoName}]
  /\ script \in [ScriptIds -> {"absent", "there", "deleted"}]
  /\ scriptName \in [ScriptIds -> Names \cup {NoName}]
  /\ boots \in [HostIds -> ScriptIds \cup {NoScript}]
  /\ scriptID \in [Creators -> ScriptIds \cup {NoScript}]
  /\ \A c \in Creators : at[c] \in {"script", "instance"}
  /\ \A d \in Deleters : at[d] \in {"get", "remove", "scripts", "script"}
  /\ picked \in [Deleters -> ScriptIds \cup {NoScript}]

(* Delete asks Vultr for the host first, and Linode to delete it.          *)
First(p) ==
  IF p \in Creators THEN "script"
  ELSE IF provider = "vultr" THEN "get" ELSE "remove"

ScriptInit ==
  /\ CliInit
  /\ AccountInit
  /\ provider \in Providers
  /\ name \in [Creators -> Names]
  /\ label \in [HostIds -> Names \cup {NoName}]
  /\ \A h \in HostIds \ Foreign : label[h] = NoName
  /\ script = [s \in ScriptIds |->
                 IF s \in OtherScripts THEN "there" ELSE "absent"]
  /\ scriptName \in [ScriptIds -> Names \cup {NoName}]
  /\ \A s \in ScriptIds : scriptName[s] \in Names <=> s \in OtherScripts
  /\ boots = [h \in HostIds |-> NoScript]
  /\ scriptID = [c \in Creators |-> NoScript]
  /\ at = [p \in Runs |-> First(p)]
  /\ picked = [d \in Deleters |-> NoScript]

Asks(p, stage, request) == pc[p] = stage /\ at[p] = request
GoesOn(p, request) == at' = [at EXCEPT ![p] = request]

(* Where a run was when it ended does not matter.                          *)
Leaves(p) == GoesOn(p, First(p))

(* The answer is lost or a failure that passes: the client asks again.     *)
AsksAgain == UNCHANGED <<cliVars, at>>

(* The scripts named like the label of h, whoever made h and them.         *)
ScriptsLike(h) ==
  {s \in ScriptIds : script[s] = "there" /\ scriptName[s] = label[h]}

----------------------------------------------------------------------------
(* create                                                                  *)

CreateScript(c) ==
  /\ Asks(c, "provision", "script")
  /\ \E s \in ScriptIds :
       /\ script[s] = "absent"
       /\ script' = [script EXCEPT ![s] = "there"]
       /\ scriptName' = [scriptName EXCEPT ![s] = name[c]]
       /\ \/ /\ scriptID' = [scriptID EXCEPT ![c] = s]
             /\ GoesOn(c, "instance")
             /\ UNCHANGED cliVars
          \/ AsksAgain /\ UNCHANGED scriptID
          \/ ProvisionFails(c) /\ UNCHANGED <<at, scriptID>>
  /\ UNCHANGED <<accountVars, provider, name, label, boots, picked>>

CreateInstance(c) ==
  /\ Asks(c, "provision", "instance")
  /\ \E h \in HostIds :
       /\ Make(c, h)
       /\ label' = [label EXCEPT ![h] = name[c]]
       /\ boots' = [boots EXCEPT ![h] = scriptID[c]]
       /\ \/ (ProvisionReturns(c, h) \/ ProvisionFails(c)) /\ Leaves(c)
          \/ AsksAgain
  /\ UNCHANGED <<target, victim, provider, name, script, scriptName, scriptID,
                 picked>>

(* A request is refused, the name is too long, or no password is found;    *)
(* what was made before that stays.                                        *)
ProvisionGivesUp(c) ==
  /\ ProvisionFails(c)
  /\ Leaves(c)
  /\ UNCHANGED <<accountVars, scriptVars>>

(* A Linode that runs needs its script no more: whether the request to     *)
(* delete it succeeds is not looked at.  Nobody else deletes a script of a *)
(* Linode, so that it is one step with the poll.                           *)
StatusDropsScript(c) ==
  /\ Status(c)
  /\ \/ UNCHANGED script
     \/ /\ provider = "linode"
        /\ host[hostID[c]] = ActiveStatus
        /\ script' = [script EXCEPT ![scriptID[c]] = "deleted"]
  /\ UNCHANGED <<at, provider, name, picked, scriptID, label, scriptName, boots>>

ScriptCreateStep(c) ==
  \/ /\ \/ AcceptCreate(c) \/ RejectArgs(c) \/ PrintHost(c) \/ HandleStatus(c)
        \/ StatusFails(c)
     /\ UNCHANGED <<accountVars, at, scriptVars>>
  \/ CreateScript(c) \/ CreateInstance(c) \/ ProvisionGivesUp(c)
  \/ StatusDropsScript(c)

----------------------------------------------------------------------------
(* delete                                                                  *)

LookupVultr(d) ==
  /\ provider = "vultr"
  /\ Lookup(d)
  /\ UNCHANGED <<at, scriptVars>>

GetInstance(d) ==
  /\ Asks(d, "delete", "get")
  /\ victim[d] # NoHost
  /\ Present(victim[d])
  /\ GoesOn(d, "remove")
  /\ UNCHANGED <<cliVars, accountVars, scriptVars>>

(* Mutant: the script goes although the request to delete the host failed. *)
DeleteInstanceUnchecked(d) ==
  /\ Asks(d, "delete", "remove")
  /\ victim[d] # NoHost
  /\ Erase(victim[d]) \/ UNCHANGED cloudVars
  /\ \/ provider = "linode" /\ DeleteReturns(d) /\ Leaves(d)
     \/ provider = "vultr" /\ GoesOn(d, "scripts") /\ UNCHANGED cliVars
  /\ UNCHANGED <<target, victim, scriptVars>>

(* The request takes effect; its answer may be lost.                       *)
DeleteInstance(d) ==
  /\ Asks(d, "delete", "remove")
  /\ victim[d] # NoHost
  /\ Erase(victim[d])
  /\ \/ provider = "linode" /\ DeleteReturns(d) /\ Leaves(d)
     \/ provider = "vultr" /\ GoesOn(d, "scripts") /\ UNCHANGED cliVars
     \/ DeleteFails(d) /\ Leaves(d)
  /\ UNCHANGED <<target, victim, scriptVars>>

(* Mutant: the name of the script is not looked at.                        *)
PickAnyScript(d) ==
  /\ Asks(d, "delete", "scripts")
  /\ \E s \in ScriptIds :
       /\ script[s] = "there"
       /\ picked' = [picked EXCEPT ![d] = s]
  /\ GoesOn(d, "script")
  /\ UNCHANGED <<cliVars, accountVars, provider, name, scriptID, storeVars>>

(* The first script of the list with the label of the host for a name.     *)
PickScript(d) ==
  /\ Asks(d, "delete", "scripts")
  /\ \E s \in ScriptsLike(victim[d]) : picked' = [picked EXCEPT ![d] = s]
  /\ GoesOn(d, "script")
  /\ UNCHANGED <<cliVars, accountVars, provider, name, scriptID, storeVars>>

(* There is none, or the error of the list is dropped.                     *)
NoScriptFound(d) ==
  /\ Asks(d, "delete", "scripts")
  /\ DeleteReturns(d)
  /\ Leaves(d)
  /\ UNCHANGED <<accountVars, scriptVars>>

(* The error is dropped as well.                                           *)
DropScript(d) ==
  /\ Asks(d, "delete", "script")
  /\ script' \in {script, [script EXCEPT ![picked[d]] = "deleted"]}
  /\ picked' = [picked EXCEPT ![d] = NoScript]
  /\ DeleteReturns(d)
  /\ Leaves(d)
  /\ UNCHANGED <<accountVars, provider, name, scriptID, label, scriptName, boots>>

(* No host has the IP, or the request for the host or for its end fails.   *)
(* With Linode an IP is always refused: Delete reads the empty id as a     *)
(* number.                                                                 *)
DeleteGivesUp(d) ==
  /\ at[d] \in {"get", "remove"}
  /\ DeleteFails(d)
  /\ Leaves(d)
  /\ UNCHANGED <<accountVars, scriptVars>>

ScriptDeleteStep(d) ==
  \/ /\ StartDelete(d) \/ (RejectArgs(d) /\ UNCHANGED accountVars)
     /\ UNCHANGED <<at, scriptVars>>
  \/ LookupVultr(d) \/ GetInstance(d) \/ DeleteInstance(d)
  \/ PickScript(d) \/ NoScriptFound(d) \/ DropScript(d) \/ DeleteGivesUp(d)

----------------------------------------------------------------------------

ScriptKill(p) ==
  /\ Interrupt(p)
  /\ Leaves(p)
  /\ picked' = [d \in Deleters |-> IF d = p THEN NoScript ELSE picked[d]]
  /\ UNCHANGED <<accountVars, provider, name, scriptID, storeVars>>

CloudStep(h) ==
  /\ Boot(h) \/ Stop(h)
  /\ UNCHANGED <<at, scriptVars>>

ScriptNext ==
  \/ \E c \in Creators : ScriptCreateStep(c)
  \/ \E d \in Deleters : ScriptDeleteStep(d)
  \/ \E p \in Runs : ScriptKill(p)
  \/ \E h \in HostIds : CloudStep(h)

ScriptSpec == ScriptInit /\ [][ScriptNext]_scriptCloudVars

----------------------------------------------------------------------------
(* Properties                                                              *)

(* A host that has not been up finds the script it boots with, and with it *)
(* the tunnel server, whichever requests fail or are sent again and        *)
(* whichever hosts are deleted meanwhile.  At Linode that is so of the     *)
(* host its run was told of, but not of one that a repeated request made,  *)
(* whose script goes as soon as the other is up; at Vultr until another    *)
(* host of the same label is deleted, whoever made that one                *)
(* (linode.go:131-139, vultr.go:106-112).                                  *)
KnownToItsRun(h) ==
  \A c \in Creators : owner[h] = c => hostID[c] \in {h, NoHost}

NamesakeDeleted(h) ==
  \E g \in HostIds \ {h} : label[g] = label[h] /\ host[g] = "deleted"

BootsWithItsScript ==
  \A h \in HostIds :
    /\ owner[h] # Nobody
    /\ Present(h)
    /\ h \notin wasUp
    /\ IF provider = "linode" THEN KnownToItsRun(h) ELSE ~NamesakeDeleted(h)
    => script[boots[h]] = "there"

(* With Vultr no more scripts of a name go than hosts of that name have    *)
(* gone, even when hosts and scripts share it, inletsctl made only some of *)
(* them, and two deletes meet: one script for one host, though not always  *)
(* the one it booted with (vultr.go:84-115).                               *)
ScriptPerDeletedHost ==
  provider = "vultr" =>
    \A n \in Names :
      Cardinality({s \in ScriptIds : script[s] = "deleted" /\ scriptName[s] = n})
        <= Cardinality({h \in HostIds : host[h] = "deleted" /\ label[h] = n})

=============================================================================
