# inletsctl in TLA+

`inletsctl` creates and deletes exit-servers (small cloud VMs that run the
inlets-pro server), and forwards Kubernetes services to the local machine. It
keeps no state of its own: every run is a process that reads flags, talks to a
cloud account or a cluster which other runs talk to at the same time, prints,
and exits. What can go wrong is therefore not in one function but between the
requests of one run, between runs, and between what a run did and what it told
its user. That is what these modules are about.

## 1. The system

| Component | Source | State | Operations |
|---|---|---|---|
| create | `cmd/create.go` | local variables of `runCreate`: the host's id, the loop counter, the last status | check flags, `Provision`, print the id, poll `Status` up to 500 times, print the summary |
| delete | `cmd/delete.go` | local variables of `runDelete` | check flags, build a `HostDeleteRequest`, `Delete` |
| credentials | `pkg/env/env.go`, `cmd/common.go` | flags, files, environment | resolve a value from file, flag, environment |
| provisioners | `vendor/github.com/inlets/cloud-provision/provision/*.go` | the account at the provider: hosts, addresses, and for some providers security groups, firewall rules, scripts, volumes, resource groups | `Provision`, `Status`, `Delete`, `List` for nine providers |
| kfwd | `cmd/kfwd.go` | a temporary file, deployments in the cluster, a server process, a signal channel | write, `kubectl apply`, serve, `kubectl delete` on a signal |
| download | `cmd/download.go` | a temporary file, the installed binary | find the release, download, move |
| update, version, root | `cmd/update.go`, `cmd/inletsctl.go`, `main.go` | none | print; error to exit status |
| names, mock, CI, installer | `pkg/names`, `mock`, `ci`, `get.sh` | none | not part of the running logic |

The provisioners come from the same organisation's cloud-provision library and
hold most of the logic a create or a delete consists of, so they are modelled
with it although they are under `vendor/`.

**Interactions.** The commands call a `Provisioner` one method at a time and
synchronously; the provisioners call the provider's HTTP API, one to six
requests per method. All runs of all users of an account share that account.
`kfwd` starts `kubectl` and `inlets-pro` as children and a goroutine for
signals; runs on one machine share the temporary directory and port 8123.

**What is hard.**

* requests whose effect and whose answer come apart (lost answers, kills), when
  nothing is retried and nothing is rolled back;
* answers that are old when they are used (status, then summary; status, then
  address; lookup by IP, then delete by id);
* methods of several requests that fail in the middle (EC2, Scaleway, Linode,
  Vultr, Azure), and what they leave behind;
* resources shared by hosts that do not know of each other (GCE firewall rule
  and names, Vultr scripts, Azure resource group, temporary files of kfwd and
  download);
* work the provider goes on with after a method has returned (Azure deployments
  and the end of a group, GCE operations, EC2 instances that terminate);
* a signal that reaches a process group, whose members end in any order;
* two functions, in create and delete, that read the same flags and must agree.

**What makes each component correct.**

* create: at most one host per run; no host its user does not know of unless the
  run says it failed; a summary is about the run's own host, which was up; every
  run ends.
* delete: removes the host it was aimed at, never another, never a machine
  inletsctl did not make; success means the host is gone, with what was made for
  it (group, volumes).
* provisioners: what a host needs (user-data, script, open ports) is there as
  long as the host needs it, whatever other runs do with what they share.
* flags: what create accepted delete accepts; delete looks where create has put
  the host; one kind of tunnel throughout.
* kfwd: a run serves with its own client, until another forwards a service of
  the same name; touches only deployments for its own service; Control+C ends it
  and removes its client.
* download: a run that says it completed has installed all it was answered; one
  that fails leaves no part of an answer behind.

## 2. Modules

| Module | Models | Relation |
|---|---|---|
| `Cli` | `runCreate` after its flags and `runDelete` as processes: program counter, id, loop counter, last reply, what was printed, how it ended | base of the provider modules |
| `CloudAccount` | the hosts of an account and what most providers share: boot and stop, one request that makes or erases a host, status, the lookup by IP | EXTENDS `Cli`; INSTANCE `ExitServers` |
| `SingleCallCloud` | providers with one-request `Provision` and `Delete`: DigitalOcean, Hetzner, OVH | EXTENDS `CloudAccount` |
| `ScriptCloud` | Linode and Vultr: a script beside the host | EXTENDS `CloudAccount` |
| `ScalewayCloud` | Scaleway: server, user-data, power; volumes that outlive the server | EXTENDS `CloudAccount` |
| `Ec2Cloud` | EC2: security group, instance, tags, two requests per status | EXTENDS `CloudAccount` |
| `GceCloud` | GCE: hosts known by name, a firewall rule for all, reserved addresses, list pages | EXTENDS `Cli` |
| `AzureCloud` | Azure: resource group per name, deployments that go on by themselves | EXTENDS `Cli` |
| `ExitServers` | the abstract promise: launched once, up before announced, gone only after somebody asked | abstract specification |
| `Kfwd` | `fwdTCP` and `runKfwd`, their goroutine, children, signals | stands alone |
| `Commands` | flags of create and delete, defaults, credentials, `createHost`, where a delete looks | stands alone |
| `Download` | `downloadInlets`, `downloadBinary`, `moveFile`: several runs, one temporary file, block by block | stands alone |
| `MC...` | instances for TLC | one per checked module |
| `...Proofs` | theorems | section 4 |

GCE and Azure do not extend `CloudAccount` because their hosts are not known by
an id that is given out once: a name comes back, with another machine behind it.
That is also why their promise is stated in properties of their own.

### Cli, CloudAccount and SingleCallCloud

A *run* is one process. `Cli` has one action per point of `runCreate` and
`runDelete` where something leaves the process or control branches:

| Action | Code |
|---|---|
| `RejectArgs`, `AcceptCreate` | the flag checks of `runCreate` (and `runDelete`), all before the first request |
| `ProvisionReturns`, `ProvisionFails` | create.go:339-342 |
| `PrintHost` | create.go:344, then into the loop |
| `StatusReturns`, `StatusFails` | create.go:350-356 |
| `HandleStatus` | create.go:346-414: summary and `return nil`, or the next round, or `return err` with a nil `err` |
| `AcceptDelete`, `DeleteReturns`, `DeleteFails` | delete.go:133-168 |
| `Interrupt` | neither command installs a signal handler |

`CloudAccount` has `host` (the state of each machine), `addr` (the public
address of each), and per delete its `target` (`--ip`) and `victim` (the id it
will delete). A request and what the run does with the answer are one step, with
one outcome for each of: took effect and was answered, took effect and was not,
did not take effect. `owner` and `wasUp` are history variables. The lookup and
the removal are separate steps because they are separate requests; other runs
and the cloud (`Boot`, `Stop`) step in between. The status words of the
providers are abstracted to "creating", "active" and "off": the code compares
with "active" only.

`SingleCallCloud` follows digitalocean.go; hetzner.go and ovh.go have the same
steps. Their differences: Hetzner's `Delete` asks for the server before it
deletes it (a failure of that request is `DeleteRefused`), OVH's lookup is not
restricted to exit-servers (`FiltersByTag = FALSE`). None of the three sends a
request to make a host a second time by itself.

Abstracted from the cloud: an address belongs to one existing machine at a time,
a deleted id is never given out again, and a machine that is reported "active"
has its public address. A stopped machine keeps its address, but not at EC2 and
Scaleway (`StopAndRelease`) nor, unless the address is reserved, at GCE.

In the provider modules below `at` is the next request of a run inside
`Provision`, `Status` or `Delete`; `Asks(p, label, request)` says that run p is
there, `GoesOn` moves it. Each request is an action, named like the method of
the API where it can be, and an action `...Refused` has the requests that fail
without effect.

### Ec2Cloud

`group` is the state of each security group, `uses` the group an instance uses,
`groupID` and `groups` the local variables of `Provision` and `Delete`, `maker`
and `stopped` history. EC2 refuses to remove a group that an instance uses, and
a terminated instance uses it a while longer (`Terminated`).

| Action | Code (ec2.go) |
|---|---|
| `CreateGroup`, `AuthorizeRules` | image lookup and `createEC2SecurityGroup`, 265-307; a rule that fails leaves the group |
| `RunInstances`, `RunRefused`, `CleanUp` | 86-97: an instance without an answer is cleaned up like none |
| `CreateTags` | 103-119, whose error is dropped: `tagged` or not |
| `AskHealth`, `AskAddress` | 124-157: two requests of one `Status` |
| `LookupTagged`, `Describe`, `Terminate`, `WaitUntilTerminated`, `DeleteGroup`, `DeleteDone` | 160-205 and the lookup by IP |

### GceCloud

Hosts are names: `NameOf` gives the one of each create. `rule` is what the
project's firewall rule lets in, `reserved` the static address of each name,
`inlets` what a delete has read of the list. `Before` and `RuleBefore` are what
the project holds already.

| Action | Code (gce.go) |
|---|---|
| `RuleExists`, `SetRule` | 167-229: check, then insert or update, with another run in between |
| `ReserveAddress`, `AskAddress` | 44-69: a name that is taken ends the run; the wait for the address |
| `InsertInstance`, `InsertFailsLater` | 144-163; the operation is not waited for |
| `ListPage` | 332-362: the next page's token is never taken from the answer |
| `FindAddress`, `ReleaseAddress`, `DeleteInstance` | 235-274, errors of the first two only logged |

The id is name, zone, project and region in one string; runs work in one
project and zone, so that the name stands for it. Where a delete looks when its
flags name other places is in `Commands`. An insert or update of the firewall
rule is an operation that GCE goes on with after the answer, and the code does
not wait for it; here the rule changes with the request (`SetRule`).

### ScalewayCloud

`volume` are the volumes there are, `volumes` those a delete has still to
remove, `made` the id inside `Provision`, `ready` the servers with user-data. A
server is created off, and `PowerOn` is what lets it boot.

| Action | Code (scaleway.go) |
|---|---|
| `CreateServer`, `SetUserData`, `PowerOn` | 56-87 |
| `GetServer`, `PowerOff`, `DeleteServer`, `DeleteVolume`, `DeleteDone` | 108-151 |
| `LookupServer` | 156-197; the guard is that every listed server has an address |

### ScriptCloud

One module for linode.go and vultr.go, because they differ only in who removes
the script: the poll that sees the host running (`StatusDropsScript`,
linode.go:116-139) or the delete, by name (`PickScript`, `DropScript`,
vultr.go:106-112). `provider` is chosen in the initial state. A script has an id
and a name (`scriptName`, the `--name` of the run that made it), a host a
`label` and the script it `boots` with; hosts and scripts inletsctl did not make
have labels and names too, which may be those of its own.

The clients of both providers send a request again when its answer is a failure
they take for a passing one: govultr up to three times after any lost connection
or 5xx (vultr.go:23, govultr.go:91-99, 160-168), linodego on 408, 503 and
GOAWAY. A request that made something may be sent again that way, so that one
run makes several scripts or several hosts and knows the last of each
(`AsksAgain` in `CreateScript` and `CreateInstance`; how often is bounded by the
ids there are). A delete that is sent again finds nothing any more and fails
(`DeleteInstance` with a lost answer).

### AzureCloud

The resource group of a name is shared by all runs of that name: `group`,
`machine`, `address` and `open` (its ports) are per name, `deployment` and
`publicIP` per run. The cloud works on a deployment after `Provision` has
returned (`DeployNetwork`, `DeployMachine`, `DeploymentFails`), and on the end
of a group after `Delete` has (`GroupGone`).

| Action | Code (azure.go) |
|---|---|
| `CreateGroup`, `CreateDeployment` | 126-150: `createGroup` takes a group that exists, neither waits |
| `Status` | 153-183: the deployment of the id, and its output |
| `BeginDelete`, `DeleteRefused` | 186-197: by group alone, so with an IP always refused |
| `Rules` | `getSecurityRuleList`, 215-229 |

### Kfwd

`main` is the main goroutine, `handler` the goroutine of kfwd.go:86-110 (and
219-243), `sig` its channel with room for one signal, `server` the child,
`tmpFile` the temporary files, one per service name, `cluster` the deployments.
A manifest is represented by the run that wrote it. `CtrlC` reaches the whole
process group: inletsctl, the server, a running `kubectl`; `Terminate` reaches
inletsctl alone. A signal before `signal.Notify` kills the process. Exit of the
process ends its goroutines, not its children: a `kubectl delete` that was
started goes on. The two modes have the same steps (the HTTP one is the one
"map" names, with fwdTCP's for the whole functions); the mode is part of the
name of the deployment, so `client` covers it, which the flags of a run name;
`Service` is the service in such a name, and the only part of it in the name of
the temporary file. `ServerFails` covers both a missing inlets-pro and a port
that is taken; the port is the reason for `PortFree`.

### Commands

One behaviour is one create and one delete of what it made. `CreateAccepts` is
the conjunction of all the early returns of `runCreate`, `DeleteAccepts` that of
`runDelete`; `FileOrFlag` is `cmd/common.go`, `FileFlagOrEnv` is `pkg/env`.
`Place` says how far an id reaches: a region for EC2, a zone for Scaleway and
GCE. Values are told apart only where the code does; a credential is the source
it was taken from. `advice` is how the user chose the flags of the delete: those
of the create, or the command the summary prints, which has --provider and --id
and nothing else (`DeleteLine`), with the credentials of the create. `account`
stands for the flag that says in whose account a provider looks:
--organisation-id of scaleway, --project-id of ovh and gce, --subscription-id of
azure; `InAccount` has those without which a request finds nothing.
The order of the checks is not kept because all of them come before any request.

### Download

`pc` is where a run is, or how it ended; `src` and `dst` are the files it has
open, `pos` its offset in the one it writes. Names (`file`) and contents
(`data`) are apart, because a file that is open outlives its name and is emptied
under its reader when it is opened with O_TRUNC. A release is `Size` blocks, all
represented by the release: what matters is whether a file is whole, cut, or a
mix. Opening with O_TRUNC (`OpenTrunc`) and writing one block (`WriteBlock`,
`Close`) are the same steps for the temporary file and the destination. What is
answered (`Bodies`) is the release, the start of it, or a page that says it is
not there, because neither the status nor the error of reading the body is
looked at (download.go:148-157). `met` remembers of each run whether another was
under way with it, so that a property can be about runs that had the temporary
file to themselves (`HadTemp`). Not modelled: data lost when a file system
reports an error only on close, the modes of the files, and the name of the
release file per architecture.

## 3. Runs

| Run | Bounds | Shows |
|---|---|---|
| `single_call` | 2 creates, 2 deletes, 3 host ids (1 foreign), 2 addresses, 2 polls | types and five safety invariants |
| `single_call_promise` | 1 create, 2 deletes, 2 host ids (1 foreign), 2 polls, fair | every run ends; `ExitServers` is implemented |
| `ec2` | 1 create, 2 deletes, 2 instances (1 foreign), 1 group, 2 polls | the URL leads to the host; no group is left silently; `ExitServers` |
| `gce` | 2 creates (TCP and HTTPS) of one name, 1 delete, 1 older exit-node, an older rule or none, 1 poll, pages of 1, fair | only an HTTPS create narrows the rule, one instance per summary, runs end |
| `scaleway` | 1 create, 2 deletes, 2 servers (1 foreign) of 2 volumes, 2 polls | no volume is left silently; servers run with user-data; `ExitServers` |
| `scripts` | both providers, 1 create with repeated requests, 2 deletes, 3 hosts and 3 scripts (1 of each foreign, of the name of the create or not), 1 poll | hosts boot with their script; no more scripts go than hosts; own host in the summary |
| `azure` | 2 creates (TCP and HTTPS) of one name, 2 deletes, 2 polls | own machine in the summary, no silent machine, deleted stays deleted |
| `azure_https` | 1 create of an HTTPS tunnel | violated: the control port is not let in |
| `kfwd` | 2 runs, 3 deployments for 2 services, fair | own client while serving, only the own service touched, Control+C ends a serving run |
| `kfwd_cancel_removes` | the same | violated: main exits before the clean-up |
| `commands` | 89 thousand command lines | agreement of create and delete, and of the printed delete command |
| `download` | 2 runs in turn or at once, 2 releases (3 blocks and 1) that may be answered in part, 4 files | "completed" means installed; no error leaves a part of an answer |

**Bounds.** `MaxPolls` is 2 instead of 500: one round that is not the last and
one that is, which is every kind of round there is; where it is 1, in `gce` and
`scripts`, the polls before the last would only read. Two creates and two
deletes with two host ids give every way two runs can meet over a host; two
addresses let an address move from a deleted host to a new one while a delete
still holds its lookup; the foreign machine is what an untagged lookup would
find. Runs at EC2 and Scaleway share nothing but the account, so that one create
and its deletes are what can meet over a group or a volume, and it takes two
deletes for one to overtake the other. At GCE and Azure creates share a name,
and two of them meet over it. At Vultr and Linode the hosts and scripts of one
create already meet, because a repeated request makes two of each; the foreign
host has its label or none, and the foreign script its name. One address poll
that is not the last (`AddrTries = 2`) and one older node beside a page of one
make GCE's loops go round. Two runs of kfwd suffice because runs meet in pairs
over a file, a deployment or the port: they name one deployment, two for one
service, or two for different services. Two downloads are a run with another's
leavings in front of it, in the temporary file and at the destination, or one
that meets another at every block; a release of three blocks can be cut in two
ways that leave something, and one of a single block is shorter than what it
replaces. Four files are two names and two that are open without one. The
theorems of section 4 lift the safety results to any number. In `MCCommands`
flags that neither command reads for a provider are left unset.

**Symmetry** is used in `single_call`, `ec2`, `scaleway` and `scripts`, over
runs, addresses, names, groups, volumes and the host ids that are not foreign,
and in `download`, over the files; all of them are only compared for equality.
The runs with symmetry check safety, and the refinement of `ExitServers` as a
safety property (its specification has no fairness, and its variables are
mapped from ids that are permuted together).

**Deadlock** is not checked: runs end, and when all have ended nothing is left
to do.

**Fairness.** `single_call_promise`: weak fairness of each run's own steps. A
run is a scheduled process whose requests are answered or fail (the HTTP
clients and the operating system give up on a dead connection); whether a host
boots, stops or is deleted is left to the environment, which gets no fairness,
nor does the user who may kill a run. `gce`: the same, except that a delete that
lists is only fair to `ListPage`, not to the failure of the request: if making
the same request for ever counted as sooner or later failing, the loop could not
be seen. `kfwd`: weak fairness of the main goroutine, of the signal goroutine
and of the `kubectl` it started; signals and the server's own end get none.
`kubectl` is taken to answer: the code gives it no deadline
(`context.TODO()`).

## 4. Proofs

The proof system checks these for every value of the constants that satisfies
the `ASSUME`s of the modules: any number of runs, hosts, addresses and polls.

| Theorem | Says | Assumes |
|---|---|---|
| `SimpleCloudProofs!TypeCorrect` | `Spec => []TypeOK` (one-request providers) | |
| `SummaryCorrect` | `Spec => []SummaryIsOwnHost` | |
| `NoOrphan` | `Spec => []NoSilentOrphan` | |
| `OneHost` | `Spec => []OneHostPerRun` | |
| `DeleteCorrect` | `Spec => []DeleteHitsItsTarget` | |
| `Implements` | `Spec => KeepsThePromise`, the refinement of `ExitServers` | |
| `ScriptTypeCorrect` | `ScriptSpec => []ScriptTypeOK` (Linode, Vultr) | |
| `BootsWithItsScriptAlways` | `ScriptSpec => []BootsWithItsScript` | |
| `ScriptPerDeletedHostAlways` | `ScriptSpec => []ScriptPerDeletedHost` | |
| `ScriptAccountAlways` | `ScriptSpec => [](SummaryIsOwnHost /\ DeleteHitsItsTarget)` | |
| `ScriptImplements` | `ScriptSpec => KeepsThePromise` | |
| `Ec2CloudProofs!TypeCorrect` | `Spec => []TypeOK` | |
| `SummaryLeadsToHostAlways` | `Spec => []SummaryLeadsToHost` | |
| `NoSilentGroupAlways` | `Spec => []NoSilentGroup` | |
| `OneKnownInstance` | `Spec => [](OneHostPerRun /\ NoSilentOrphan)` | |
| `DeletedIsGoneAlways` | `Spec => []DeletedIsGone` | |
| `LoneDeleteLeavesNothingAlways` | `Spec => []LoneDeleteLeavesNothing` | |
| `Implements` | `Spec => KeepsThePromise` | |
| `ScalewayCloudProofs!TypeCorrect` | `Spec => []TypeOK` | |
| `NoSilentVolumeAlways` | `Spec => []NoSilentVolume` | |
| `UpWithUserDataAlways` | `Spec => []UpWithUserData` | |
| `NoSilentOrphanAlways` | `Spec => []NoSilentOrphan` | |
| `OneHost` | `Spec => []OneHostPerRun` | |
| `SummaryIsOwnServerAlways` | `Spec => []SummaryIsOwnServer` | |
| `DeletedIsGoneAlways` | `Spec => []DeletedIsGone` | |
| `LoneDeleteLeavesNothingAlways` | `Spec => []LoneDeleteLeavesNothing` | |
| `Implements` | `Spec => KeepsThePromise` | |
| `GceCloudProofs!TypeCorrect` | `Spec => []TypeOK` | |
| `SummaryIsOwnInstanceAlways` | `Spec => []SummaryIsOwnInstance` | |
| `OnlyHttpsNarrowsRuleAlways` | `Spec => []OnlyHttpsNarrowsRule` | |
| `AzureCloudProofs!TypeCorrect` | `Spec => []TypeOK` | |
| `SummaryIsOwnMachineAlways` | `Spec => []SummaryIsOwnMachine` | |
| `NoSilentMachineAlways` | `Spec => []NoSilentMachine` | |
| `DeletedStaysDeletedAlways` | `Spec => []DeletedStaysDeleted` | |
| `ControlPortOpenForTcp` | `Spec => []ControlPortOpen` | TCP tunnels only |
| `LocalProofs!KfwdTypeCorrect` | `KfwdSpec => []KfwdTypeOK` | |
| `ServingHasOwnClientAlways` | `KfwdSpec => []ServingHasOwnClient` | |
| `TouchesOwnServiceOnlyAlways` | `KfwdSpec => TouchesOwnServiceOnly` | |
| `CommandsTypeCorrect` | `CommandsSpec => []CommandsTypeOK` | |
| `SameFlagsDeleteAlways` | `CommandsSpec => []SameFlagsDelete` | |
| `SameSecretKeyAlways` | `CommandsSpec => []SameSecretKey` | |
| `OneKindOfTunnelAlways` | `CommandsSpec => []OneKindOfTunnel` | |
| `SummaryDeletesAlways` | `CommandsSpec => []SummaryDeletes` | |
| `DownloadTypeCorrect` | `DownloadSpec => []DownloadTypeOK` | |
| `CompletedInstallsAlways` | `DownloadSpec => CompletedInstalls` | |
| `NoPartOfAnswerAlways` | `DownloadSpec => []NoPartOfAnswer` | |

Every invariant that a passing run checks is in this table, and every action
property. Three more are stated in the proof modules only. `DeletedIsGone` is
the part of `DeleteHitsItsTarget` that holds where a stopped host loses its
address to another. `LoneDeleteLeavesNothing` says what `NoSilentGroup` and
`NoSilentVolume` mean to a user whose delete was the only one of its host: when
it reports success, the security group or the volumes are gone too.
`SummaryIsOwnServer` is what holds of a summary at Scaleway, where a server that
stops gives its address back.

**What is assumed.** One theorem has a premise of its own: `ControlPortOpen` at
Azure is proved for TCP tunnels, and the HTTPS ones refute it. Where a property
holds of some runs only (a run of kfwd until another for its service starts, a
download that had the temporary file to itself, a host at Vultr until a namesake
is deleted), the condition is part of the property, and the runs of section 3
have the other case in their state space.

**How the proofs are built.** `CliProofs` has what holds of a run wherever its
provider is (`CliInv`: the id is known and printed once Provision has returned,
the summary is the last thing a run does, it exits once), with one lemma per
action of `Cli`. The proofs of the providers extend it: each states its
`IInv`, proves it of the initial states (`InitIInv`), has one lemma per action
(`...Step`) with one step per part of `IInv`, and puts them together in
`NextIInv` and `Invariance`; steps of a run that leave the account alone share
`RunsMoveStep`. `CloudAccountProofs` has the refinement once for all providers
that extend `CloudAccount`: `PromiseInv` (what a run announces has been up, an
absent host is nobody's victim, a delete changes its mind never) and one lemma
per kind of step (`LaunchKeeps`, `AimKeeps`, `EraseKeeps`, `BootKeeps`,
`StopKeeps`, ...), each of which says that the step keeps `PromiseInv` and is a
step or a stutter of `ExitServers`. `Implements` (and `ScriptImplements`) in the
modules of those providers is one case per action, citing these.

**SingleCallCloud.** None of its properties is inductive. `SummaryIsOwnHost`
speaks of the moment after the summary, and needs to know of the moment before:
that the answer a run is about to act upon was true of its host, although it may
be old (`AnswerWasTrue`); that stays so only because an address outlives a stop
and ends with the host (`UpIsAddressed`). `OneHostPerRun` and `NoSilentOrphan`
rest on `CreateInv` (a run whose Provision has not returned owns nothing, and
one that does not know its host ended badly) and `AbsentIsUntouched`;
`DeleteHitsItsTarget` on `AbsentIsUntouched` (a new host is nobody's victim yet)
and `DeleteNotAimedYet`.

**ScriptCloud.** `BaseInv` is what the proof of the one-request providers has
for runs that may have made more than one host: that a run owns the host it
knows (`HoldsOwn`), and what is so of the account and of deletes (`AccountInv`,
`DeleteInv`). The one-request `IInv` adds that a run owns no other
(`KnowsItsHost`). From `BaseInv` come the two properties of
`ScriptAccountAlways`. `ScriptInv` adds the scripts. `BootsWithItsScript` is a
matter of who may drop a script between its making and the boot: `CreatorInv`
ties a run to the last script it made and `HostInv` its hosts to that one, and
`GoneForReason` says that a script goes
only after the last host of its run is up, at Linode, or a host of its name is
deleted, at Vultr. `ScriptPerDeletedHost` compares two numbers, and nothing ties
a host to a script of its name. The inductive form counts whoever has a claim on
one (`Counted`): for each name, the hosts that are gone are at least as many as
the scripts that are gone and the deletes that are about to drop one together. A
`Tally` lemma for each kind of step moves one claim from one side to the other;
`DeleterInv` says that a delete has a claim only after its host is gone.

**Ec2Cloud.** A security group has a chain of keepers: the create that made it,
then the instance that uses it, then a delete that saw the instance before it
went. `NoSilentGroup` says that the chain does not break silently, and `IInv`
follows it link by link: `CreateInv` and `GroupInv` from the create to its
group, `InstanceInv` from an instance to the group, `DeleteInv` and
`KeptByDelete` from a terminated instance to a delete that has the group on its
list. `AnswerInv` is about the summary: between the two requests of a Status the
instance may be stopped, and the address is true until it is.

**ScalewayCloud.** `NoSilentVolume` is inductive with `DeleteInv`: a delete that
is past its first request has noted every volume its victim has, so that
whichever delete removes the server has them ahead of it. `ReadyInv` says that a
server that was up, or whose run is about to power it on, has its user-data.

**Runs at EC2 and Scaleway.** What these share with the one-request providers is
proved on top of `IInv` by a second invariant, `RunsInv`: which host a run made,
that the id it goes on with is that one, and that a delete which is past the
removal has a victim that is gone. Most steps only have to be shown to leave the
hosts and the aims of deletes alone (`RunsStay`); the rest is the request that
makes a host, the lookup, and the request that removes it.
At EC2 `GroupsInv` ties each group to its run, its instance and the deletes of
that instance, so that with `KeptByDelete` a group that is left has a delete of
its own instance to blame (`LoneDeleteLeavesNothing`).
`SummaryIsOwnServer` takes the last step from three invariants: `CliInv` for the
order of printing, `PromiseInv` for having been up, `ReadyInv` for the
user-data.

**GceCloud.** A name is shared by all runs that were given it, and what keeps
two of them apart is the address reserved for it: a create gets past
`ReserveAddress` only where there was none. `LockInv` says that it is a lock: at
most one run holds it, until a delete is aimed at the name, which releases the
address and may do so while the instance is there. `InstanceInv` and `ReplyInv`
follow the holder to its instance and to the answer. `RuleInv` and `KindInv` tie
the firewall rule to how far a create has got: once it has set the rule, that
lets in what its tunnel needs, or an HTTPS create has looked for a rule since
(`HttpsHasLooked`), whether or not that one ended well. The proof showed that no
address may be called "none" or "pending", which `GceAssumption` now says.

**AzureCloud.** What runs share (group, machine, address) is tied to what is
their own, the deployment: `MachineInv` says that a name's machine is the one of
the deployment that succeeded, `ReplyInv` that an answer is the state of the
run's own deployment or older than a delete, `DeleteInv` that nothing goes but
by a delete that was aimed at the group. `PortsInv` is about the deployments of
a network, each of which puts its rules over those of the one before.

**Kfwd, Commands and Download** have their theorems in one module,
`LocalProofs`; their invariants do not meet.

**Kfwd.** `FileNamed` (a temporary file holds a manifest for the service it is
named after) and `FileWritten` (a run that may still call kubectl has a file
there) are what a run may rely on. `ManifestOfService` draws from them that
kubectl works on a deployment of the run's service, on its own if it is alone,
and never on that of a run alone with another service. `ClientStays` (from the
apply to the signal the client is in the cluster) and `WaitsWithMain` (the
goroutine does not outlive main) complete the invariant.

**Commands.** The lemmas are about the tables: the default regions agree where
an id does not reach further (`DefaultsAgree`), a secret key create takes is one
delete takes (`SecretsAgree`), and so what create accepts delete accepts
(`DeleteAcceptsToo`) and looks for in the same place (`SamePlace`). The
invariant carries `CreateAccepts` from the create to the delete.
`SummaryDeletes` leaves out the providers whose delete needs a flag that the
printed line has not (scaleway, ovh, azure).
`LinesAssumption` asks that the default places be among the places.

**Download.** The types hold however runs overlap. For the rest, a run that has
met no other is the only one under way (`OthersMet`), and has the first `pos`
blocks of its body in the temporary file while it writes that and all of them
after (`TempHasBody`), and the same at the destination (`DestHasBody`).
`NamesApart`, that two names never lead to one file, and `WritesToItsFile`, that
a run writes to the file its name leads to, keep a write at the destination out
of the file it is copied from. `PartsAccounted` says that a part of an answer is
at a destination only while a run copies there, after one was killed there, or
after two met.

**What stays with the model checker.** Liveness (`EveryRunEnds` of both modules,
`CancelWhileServingEnds`), since the prover does not reason about ENABLED and
so not about fairness; and the refuted properties, for each of which TLC has a
behaviour.

## 5. Disagreements found

Two are among the runs of section 3, with their lines in PROJECT.json:

1. `kfwd_cancel_removes`: Control+C may leave the client in the cluster, because
   main does not wait for the goroutine (kfwd.go:86-139).
2. `azure_https`: an HTTPS host on Azure does not let in the port of the URL
   that is printed (azure.go:215-229, create.go:367).

These are stated as properties too, each refuted with the configuration that is
named (`tlc -config OvhLookup.cfg MCSingleCallCloud.tla`, and so on):

* `OvhLookup.cfg`: delete --ip on OVH looks among all instances of the project
  (ovh.go:79-91) and deletes one that inletsctl did not make
  (`OnlyExitNodesByIP`), though "created at an earlier time by inletsctl" is
  what delete.go:44 says of its object.
* `KfwdSharedFile.cfg`: two kfwd runs for services of one name, in two
  namespaces or modes, share a temporary file (kfwd.go:62). A run may apply the
  other's manifest and print "inlets Pro client scheduled inside your cluster."
  (kfwd.go:82) with no such client there (`ScheduledIsInCluster`).
* `SummaryRefused.cfg`: the command printed under "To delete:"
  (create.go:397-398) is refused for a host at scaleway, for want of
  --organisation-id (delete.go:108-112; `PrintedLineAccepted`). With ovh and
  azure it is accepted and finds nothing, and on ec2, scaleway and gce it misses
  a host outside the default places, having no --region or --zone: the
  conditions of `SummaryDeletes`.
* `ScriptRepeats.cfg`: the client of Vultr repeats the request for a host after
  a lost answer (vultr.go:54, govultr.go:91-99), and one run makes two hosts, of
  which it prints one (`OneHostPerRun`); likewise scripts. README.md:8 has it
  that create "provisions a cheap cloud VM".
* `GceKinds.cfg`: a create of an HTTPS tunnel at GCE, even one that fails at its
  next request, sets the rule of the whole project to its ports, and the hosts
  of TCP tunnels lose theirs (gce.go:167-229; `PortsOpen`).
* `DownloadCut.cfg`: the error of reading the answer is dropped
  (download.go:157); what came before a connection broke, or a "not found" page,
  is installed, and the run says that it completed (`CompletedIsRelease`).
* `DownloadToTemp.cfg`: `--download-to /tmp` empties and removes what was
  fetched, and says the same (download.go:182-201; `CompletedIsThere`).

And these show when a condition of a property is dropped:

* Control+C between "Hit Control+C to cancel." and the start of the server
  removes the client and leaves kfwd running (kfwd.go:86-129): why
  `CancelWhileServingEnds` is about a run that serves.
* downloads that overlap share a temporary file, and one of them may report
  success over a binary that was cut (download.go:154-159): why
  `CompletedInstalls` is about runs that met no other.
* a list of exit-nodes that does not fit on one page is asked for over and over
  again (gce.go:332-362): `EveryRunEnds` of `GceCloud` without `ManyPages`.

And these are plain from the text, or a state of the model that no document
speaks of:

* create exits with status 0 and no connection string when the polls are used up
  (create.go:414).
* the error of CreateTags is dropped, and an instance without the tag is not
  found by delete --ip (ec2.go:103); the clean-up of "an issue provisioning"
  (ec2.go:87) is not reached from a rule that fails, which leaves the group.
* a server without a public address that carries the tag ends the list, and with
  it delete --ip, in a nil pointer (scaleway.go:169).
* "This script will be deleted once VM instance is running" (linode.go:78) does
  not hold when the run is killed or has used up its polls before it sees that.
* delete --ip is always refused at Linode and Azure, whose `Delete` reads the id
  alone.
* Vultr drops the first script of the host's name, which may be the script of
  another host of that name, or one inletsctl did not make (vultr.go:106-112):
  `ScriptPerDeletedHost` is what is left, and `BootsWithItsScript` has the
  condition.
* GCE: the error of `Instances.Insert` returns before the status "conflict" is
  looked at (gce.go:144-152); a reserved address is released before the instance
  that uses it is deleted, so that it stays (gce.go:259-268); and an --ip
  without --region never finds it.
* the second example of the help text of delete names no host and is always
  refused (delete.go:47, 143), and --tcp is silently reset by
  --letsencrypt-domain (create.go:293).

## 6. Plan

1. *done* `Cli`, `CloudAccount`, `SingleCallCloud`, `ExitServers`; `Kfwd`;
   `Commands`; `Download`.
2. *done* `Ec2Cloud`, `GceCloud`, `ScalewayCloud`, `ScriptCloud`, `AzureCloud`.
3. *done* proofs of the safety of all of these, with the refinement of
   `ExitServers` for every provider of `CloudAccount`.
4. Composition of `Commands` with a provider module, so that the flags of a
   delete aim it.

## 7. Not modelled

* Texts: user-data scripts, manifests, the summary's wording. Only the kind of
  tunnel, the names in a manifest and whether a text was printed matter here.
* Of Azure's template, the settings of network, disk and image, and the decoding
  of the credentials file.
* The tokens themselves, their generation, TLS, licences.
* update, version, random names, the mock, CI and the installer: they print
  constants, are generated, or are not part of the program.
* Time: the poll interval and boot times. A poll may find any state the host can
  be in by then.
