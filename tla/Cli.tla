-------------------------------- MODULE Cli --------------------------------
(***************************************************************************)
(* The commands `inletsctl create` and `inletsctl delete` as processes.    *)
(*                                                                         *)
(* Every process is one run of the binary: it checks its flags, calls the  *)
(* methods of a provision.Provisioner one after the other, prints, and     *)
(* exits.  This module holds the part of a run that lives in cmd/; what    *)
(* happens inside Provision, Status and Delete, and to the cloud account,  *)
(* is left to the provider modules that extend it.  They conjoin their own *)
(* steps with the ...Returns and ...Fails actions below, which say what    *)
(* the command does with a method's result.                                *)
(*                                                                         *)
(* A run may be killed between any two steps: neither command installs a   *)
(* signal handler.                                                         *)
(***************************************************************************)
EXTENDS Naturals

CONSTANTS
  Creators,   \* the runs of `inletsctl create`
  Deleters,   \* the runs of `inletsctl delete`
  HostIds,    \* the ids a provider can give to a host
  NoHost,     \* the empty ID
  Addresses,  \* the public IPv4 addresses of a provider
  NoAddr,     \* the empty IP
  MaxPolls    \* `max`, the number of times create asks for the status

ASSUME CliAssumption ==
  /\ Creators \cap Deleters = {}
  /\ NoHost \notin HostIds
  /\ NoAddr \notin Addresses
  /\ MaxPolls \in Nat \ {0}

VARIABLES
  pc,       \* where each run is in its RunE function
  hostID,   \* hostRes.ID of each create, NoHost before Provision returned it
  polls,    \* the loop counter i of each create
  reply,    \* the last answer of Status to each create
  printed,  \* what each create has told its user so far
  exit      \* how each run ended

cliVars == <<pc, hostID, polls, reply, printed, exit>>

Runs == Creators \cup Deleters

(* The words a provider has for a host that is not up are told apart only  *)
(* by whether it still comes up by itself ("creating") or not ("off").     *)
ActiveStatus == "active"
Statuses == {"creating", ActiveStatus, "off"}
Replies == [status : Statuses, ip : Addresses \cup {NoAddr}]
NoReply == [status |-> "creating", ip |-> NoAddr]

CliTypeOK ==
  /\ pc \in [Runs -> {"args", "provision", "created", "status", "answered",
                      "delete", "exited"}]
  /\ hostID \in [Creators -> HostIds \cup {NoHost}]
  /\ polls \in [Creators -> 0 .. MaxPolls]
  /\ reply \in [Creators -> Replies]
  /\ printed \in [Creators -> SUBSET {"id", "summary"}]
  /\ exit \in [Runs -> {"running", "ok", "error", "killed"}]

CliInit ==
  /\ pc = [p \in Runs |-> "args"]
  /\ hostID = [c \in Creators |-> NoHost]
  /\ polls = [c \in Creators |-> 0]
  /\ reply = [c \in Creators |-> NoReply]
  /\ printed = [c \in Creators |-> {}]
  /\ exit = [p \in Runs |-> "running"]

Goto(p, label) == pc' = [pc EXCEPT ![p] = label]

(* RunE returns: main turns nil into exit status 0 and an error into 1.    *)
Exit(p, code) ==
  /\ Goto(p, "exited")
  /\ exit' = [exit EXCEPT ![p] = code]

----------------------------------------------------------------------------
(* Both commands                                                           *)

(* A flag, a token or a file is missing: RunE returns before any request.  *)
RejectArgs(p) ==
  /\ pc[p] = "args"
  /\ Exit(p, "error")
  /\ UNCHANGED <<hostID, polls, reply, printed>>

(* SIGINT, SIGTERM or a crash of the machine the command runs on.          *)
Interrupt(p) ==
  /\ pc[p] # "exited"
  /\ Exit(p, "killed")
  /\ UNCHANGED <<hostID, polls, reply, printed>>

----------------------------------------------------------------------------
(* create                                                                  *)

AcceptCreate(c) ==
  /\ pc[c] = "args"
  /\ Goto(c, "provision")
  /\ UNCHANGED <<hostID, polls, reply, printed, exit>>

ProvisionReturns(c, h) ==
  /\ pc[c] = "provision"
  /\ hostID' = [hostID EXCEPT ![c] = h]
  /\ Goto(c, "created")
  /\ UNCHANGED <<polls, reply, printed, exit>>

(* Mutant: the error of Provision is dropped.                              *)
ProvisionErrorDropped(c) ==
  /\ pc[c] = "provision"
  /\ Exit(c, "ok")
  /\ UNCHANGED <<hostID, polls, reply, printed>>

(* Mutant: a failed Provision is tried again.                              *)
ProvisionRetried(c) ==
  /\ pc[c] = "provision"
  /\ UNCHANGED cliVars

ProvisionFails(c) ==
  /\ pc[c] = "provision"
  /\ Exit(c, "error")
  /\ UNCHANGED <<hostID, polls, reply, printed>>

(* "Host: %s, status: %s", the first time the user learns the id; then the *)
(* first round of the loop, which sleeps and calls Status.                 *)
PrintHost(c) ==
  /\ pc[c] = "created"
  /\ printed' = [printed EXCEPT ![c] = @ \cup {"id"}]
  /\ Goto(c, "status")
  /\ UNCHANGED <<hostID, polls, reply, exit>>

StatusReturns(c, r) ==
  /\ pc[c] = "status"
  /\ reply' = [reply EXCEPT ![c] = r]
  /\ Goto(c, "answered")
  /\ UNCHANGED <<hostID, polls, printed, exit>>

(* One failed Status ends the run: there is no retry.                      *)
StatusFails(c) ==
  /\ pc[c] = "status"
  /\ Exit(c, "error")
  /\ UNCHANGED <<hostID, polls, reply, printed>>

(* One more round of the loop, or the end of it after `rounds` rounds.     *)
NextRound(c, rounds) ==
  /\ polls' = [polls EXCEPT ![c] = @ + 1]
  /\ \/ /\ polls[c] + 1 < rounds
        /\ Goto(c, "status")
        /\ UNCHANGED exit
     \/ /\ polls[c] + 1 >= rounds
        /\ Exit(c, "ok")

PrintSummary(c) ==
  /\ printed' = [printed EXCEPT ![c] = @ \cup {"summary"}]
  /\ Exit(c, "ok")

(* Mutant: the loop is left one round late.                                *)
HandleStatusOneRoundMore(c) ==
  /\ pc[c] = "answered"
  /\ \/ /\ reply[c].status = ActiveStatus
        /\ PrintSummary(c)
        /\ UNCHANGED polls
     \/ /\ reply[c].status # ActiveStatus
        /\ NextRound(c, MaxPolls + 1)
        /\ UNCHANGED printed
  /\ UNCHANGED <<hostID, reply>>

(* Mutant: the status of the host is not looked at.                        *)
HandleStatusUnchecked(c) ==
  /\ pc[c] = "answered"
  /\ PrintSummary(c)
  /\ UNCHANGED <<hostID, reply, polls>>

(* Mutant: the loop has no bound.                                          *)
HandleStatusForever(c) ==
  /\ pc[c] = "answered"
  /\ \/ /\ reply[c].status = ActiveStatus
        /\ PrintSummary(c)
     \/ /\ reply[c].status # ActiveStatus
        /\ Goto(c, "status")
        /\ UNCHANGED <<printed, exit>>
  /\ UNCHANGED <<hostID, reply, polls>>

(* The rest of a round.  An active host ends the run with the connection   *)
(* summary.  Otherwise the loop goes on, and when it is used up RunE       *)
(* returns err, which is nil: the run ends with status 0, no summary.      *)
HandleStatus(c) ==
  /\ pc[c] = "answered"
  /\ \/ /\ reply[c].status = ActiveStatus
        /\ PrintSummary(c)
        /\ UNCHANGED polls
     \/ /\ reply[c].status # ActiveStatus
        /\ NextRound(c, MaxPolls)
        /\ UNCHANGED printed
  /\ UNCHANGED <<hostID, reply>>

----------------------------------------------------------------------------
(* delete                                                                  *)

AcceptDelete(d) ==
  /\ pc[d] = "args"
  /\ Goto(d, "delete")
  /\ UNCHANGED <<hostID, polls, reply, printed, exit>>

DeleteReturns(d) ==
  /\ pc[d] = "delete"
  /\ Exit(d, "ok")
  /\ UNCHANGED <<hostID, polls, reply, printed>>

DeleteFails(d) ==
  /\ pc[d] = "delete"
  /\ Exit(d, "error")
  /\ UNCHANGED <<hostID, polls, reply, printed>>

=============================================================================
