----------------------------- MODULE CliProofs -----------------------------
(***************************************************************************)
(* What is true of the runs of create and delete whichever provider they   *)
(* work with: the part of an inductive invariant that is about cmd/ alone. *)
(* The proofs about a provider extend this module and its own one.         *)
(***************************************************************************)
EXTENDS Cli, TLAPS

ExitIsFinal == \A p \in Runs : pc[p] = "exited" <=> exit[p] # "running"

(* A run that is still going has rounds of its loop left.                  *)
PollsLeft == \A c \in Creators : pc[c] # "exited" => polls[c] < MaxPolls

(* A create has an id, and tells it, from the time Provision has returned. *)
IdSinceProvision ==
  \A c \in Creators :
    /\ pc[c] \in {"args", "provision"} => hostID[c] = NoHost /\ printed[c] = {}
    /\ pc[c] \in {"created", "status", "answered"} => hostID[c] # NoHost
    /\ printed[c] # {} => hostID[c] # NoHost
    /\ pc[c] \in {"status", "answered"} \/ exit[c] = "ok" => "id" \in printed[c]

(* The summary is the last thing a run does, and of an active host.        *)
SummaryIsLast ==
  \A c \in Creators : "summary" \in printed[c] =>
    pc[c] = "exited" /\ reply[c].status = ActiveStatus

(* A create never deletes and a delete never provisions.                   *)
OwnSteps ==
  /\ \A c \in Creators : pc[c] # "delete"
  /\ \A d \in Deleters : pc[d] \in {"args", "delete", "exited"}

CliInv ==
  /\ CliTypeOK
  /\ ExitIsFinal
  /\ PollsLeft
  /\ IdSinceProvision
  /\ SummaryIsLast
  /\ OwnSteps

LEMMA CliInvInit == CliInit => CliInv
BY CliAssumption DEF CliInit, CliInv, CliTypeOK, ExitIsFinal, PollsLeft,
   IdSinceProvision, SummaryIsLast, OwnSteps, Runs, Replies, NoReply, Statuses

LEMMA CliUnchanged ==
  ASSUME CliInv, UNCHANGED cliVars
  PROVE  CliInv'
BY DEF cliVars, CliInv, CliTypeOK, ExitIsFinal, PollsLeft, IdSinceProvision,
   SummaryIsLast, OwnSteps

----------------------------------------------------------------------------
(* Each step of a run                                                      *)

LEMMA CliExits ==
  ASSUME CliInv, NEW p \in Runs, NEW code \in {"ok", "error", "killed"},
         Exit(p, code), UNCHANGED <<hostID, polls, reply, printed>>,
         pc[p] # "exited",
         code = "ok" => p \notin Creators
  PROVE  CliInv'
BY DEF Exit, Goto, CliInv, CliTypeOK, ExitIsFinal, PollsLeft, IdSinceProvision,
   SummaryIsLast, OwnSteps, Runs

LEMMA CliRejectArgs ==
  ASSUME CliInv, NEW p \in Runs, RejectArgs(p)
  PROVE  CliInv'
BY CliExits DEF RejectArgs

LEMMA CliInterrupt ==
  ASSUME CliInv, NEW p \in Runs, Interrupt(p)
  PROVE  CliInv'
BY CliExits DEF Interrupt

LEMMA CliProvisionFails ==
  ASSUME CliInv, NEW c \in Creators, ProvisionFails(c)
  PROVE  CliInv'
BY CliExits DEF ProvisionFails, Runs

LEMMA CliStatusFails ==
  ASSUME CliInv, NEW c \in Creators, StatusFails(c)
  PROVE  CliInv'
BY CliExits DEF StatusFails, Runs

LEMMA CliDeleteFails ==
  ASSUME CliInv, NEW d \in Deleters, DeleteFails(d)
  PROVE  CliInv'
BY CliExits DEF DeleteFails, Runs

LEMMA CliDeleteReturns ==
  ASSUME CliInv, NEW d \in Deleters, DeleteReturns(d)
  PROVE  CliInv'
BY CliExits, CliAssumption DEF DeleteReturns, Runs

LEMMA CliAcceptCreate ==
  ASSUME CliInv, NEW c \in Creators, AcceptCreate(c)
  PROVE  CliInv'
BY CliAssumption DEF AcceptCreate, Goto, CliInv, CliTypeOK, ExitIsFinal,
   PollsLeft, IdSinceProvision, SummaryIsLast, OwnSteps, Runs

LEMMA CliAcceptDelete ==
  ASSUME CliInv, NEW d \in Deleters, AcceptDelete(d)
  PROVE  CliInv'
BY CliAssumption DEF AcceptDelete, Goto, CliInv, CliTypeOK, ExitIsFinal,
   PollsLeft, IdSinceProvision, SummaryIsLast, OwnSteps, Runs

LEMMA CliProvisionReturns ==
  ASSUME CliInv, NEW c \in Creators, NEW h \in HostIds, ProvisionReturns(c, h)
  PROVE  CliInv'
BY CliAssumption DEF ProvisionReturns, Goto, CliInv, CliTypeOK, ExitIsFinal,
   PollsLeft, IdSinceProvision, SummaryIsLast, OwnSteps, Runs

LEMMA CliPrintHost ==
  ASSUME CliInv, NEW c \in Creators, PrintHost(c)
  PROVE  CliInv'
BY CliAssumption DEF PrintHost, Goto, CliInv, CliTypeOK, ExitIsFinal,
   PollsLeft, IdSinceProvision, SummaryIsLast, OwnSteps, Runs

LEMMA CliStatusReturns ==
  ASSUME CliInv, NEW c \in Creators, NEW r \in Replies, StatusReturns(c, r)
  PROVE  CliInv'
BY CliAssumption DEF StatusReturns, Goto, CliInv, CliTypeOK, ExitIsFinal,
   PollsLeft, IdSinceProvision, SummaryIsLast, OwnSteps, Runs

LEMMA CliHandleStatus ==
  ASSUME CliInv, NEW c \in Creators, HandleStatus(c)
  PROVE  CliInv'
<1>1. CASE reply[c].status = ActiveStatus
  <2>1. /\ pc[c] = "answered"
        /\ pc' = [pc EXCEPT ![c] = "exited"]
        /\ exit' = [exit EXCEPT ![c] = "ok"]
        /\ printed' = [printed EXCEPT ![c] = @ \cup {"summary"}]
        /\ UNCHANGED <<hostID, polls, reply>>
    BY <1>1 DEF HandleStatus, PrintSummary, Exit, Goto
  <2>2. QED
    BY <1>1, <2>1, CliAssumption DEF CliInv, CliTypeOK, ExitIsFinal, PollsLeft,
       IdSinceProvision, SummaryIsLast, OwnSteps, Runs
<1>2. CASE reply[c].status # ActiveStatus
  <2>1. /\ pc[c] = "answered"
        /\ polls' = [polls EXCEPT ![c] = @ + 1]
        /\ UNCHANGED <<hostID, reply, printed>>
    BY <1>2 DEF HandleStatus, NextRound
  <2>2. polls[c] + 1 \in 0 .. MaxPolls
    BY <2>1, CliAssumption DEF CliInv, CliTypeOK, PollsLeft
  <2>3. CASE pc' = [pc EXCEPT ![c] = "status"] /\ exit' = exit
               /\ polls[c] + 1 < MaxPolls
    BY <2>1, <2>2, <2>3, CliAssumption DEF CliInv, CliTypeOK, ExitIsFinal,
       PollsLeft, IdSinceProvision, SummaryIsLast, OwnSteps, Runs
  <2>4. CASE pc' = [pc EXCEPT ![c] = "exited"]
               /\ exit' = [exit EXCEPT ![c] = "ok"]
    BY <2>1, <2>2, <2>4, CliAssumption DEF CliInv, CliTypeOK, ExitIsFinal,
       PollsLeft, IdSinceProvision, SummaryIsLast, OwnSteps, Runs
  <2>5. QED
    BY <1>2, <2>3, <2>4 DEF HandleStatus, NextRound, Exit, Goto
<1>3. QED
  BY <1>1, <1>2

=============================================================================
