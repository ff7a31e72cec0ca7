----------------------------- MODULE LocalProofs -----------------------------
(***************************************************************************)
(* Proofs about the parts of inletsctl that work on the machine it runs    *)
(* on: the flags of create and delete (Commands), the runs of kfwd (Kfwd)  *)
(* and of download (Download).  Each part has an inductive invariant of    *)
(* its own; no step of one changes a variable of another.                  *)
(***************************************************************************)
EXTENDS Kfwd, Commands, Download, TLAPS

----------------------------------------------------------------------------
(***************************************************************************)
(* Kfwd, for every number of runs and services.                            *)
(*                                                                         *)
(* The name of the temporary file holds the service and nothing else, so   *)
(* that runs for one service name share it.  What a run may rely on is     *)
(* therefore that the file names its service (FileNamed), and as long as   *)
(* no other run for that name has started, that the file is its own.       *)
(***************************************************************************)

USE DEF Upstream

(* The inductive invariant                                                 *)

FileNamed ==
  \A u \in Upstreams : tmpFile[u] # Nobody =>
    Upstream(tmpFile[u]) = u /\ main[tmpFile[u]] # "args"

(* A run that may still call kubectl finds a manifest in its file.         *)
FileWritten ==
  \A k \in Kfwds :
    \/ main[k] \in {"written", "applied", "listening", "serving"}
    \/ handler[k] # "none"
    => tmpFile[TmpPath(k)] # Nobody

(* The goroutine waits only while the main goroutine goes on.              *)
WaitsWithMain ==
  \A k \in Kfwds :
    handler[k] \in {"starting", "waiting"} =>
      main[k] \in {"listening", "serving"}

(* From the apply to the signal the client is in the cluster.              *)
ClientStays ==
  \A k \in Kfwds :
    /\ Alone(k)
    /\ main[k] \in {"applied", "listening", "serving"}
    /\ handler[k] \in {"none", "starting", "waiting"}
    /\ ~sig[k]
    => cluster[client[k]] = k

KfwdInv ==
  KfwdTypeOK /\ FileNamed /\ FileWritten /\ WaitsWithMain /\ ClientStays

(* Lemmas                                                                  *)

(* What kubectl finds in the file of a run is a manifest for its service,  *)
(* by the run itself while it is alone, and never for the deployment of    *)
(* another run that is alone.                                              *)
LEMMA ManifestOfService ==
  ASSUME KfwdInv, NEW k \in Kfwds,
         main[k] = "written" \/ handler[k] = "deleting"
  PROVE  /\ Manifest(k) \in Kfwds
         /\ Upstream(Manifest(k)) = Upstream(k)
         /\ Alone(k) => Manifest(k) = k
         /\ \A j \in Kfwds \ {k} : Alone(j) => client[j] # client[Manifest(k)]
<1>1. TmpPath(k) \in Upstreams /\ main[k] # "args"
  BY KfwdAssumption DEF KfwdInv, KfwdTypeOK, TmpPath
<1>2. /\ Manifest(k) \in Kfwds
      /\ Upstream(Manifest(k)) = Upstream(k)
      /\ main[Manifest(k)] # "args"
  BY <1>1 DEF KfwdInv, KfwdTypeOK, FileNamed, FileWritten, Manifest, TmpPath
<1>3. Alone(k) => Manifest(k) = k
  BY <1>2 DEF Alone
<1>4. ASSUME NEW j \in Kfwds \ {k}, Alone(j)
      PROVE  client[j] # client[Manifest(k)]
  BY <1>1, <1>2, <1>4, KfwdAssumption DEF Alone
<1>5. QED
  BY <1>2, <1>3, <1>4

LEMMA KfwdInvInit == KfwdInit => KfwdInv
BY KfwdAssumption
   DEF KfwdInit, KfwdInv, KfwdTypeOK, FileNamed, FileWritten, WaitsWithMain,
       ClientStays, TmpPath

(* kubectl apply makes the client of a run for the service, which is the   *)
(* run's own client where it is alone.                                     *)
LEMMA KubectlApplyStep ==
  ASSUME KfwdInv, NEW k \in Kfwds, KubectlApply(k)
  PROVE  KfwdInv'
<1>1. /\ cluster' = [cluster EXCEPT ![client[Manifest(k)]] = Manifest(k)]
      /\ UNCHANGED client
      /\ Manifest(k) \in Kfwds
      /\ client[Manifest(k)] \in Clients
      /\ Alone(k) => Manifest(k) = k
      /\ \A j \in Kfwds \ {k} : Alone(j) => client[j] # client[Manifest(k)]
  BY ManifestOfService DEF KubectlApply, KfwdInv, KfwdTypeOK
<1>2. KfwdTypeOK'
  <2>1. cluster' \in [Clients -> Kfwds \cup {Nobody}]
    BY <1>1 DEF KfwdInv, KfwdTypeOK
  <2>2. CASE KfwdGoto(k, "applied") /\ UNCHANGED handler
    BY <2>1, <2>2 DEF KfwdInv, KfwdTypeOK, KubectlApply, KfwdGoto
  <2>3. CASE KfwdExit(k)
    BY <2>1, <2>3 DEF KfwdInv, KfwdTypeOK, KubectlApply, KfwdGoto, KfwdExit
  <2>4. QED
    BY <2>2, <2>3 DEF KubectlApply
<1>3. FileNamed' /\ FileWritten' /\ WaitsWithMain'
  BY DEF KfwdInv, KfwdTypeOK, FileNamed, FileWritten, WaitsWithMain, TmpPath,
     KubectlApply, KfwdGoto, KfwdExit
<1>4. ClientStays'
  <2>1. Alone(k) => cluster'[client[k]] = k
    BY <1>1 DEF KfwdInv, KfwdTypeOK
  <2>2. \A j \in Kfwds \ {k} : Alone(j) =>
          cluster'[client[j]] = cluster[client[j]]
    BY <1>1 DEF KfwdInv, KfwdTypeOK
  <2>3. /\ \A j \in Kfwds \ {k} :
             main'[j] = main[j] /\ handler'[j] = handler[j]
        /\ main[k] # "args" /\ main'[k] # "args"
        /\ UNCHANGED <<client, sig>>
    BY DEF KfwdInv, KfwdTypeOK, KubectlApply, KfwdGoto, KfwdExit
  <2>4. \A j \in Kfwds : Alone(j)' => Alone(j)
    BY <2>3 DEF Alone
  <2>5. QED
    BY <2>1, <2>2, <2>3, <2>4 DEF KfwdInv, ClientStays
<1>5. QED
  BY <1>2, <1>3, <1>4 DEF KfwdInv

(* kubectl delete removes the client of a run for the service.             *)
LEMMA KubectlDeleteStep ==
  ASSUME KfwdInv, NEW k \in Kfwds, KubectlDelete(k)
  PROVE  KfwdInv'
<1>1. /\ cluster' \in {cluster,
                       [cluster EXCEPT ![client[Manifest(k)]] = Nobody]}
      /\ \A j \in Kfwds \ {k} : Alone(j) => client[j] # client[Manifest(k)]
  BY ManifestOfService DEF KubectlDelete
<1>2. KfwdTypeOK'
  BY <1>1 DEF KfwdInv, KfwdTypeOK, KubectlDelete
<1>3. FileNamed' /\ FileWritten' /\ WaitsWithMain'
  BY DEF KfwdInv, KfwdTypeOK, FileNamed, FileWritten, WaitsWithMain, TmpPath,
     KubectlDelete
<1>4. ClientStays'
  <2>1. handler'[k] = "done"
    BY DEF KfwdInv, KfwdTypeOK, KubectlDelete
  <2>2. \A j \in Kfwds \ {k} : Alone(j) =>
          cluster'[client[j]] = cluster[client[j]]
    BY <1>1 DEF KfwdInv, KfwdTypeOK
  <2>3. /\ \A j \in Kfwds \ {k} : handler'[j] = handler[j]
        /\ UNCHANGED <<client, main, sig>>
    BY DEF KfwdInv, KfwdTypeOK, KubectlDelete
  <2>4. QED
    BY <2>1, <2>2, <2>3 DEF KfwdInv, ClientStays, Alone
<1>5. QED
  BY <1>2, <1>3, <1>4 DEF KfwdInv

(* A signal that ends the process, or is put in the channel.               *)
LEMMA SignalStep ==
  ASSUME KfwdInv, NEW k \in Kfwds, CtrlC(k) \/ Terminate(k)
  PROVE  KfwdInv'
<1>. USE DEF CtrlC, CtrlCToInletsctl, Terminate, Deliver
<1>1. UNCHANGED <<client, tmpFile, cluster>>
  OBVIOUS
<1>2. CASE ~Notified(k)
  <2>1. /\ KfwdExit(k)
        /\ UNCHANGED sig
    BY <1>2
  <2>2. main' \in [Kfwds -> {"args", "written", "applied", "listening",
                             "serving", "exited"}]
        /\ handler' \in [Kfwds -> {"none", "starting", "waiting", "deleting",
                                   "done"}]
    BY <2>1 DEF KfwdInv, KfwdTypeOK, KfwdExit, KfwdGoto
  <2>3. server' \in [Kfwds -> {"none", "up", "dead"}]
        /\ pressed' \in [Kfwds -> {"no", "listening", "serving"}]
    BY DEF KfwdInv, KfwdTypeOK
  <2>4. KfwdTypeOK'
    BY <1>1, <2>1, <2>2, <2>3 DEF KfwdInv, KfwdTypeOK, KfwdExit, KfwdGoto
  <2>5. FileNamed' /\ FileWritten' /\ WaitsWithMain' /\ ClientStays'
    BY <1>1, <2>1
       DEF KfwdInv, KfwdTypeOK, FileNamed, FileWritten, WaitsWithMain,
           ClientStays, Alone, TmpPath, KfwdExit, KfwdGoto
  <2>6. QED
    BY <2>4, <2>5 DEF KfwdInv
<1>3. CASE Notified(k)
  <2>1. /\ UNCHANGED main
        /\ sig' = [sig EXCEPT ![k] = TRUE]
        /\ handler' \in {handler, [handler EXCEPT ![k] = "done"]}
        /\ handler'[k] = handler[k] \/ handler[k] = "deleting"
    BY <1>3 DEF KfwdInv, KfwdTypeOK, Notified
  <2>2. server' \in [Kfwds -> {"none", "up", "dead"}]
        /\ pressed' \in [Kfwds -> {"no", "listening", "serving"}]
    BY DEF KfwdInv, KfwdTypeOK
  <2>3. KfwdTypeOK'
    BY <1>1, <1>3, <2>1, <2>2 DEF KfwdInv, KfwdTypeOK, Notified
  <2>4. FileNamed' /\ FileWritten' /\ WaitsWithMain'
    BY <1>1, <2>1
       DEF KfwdInv, KfwdTypeOK, FileNamed, FileWritten, WaitsWithMain, TmpPath
  <2>5. ClientStays'
    <3>1. \A j \in Kfwds : Alone(j)' => Alone(j)
      BY <2>1 DEF Alone
    <3>2. QED
      BY <1>1, <2>1, <3>1 DEF KfwdInv, KfwdTypeOK, ClientStays
  <2>6. QED
    BY <2>3, <2>4, <2>5 DEF KfwdInv
<1>4. QED
  BY <1>2, <1>3

(* The other steps.                                                        *)
LEMMA KfwdInvNext ==
  ASSUME KfwdInv, [KfwdNext]_kfwdVars
  PROVE  KfwdInv'
<1>. USE DEF KfwdInv
<1>1. ASSUME NEW k \in Kfwds, KfwdFail(k)
      PROVE  KfwdInv'
  <2>1. /\ KfwdExit(k) /\ handler[k] = "none"
        /\ UNCHANGED <<client, sig, server, tmpFile, cluster, pressed>>
    BY <1>1 DEF KfwdTypeOK, KfwdFail
  <2>2. KfwdTypeOK' /\ UNCHANGED handler /\ main'[k] = "exited"
    BY <2>1 DEF KfwdTypeOK, KfwdExit, KfwdGoto
  <2>3. FileNamed' /\ FileWritten' /\ WaitsWithMain'
    BY <2>1, <2>2
       DEF KfwdTypeOK, FileNamed, FileWritten, WaitsWithMain, TmpPath,
           KfwdExit, KfwdGoto
  <2>4. \A j \in Kfwds \ {k} : main'[j] = main[j]
    BY <2>1 DEF KfwdTypeOK, KfwdExit, KfwdGoto
  <2>5. \A j \in Kfwds : Alone(j)' => j = k \/ Alone(j)
    BY <2>1, <2>2, <2>4 DEF Alone
  <2>6. ClientStays'
    BY <2>1, <2>2, <2>4, <2>5 DEF KfwdTypeOK, ClientStays
  <2>7. QED
    BY <2>2, <2>3, <2>6
<1>2. ASSUME NEW k \in Kfwds, WriteFile(k)
      PROVE  KfwdInv'
  <2>1. /\ main' = [main EXCEPT ![k] = "written"] /\ main[k] = "args"
        /\ tmpFile' = [tmpFile EXCEPT ![Upstream(k)] = k]
        /\ UNCHANGED <<client, handler, sig, server, cluster, pressed>>
        /\ Upstream(k) \in Upstreams
    BY <1>2, KfwdAssumption DEF WriteFile, KfwdGoto, TmpPath, KfwdTypeOK
  <2>2. KfwdTypeOK'
    BY <2>1 DEF KfwdTypeOK
  <2>3. /\ main'[k] = "written"
        /\ \A j \in Kfwds \ {k} : main'[j] = main[j]
        /\ tmpFile'[Upstream(k)] = k
        /\ \A u \in Upstreams \ {Upstream(k)} : tmpFile'[u] = tmpFile[u]
    BY <2>1 DEF KfwdTypeOK
  <2>4. FileNamed'
    BY <2>1, <2>3 DEF KfwdTypeOK, FileNamed
  <2>5. FileWritten'
    BY <2>1, <2>3, KfwdAssumption DEF KfwdTypeOK, FileWritten, TmpPath
  <2>6. WaitsWithMain'
    BY <2>1, <2>3 DEF WaitsWithMain
  <2>7. \A j \in Kfwds : Alone(j)' => j = k \/ Alone(j)
    BY <2>1, <2>3 DEF Alone
  <2>8. ClientStays'
    BY <2>1, <2>3, <2>7 DEF ClientStays
  <2>9. QED
    BY <2>2, <2>4, <2>5, <2>6, <2>8
<1>3. ASSUME NEW k \in Kfwds, Listen(k)
      PROVE  KfwdInv'
  BY <1>3
     DEF KfwdTypeOK, FileNamed, FileWritten, WaitsWithMain, ClientStays, Alone,
         TmpPath, Listen, KfwdGoto
<1>4. ASSUME NEW k \in Kfwds, StartServer(k)
      PROVE  KfwdInv'
  BY <1>4
     DEF KfwdTypeOK, FileNamed, FileWritten, WaitsWithMain, ClientStays, Alone,
         TmpPath, StartServer, KfwdGoto
<1>5. ASSUME NEW k \in Kfwds, ServerFails(k) \/ ServerReturns(k)
      PROVE  KfwdInv'
  BY <1>5
     DEF KfwdTypeOK, FileNamed, FileWritten, WaitsWithMain, ClientStays, Alone,
         TmpPath, ServerFails, ServerReturns, KfwdExit, KfwdGoto
<1>6. ASSUME NEW k \in Kfwds, Notify(k)
      PROVE  KfwdInv'
  BY <1>6
     DEF KfwdTypeOK, FileNamed, FileWritten, WaitsWithMain, ClientStays, Alone,
         TmpPath, Notify
<1>7. ASSUME NEW k \in Kfwds, Wake(k)
      PROVE  KfwdInv'
  BY <1>7
     DEF KfwdTypeOK, FileNamed, FileWritten, WaitsWithMain, ClientStays, Alone,
         TmpPath, Wake
<1>8. ASSUME NEW k \in Kfwds, ServerDies(k)
      PROVE  KfwdInv'
  BY <1>8
     DEF KfwdTypeOK, FileNamed, FileWritten, WaitsWithMain, ClientStays, Alone,
         TmpPath, ServerDies
<1>9. CASE UNCHANGED kfwdVars
  BY <1>9
     DEF kfwdVars, KfwdTypeOK, FileNamed, FileWritten, WaitsWithMain,
         ClientStays, Alone, TmpPath
<1>10. QED
  BY <1>1, <1>2, <1>3, <1>4, <1>5, <1>6, <1>7, <1>8, <1>9,
     KubectlApplyStep, KubectlDeleteStep, SignalStep
     DEF KfwdNext, MainStep, HandlerStep

(* Theorems                                                                *)

(* The model's variables keep their types, and goroutine and server exist  *)
(* only once the client is scheduled, for any number of runs.              *)
THEOREM KfwdTypeCorrect == KfwdSpec => []KfwdTypeOK
<1>1. KfwdInv => KfwdTypeOK
  BY DEF KfwdInv
<1>2. QED
  BY KfwdInvInit, KfwdInvNext, <1>1, PTL DEF KfwdSpec

(* Whatever other runs do, a run that serves and was not asked to stop has *)
(* its own client in the cluster until another run for a service of that   *)
(* name starts (kfwd.go:62-82, 95-99).                                     *)
THEOREM ServingHasOwnClientAlways == KfwdSpec => []ServingHasOwnClient
<1>1. KfwdInv => ServingHasOwnClient
  BY DEF KfwdInv, ClientStays, ServingHasOwnClient
<1>2. QED
  BY KfwdInvInit, KfwdInvNext, <1>1, PTL DEF KfwdSpec

(* No run ever changes a deployment for another service than its own       *)
(* (kfwd.go:62, 72, 97).                                                   *)
THEOREM TouchesOwnServiceOnlyAlways == KfwdSpec => TouchesOwnServiceOnly
<1>. DEFINE Touches ==
       \A t \in Clients : cluster'[t] # cluster[t] =>
         \E j, k \in Kfwds :
           /\ client[j] = t /\ Upstream(j) = Upstream(k)
           /\ main'[k] # main[k] \/ handler'[k] # handler[k]
<1>1. ASSUME KfwdInv, NEW k \in Kfwds, KubectlApply(k) \/ KubectlDelete(k)
      PROVE  Touches
  <2>1. /\ Manifest(k) \in Kfwds
        /\ Upstream(Manifest(k)) = Upstream(k)
    BY <1>1, ManifestOfService DEF KubectlApply, KubectlDelete
  <2>2. main'[k] # main[k] \/ handler'[k] # handler[k]
    BY <1>1
       DEF KfwdInv, KfwdTypeOK, KubectlApply, KubectlDelete, KfwdExit, KfwdGoto
  <2>3. \A t \in Clients : cluster'[t] # cluster[t] => t = client[Manifest(k)]
    BY <1>1 DEF KfwdInv, KfwdTypeOK, KubectlApply, KubectlDelete
  <2>4. QED
    BY <2>1, <2>2, <2>3
<1>2. ASSUME KfwdInv, [KfwdNext]_kfwdVars
      PROVE  Touches
  <2>1. CASE UNCHANGED cluster
    BY <2>1
  <2>2. CASE \E k \in Kfwds : KubectlApply(k) \/ KubectlDelete(k)
    BY <1>1, <1>2, <2>2
  <2>3. QED
    BY <1>2, <2>1, <2>2
       DEF KfwdNext, kfwdVars, MainStep, HandlerStep, KfwdFail, WriteFile,
           Listen, StartServer, ServerFails, ServerReturns, Notify, Wake,
           CtrlC, CtrlCToInletsctl, Terminate, ServerDies
<1>3. KfwdInv /\ [KfwdNext]_kfwdVars => [Touches]_kfwdVars
  BY <1>2
<1>4. QED
  BY KfwdInvInit, KfwdInvNext, <1>3, PTL DEF KfwdSpec, TouchesOwnServiceOnly

----------------------------------------------------------------------------
(***************************************************************************)
(* Commands, for every set of command lines.                               *)
(*                                                                         *)
(* The first three lemmas are about the two tables of defaults and the two *)
(* ways to read a credential; the invariant only carries them from the     *)
(* create to the delete that follows.                                      *)
(***************************************************************************)


(* What is true between create and delete: a host that is there was asked  *)
(* for with the flags of a create that was accepted.                       *)
HostWasAskedFor ==
  host # NoHost =>
    /\ host = CreateHost(line)
    /\ CreateAccepts(line)
    /\ Provisions(line)

CreatedHasHost == outcome = "created" => host # NoHost

CommandsInv ==
  /\ CommandsTypeOK
  /\ HostWasAskedFor
  /\ CreatedHasHost
  /\ advice # "none" => outcome \notin {"none", "created"}
  /\ SameFlagsDelete
  /\ SummaryDeletes

(* Lemmas about flags                                                      *)

(* The default regions of delete are those of create for the providers     *)
(* that look nowhere else.                                                 *)
LEMMA DefaultsAgree ==
  ASSUME NEW f \in Lines, f.provider \in {"ec2", "scaleway"}
  PROVE  RegionOfDelete(f) = RegionOfCreate(f)
BY DEF RegionOfDelete, RegionOfCreate, DeleteRegion, CreateRegion

(* A secret key that create takes is one that delete takes, from the same  *)
(* source.                                                                 *)
LEMMA SecretsAgree ==
  ASSUME NEW f \in Lines, Given(CreateSecret(f))
  PROVE  DeleteSecret(f) = CreateSecret(f)
BY DEF Given, DeleteSecret, CreateSecret, FileFlagOrEnv

(* Delete accepts what create has accepted.                                *)
LEMMA DeleteAcceptsToo ==
  ASSUME NEW f \in Lines, NEW how, NamesHost(how), CreateAccepts(f)
  PROVE  DeleteAccepts(f, how)
<1>1. HasProvisioner(f.provider, RegionOfDelete(f))
  BY DefaultsAgree DEF CreateAccepts, HasProvisioner
<1>2. f.provider \in TakesSecretKey => Given(DeleteSecret(f))
  BY SecretsAgree DEF CreateAccepts
<1>3. QED
  BY <1>1, <1>2 DEF CreateAccepts, DeleteAccepts

(* With the flags of the create, delete looks where create has looked.     *)
LEMMA SamePlace ==
  ASSUME NEW f \in Lines
  PROVE  LooksIn(f) = CreateHost(f).place
<1>1. CreateHost(f).place = Place(f.provider, RegionOfCreate(f), ZoneOf(f))
  BY DEF CreateHost
<1>2. CASE f.provider \in {"ec2", "scaleway"}
  BY <1>1, <1>2, DefaultsAgree DEF LooksIn
<1>3. CASE f.provider \notin {"ec2", "scaleway"}
  BY <1>1, <1>3 DEF LooksIn, Place
<1>4. QED
  BY <1>2, <1>3

(* The line of the summary is the line of the create with the default      *)
(* place and without the account; nothing else in it changes.              *)
LEMMA SummaryLine ==
  ASSUME NEW f \in Lines, NEW g, g = DeleteLine(f, "summary")
  PROVE  /\ g \in Lines
         /\ g.region = Unset /\ g.zone = Unset
         /\ g.provider = f.provider /\ g.access = f.access
         /\ g.secret = f.secret /\ g.session = f.session
BY DEF DeleteLine, Lines

(* A create in the default place is deleted by the line it prints, if its  *)
(* provider needs no more to find the host.                                *)
LEMMA SummaryAccepted ==
  ASSUME NEW f \in Lines, CreateAccepts(f), f.zone = Unset,
         f.provider \notin {"scaleway", "ovh", "azure"},
         f.region = Unset \/ f.provider = "gce"
  PROVE  /\ DeleteAccepts(DeleteLine(f, "summary"), "summary")
         /\ InAccount(DeleteLine(f, "summary"))
         /\ LooksIn(DeleteLine(f, "summary")) = CreateHost(f).place
<1> DEFINE g == DeleteLine(f, "summary")
<1>1. /\ g \in Lines
      /\ g.region = Unset /\ g.zone = Unset
      /\ g.provider = f.provider /\ g.access = f.access
      /\ g.secret = f.secret /\ g.session = f.session
  BY SummaryLine
<1> HIDE DEF g
<1>2. f.provider # "gce" => RegionOfDelete(g) = RegionOfDelete(f)
  BY <1>1 DEF RegionOfDelete
<1>3. HasProvisioner(g.provider, RegionOfDelete(g))
  BY <1>1, <1>2, DeleteAcceptsToo DEF NamesHost, DeleteAccepts, HasProvisioner
<1>4. FileFlagOrEnv(g.access) = FileFlagOrEnv(f.access)
  BY <1>1
<1>5. f.provider \in TakesSecretKey => Given(DeleteSecret(g))
  BY <1>1, SecretsAgree DEF CreateAccepts, DeleteSecret
<1>6. DeleteAccepts(g, "summary")
  BY <1>1, <1>3, <1>4, <1>5 DEF CreateAccepts, DeleteAccepts, NamesHost
<1>7. ZoneOf(g) = ZoneOf(f)
  BY <1>1 DEF ZoneOf
<1>8. LooksIn(g) = LooksIn(f) /\ InAccount(g)
  BY <1>1, <1>2, <1>7 DEF LooksIn, Place, InAccount
<1>9. QED
  BY <1>6, <1>8, SamePlace DEF g

(* Steps                                                                   *)

LEMMA HostType ==
  ASSUME NEW f \in Lines, CreateAccepts(f), Provisions(f)
  PROVE  /\ CreateHost(f) \in [place : Places \cup {"anywhere", "nowhere"},
                               userData : {"https", "tcp", "none"},
                               pro : BOOLEAN, webPorts : BOOLEAN]
         /\ CreateHost(f) # NoHost
<1> DEFINE r == RegionOfCreate(f)
<1>1. f.provider \in {"ec2", "scaleway"} => r \in Places \cup {Empty}
  BY LinesAssumption DEF RegionOfCreate, CreateRegion, Lines
<1>2. Place(f.provider, r, ZoneOf(f)) \in Places \cup {"anywhere"}
  <2>1. CASE f.provider = "ec2"
    BY <2>1, <1>1 DEF Place, Provisions
  <2>2. CASE f.provider = "scaleway"
    BY <2>2, <1>1, LinesAssumption DEF Place
  <2>3. CASE f.provider = "gce"
    BY <2>3, LinesAssumption DEF Place, ZoneOf, Lines
  <2>4. CASE f.provider \notin {"ec2", "scaleway", "gce"}
    BY <2>4 DEF Place
  <2>5. QED
    BY <2>1, <2>2, <2>3, <2>4
<1>3. CreateHost(f).userData \in {"https", "tcp"}
  BY DEF CreateHost
<1>4. QED
  BY <1>2, <1>3 DEF CreateHost, NoHost, Tcp

LEMMA CreateHostStep ==
  ASSUME CommandsInv, Create
  PROVE  CommandsInv'
<1>1. line \in Lines
  BY LinesAssumption DEF CommandsInv, CommandsTypeOK
<1>2. CASE CreateAccepts(line) /\ Provisions(line)
  <2>1. /\ host' = CreateHost(line) /\ outcome' = "created"
        /\ UNCHANGED <<line, advice>>
        /\ advice = "none"
    BY <1>2 DEF Create, CommandsInv, CommandsTypeOK, Advices
  <2>2. QED
    BY <1>1, <1>2, <2>1, HostType DEF CommandsInv, CommandsTypeOK,
       HostWasAskedFor,
       CreatedHasHost, SameFlagsDelete, SummaryDeletes
<1>3. CASE ~(CreateAccepts(line) /\ Provisions(line))
  <2>1. /\ outcome' = "rejected" /\ UNCHANGED <<line, host, advice>>
        /\ advice = "none"
    BY <1>3 DEF Create, CommandsInv
  <2>2. QED
    BY <2>1 DEF CommandsInv, CommandsTypeOK, HostWasAskedFor, CreatedHasHost,
       SameFlagsDelete, SummaryDeletes
<1>4. QED
  BY <1>2, <1>3

LEMMA DeleteHostStep ==
  ASSUME CommandsInv, NEW how \in Advices, Delete(how)
  PROVE  CommandsInv'
<1> DEFINE f == DeleteLine(line, how)
<1>1. /\ line \in Lines
      /\ host = CreateHost(line)
      /\ CreateAccepts(line) /\ InAccount(line)
  BY LinesAssumption DEF CommandsInv, CommandsTypeOK, HostWasAskedFor,
     CreatedHasHost, Delete, Provisions
<1>2. /\ advice' = how /\ line' = line
      /\ outcome' \in {"rejected", "deleted", "not found"}
      /\ host' \in {host, NoHost}
      /\ DeleteAccepts(f, how) /\ InAccount(f) /\ LooksIn(f) = host.place =>
           outcome' = "deleted"
  BY DEF Delete, Finds
<1> HIDE DEF f
<1>3. CommandsTypeOK'
  <2>1. NoHost \in [place : Places \cup {"anywhere", "nowhere"},
                   userData : {"https", "tcp", "none"},
                   pro : BOOLEAN, webPorts : BOOLEAN]
    BY DEF NoHost
  <2>2. QED
    BY <1>2, <2>1 DEF CommandsInv, CommandsTypeOK
<1>4. HostWasAskedFor' /\ CreatedHasHost'
  BY <1>2 DEF CommandsInv, HostWasAskedFor, CreatedHasHost, CreateHost,
     CreateAccepts, Provisions, InAccount
<1>5. SameFlagsDelete'
  <2>1. how = "same flags" => f = line
    BY DEF f, DeleteLine
  <2>2. QED
    BY <1>1, <1>2, <2>1, DeleteAcceptsToo, SamePlace
       DEF SameFlagsDelete, NamesHost
<1>6. SummaryDeletes'
  BY <1>1, <1>2, SummaryAccepted DEF SummaryDeletes, f
<1>7. QED
  BY <1>2, <1>3, <1>4, <1>5, <1>6 DEF CommandsInv

(* Theorems                                                                *)

LEMMA CommandsInvariance == CommandsSpec => []CommandsInv
<1>1. CommandsInit => CommandsInv
  BY DEF CommandsInit, CommandsInv, CommandsTypeOK, HostWasAskedFor,
     CreatedHasHost, SameFlagsDelete, SummaryDeletes, NoHost
<1>2. CommandsInv /\ [CommandsNext]_commandsVars => CommandsInv'
  <2> SUFFICES ASSUME CommandsInv, [CommandsNext]_commandsVars
               PROVE  CommandsInv'
    OBVIOUS
  <2>1. CASE Create
    BY <2>1, CreateHostStep
  <2>2. ASSUME NEW how \in Advices, Delete(how) PROVE CommandsInv'
    BY <2>2, DeleteHostStep
  <2>3. CASE UNCHANGED commandsVars
    BY <2>3 DEF commandsVars, CommandsInv, CommandsTypeOK, HostWasAskedFor,
       CreatedHasHost, SameFlagsDelete, SummaryDeletes
  <2>4. QED
    BY <2>1, <2>2, <2>3 DEF CommandsNext
<1>3. QED
  BY <1>1, <1>2, PTL DEF CommandsSpec

(* Whatever is on the command line, a host has one of the known places and *)
(* kinds, and the user is told one of the known outcomes (create.go,       *)
(* delete.go).                                                             *)
THEOREM CommandsTypeCorrect == CommandsSpec => []CommandsTypeOK
<1>1. CommandsInv => CommandsTypeOK
  BY DEF CommandsInv
<1>2. QED
  BY <1>1, CommandsInvariance, PTL

(* A delete with the flags of the create never fails: the defaults of both *)
(* commands agree for every line (create.go:159-257, delete.go:62-151).    *)
THEOREM SameFlagsDeleteAlways == CommandsSpec => []SameFlagsDelete
<1>1. CommandsInv => SameFlagsDelete
  BY DEF CommandsInv
<1>2. QED
  BY <1>1, CommandsInvariance, PTL

(* A create that was accepted and the delete read the same secret key      *)
(* (create.go:212, delete.go:91).                                          *)
THEOREM SameSecretKeyAlways == CommandsSpec => []SameSecretKey
<1>1. CommandsInv => SameSecretKey
  <2> SUFFICES ASSUME CommandsInv, outcome = "created",
                      line.provider \in TakesSecretKey
               PROVE  DeleteSecret(line) = CreateSecret(line)
    BY DEF SameSecretKey
  <2>1. line \in Lines /\ CreateAccepts(line)
    BY LinesAssumption DEF CommandsInv, CommandsTypeOK, HostWasAskedFor,
       CreatedHasHost
  <2>2. QED
    BY <2>1, SecretsAgree DEF CreateAccepts
<1>2. QED
  BY <1>1, CommandsInvariance, PTL

(* The software, `pro` and the web ports of a host are of one kind of      *)
(* tunnel for every mix of --tcp and domains (create.go:115-118, 285-305). *)
THEOREM OneKindOfTunnelAlways == CommandsSpec => []OneKindOfTunnel
<1>1. CommandsInv => OneKindOfTunnel
  <2> SUFFICES ASSUME CommandsInv, host # NoHost
               PROVE  /\ host.pro <=> host.userData = "tcp"
                      /\ line.provider = "ec2" =>
                           (host.webPorts <=> host.userData = "https")
    BY DEF OneKindOfTunnel
  <2>1. host = CreateHost(line) /\ CreateAccepts(line)
    BY DEF CommandsInv, HostWasAskedFor
  <2>2. CASE line.domains
    BY <2>1, <2>2 DEF CreateHost, Tcp
  <2>3. CASE ~line.domains
    BY <2>1, <2>3 DEF CreateHost, CreateAccepts, Tcp
  <2>4. QED
    BY <2>2, <2>3
<1>2. QED
  BY <1>1, CommandsInvariance, PTL

(* The printed command deletes every host that was made in the default     *)
(* place with a provider other than scaleway, ovh and azure, which want a  *)
(* flag it does not have (create.go:371-372, 397-398, delete.go:62-113).   *)
THEOREM SummaryDeletesAlways == CommandsSpec => []SummaryDeletes
<1>1. CommandsInv => SummaryDeletes
  BY DEF CommandsInv
<1>2. QED
  BY <1>1, CommandsInvariance, PTL

----------------------------------------------------------------------------
(***************************************************************************)
(* Download, for every number of runs, blocks, names and files, whatever   *)
(* the answers are and however runs overlap.                               *)
(*                                                                         *)
(* A run that meets no other and does not download to the temporary        *)
(* directory has its answer in the body, from there, block by block, in    *)
(* the temporary file, and from there at its destination.  What has to be  *)
(* shown of the runs that do meet is that they spoil no destination but    *)
(* their own: the file a run has open for writing is known by the name it  *)
(* was opened with, if it still has a name.                                *)
(***************************************************************************)

(* The first n blocks of a sequence.                                       *)
FirstBlocks(s, n) == [i \in 1 .. n |-> s[i]]

OthersMet ==
  \A q, r \in Downloads : UnderWay(q) /\ UnderWay(r) /\ q # r => met[q]

(* Two names never lead to one file.                                       *)
NamesApart ==
  \A p, q \in Paths : file[p] = file[q] /\ file[p] # NoFile => p = q

WritesToItsFile ==
  \A r \in Downloads, p \in Paths :
    /\ pc[r] = "writing" /\ file[p] = dst[r] => p = Temp
    /\ pc[r] = "copying" /\ file[p] = dst[r] => p = Dest[r]

TempHasBody ==
  \A r \in Downloads : HadTemp(r) =>
    /\ pc[r] = "writing" =>
         /\ dst[r] = file[Temp]
         /\ pos[r] <= Len(body[r])
         /\ data[dst[r]] = FirstBlocks(body[r], pos[r])
    /\ pc[r] \in {"written", "opened", "copying", "copied"} =>
         Holds(Temp, body[r])
    /\ pc[r] \in {"opened", "copying", "copied"} => src[r] = file[Temp]

DestHasBody ==
  \A r \in Downloads : HadTemp(r) =>
    /\ pc[r] = "copying" =>
         /\ dst[r] = file[Dest[r]]
         /\ pos[r] <= Len(body[r])
         /\ data[dst[r]] = FirstBlocks(body[r], pos[r])
    /\ pc[r] = "copied" => Holds(Dest[r], body[r])

(* What is at p is accounted for: a part of an answer is there only while  *)
(* a run copies, or once one was killed or met another.                    *)
Accounted(p) ==
  \/ file[p] = NoFile
  \/ \E r \in Downloads :
       /\ Dest[r] = p /\ pc[r] # "start"
       /\ Holds(p, body[r]) \/ pc[r] \in {"copying", "killed"} \/ met[r]

PartsAccounted ==
  \A p \in {Dest[r] : r \in Downloads} \ {Temp} : Accounted(p)

DownloadInv ==
  /\ DownloadTypeOK
  /\ OthersMet
  /\ NamesApart
  /\ WritesToItsFile
  /\ TempHasBody
  /\ DestHasBody
  /\ PartsAccounted

(* Blocks                                                                  *)

LEMMA AllBlocks ==
  ASSUME NEW s \in Seq(Blocks)
  PROVE  FirstBlocks(s, Len(s)) = s
BY DEF FirstBlocks

LEMMA WrittenIsSequence ==
  ASSUME NEW s \in Seq(Blocks), NEW n \in Nat, NEW b \in Blocks
  PROVE  Written(s, n, b) \in Seq(Blocks)
<1> DEFINE m == IF Len(s) > n THEN Len(s) ELSE n + 1
<1>1. m \in Nat
  OBVIOUS
<1>2. \A i \in 1 .. m :
        (IF i = n + 1 THEN b ELSE IF i <= Len(s) THEN s[i] ELSE Hole)
          \in Blocks
  BY DEF Blocks
<1>3. QED
  BY <1>1, <1>2 DEF Written

(* A block that is written at the end of the first n is the next one.      *)
LEMMA WrittenNext ==
  ASSUME NEW s \in Seq(Blocks), NEW n \in Nat, n < Len(s)
  PROVE  Written(FirstBlocks(s, n), n, s[n + 1]) = FirstBlocks(s, n + 1)
<1>1. FirstBlocks(s, n) \in Seq(Blocks)
  BY DEF FirstBlocks
<1>2. /\ Len(FirstBlocks(s, n)) = n
      /\ \A i \in 1 .. n : FirstBlocks(s, n)[i] = s[i]
  BY <1>1 DEF FirstBlocks
<1>3. QED
  BY <1>2 DEF Written, FirstBlocks

(* Types                                                                   *)

LEMMA BodiesAreSequences ==
  ASSUME NEW v \in Versions
  PROVE  Bodies(v) \subseteq Seq(Blocks)
<1>1. Size[v] \in Nat
  BY DownloadAssumption
<1>2. Whole(v) \in Seq(Blocks) /\ Len(Whole(v)) = Size[v]
  BY <1>1 DEF Whole, Blocks
<1>3. <<Page>> \in Seq(Blocks)
  BY DEF Blocks
<1>4. \A n \in 0 .. Size[v] : SubSeq(Whole(v), 1, n) \in Seq(Blocks)
  BY <1>1, <1>2
<1>5. QED
  BY <1>3, <1>4 DEF Bodies

LEMMA OpenTruncTypes ==
  ASSUME DownloadTypeOK, NEW r \in Downloads, NEW p \in Paths, OpenTrunc(r, p)
  PROVE  /\ file' \in [Paths -> Files \cup {NoFile}]
         /\ dst' \in [Downloads -> Files \cup {NoFile}]
         /\ dst'[r] \in Files
         /\ \A q \in Downloads \ {r} : dst'[q] = dst[q]
         /\ pos' \in [Downloads -> Nat]
         /\ data' \in [Files -> Seq(Blocks)]
BY DEF DownloadTypeOK, OpenTrunc, Open

LEMMA ExitTypes ==
  ASSUME DownloadTypeOK, NEW r \in Downloads, NEW end \in Ends, Exit(r, end),
         UNCHANGED <<version, body, pos, data, met>>,
         file' \in [Paths -> Files \cup {NoFile}]
  PROVE  DownloadTypeOK'
BY DownloadAssumption DEF DownloadTypeOK, Exit, Goto, Ends

(* A block that is written is one of the body or of the temporary file.    *)
LEMMA WriteBlockTypes ==
  ASSUME DownloadTypeOK, NEW r \in Downloads, WriteBlock(r)
  PROVE  DownloadTypeOK'
<1>1. Input(r) \in Seq(Blocks) /\ dst[r] \in Files /\ pos[r] \in Nat
  BY DEF DownloadTypeOK, WriteBlock, Input
<1>2. Input(r)[pos[r] + 1] \in Blocks
  BY <1>1 DEF WriteBlock
<1>3. Written(data[dst[r]], pos[r], Input(r)[pos[r] + 1]) \in Seq(Blocks)
  BY <1>1, <1>2, WrittenIsSequence DEF DownloadTypeOK
<1>4. data' \in [Files -> Seq(Blocks)]
  BY <1>1, <1>3 DEF DownloadTypeOK, WriteBlock
<1>5. QED
  BY <1>4 DEF DownloadTypeOK, WriteBlock

LEMMA DownloadTypeNext ==
  ASSUME DownloadTypeOK, [DownloadNext]_downloadVars
  PROVE  DownloadTypeOK'
<1>1. ASSUME NEW r \in Downloads, Fetch(r) PROVE DownloadTypeOK'
  <2>1. version[r] \in Versions
    BY DEF DownloadTypeOK
  <2>2. body' \in [Downloads -> Seq(Blocks)]
    BY <1>1, <2>1, BodiesAreSequences DEF DownloadTypeOK, Fetch
  <2>3. met' \in [Downloads -> BOOLEAN]
    BY <1>1 DEF DownloadTypeOK, Fetch
  <2>4. QED
    BY <1>1, <2>2, <2>3, DownloadAssumption
       DEF DownloadTypeOK, Fetch, Goto, Ends
<1>2. ASSUME NEW r \in Downloads, CreateTemp(r) PROVE DownloadTypeOK'
  BY <1>2, OpenTruncTypes, DownloadAssumption
     DEF DownloadTypeOK, CreateTemp, Goto
<1>3. ASSUME NEW r \in Downloads, OpenSource(r) PROVE DownloadTypeOK'
  BY <1>3, DownloadAssumption DEF DownloadTypeOK, OpenSource, Goto
<1>4. ASSUME NEW r \in Downloads, OpenDest(r) PROVE DownloadTypeOK'
  BY <1>4, OpenTruncTypes, DownloadAssumption
     DEF DownloadTypeOK, OpenDest, Goto
<1>5. ASSUME NEW r \in Downloads, Close(r) PROVE DownloadTypeOK'
  BY <1>5, DownloadAssumption DEF DownloadTypeOK, Close, Goto
<1>6. ASSUME NEW r \in Downloads,
             CopyFails(r) \/ RemoveTemp(r) \/ Fail(r) \/ Kill(r)
      PROVE  DownloadTypeOK'
  <2>1. UNCHANGED <<version, body, pos, data, met>>
    BY <1>6 DEF CopyFails, RemoveTemp, Fail, Kill
  <2>2. file' \in [Paths -> Files \cup {NoFile}]
    BY <1>6, DownloadAssumption
       DEF DownloadTypeOK, CopyFails, RemoveTemp, Fail, Kill, Unlink
  <2>3. \E end \in Ends : Exit(r, end)
    BY <1>6 DEF CopyFails, RemoveTemp, Fail, Kill, Ends
  <2>4. QED
    BY <2>1, <2>2, <2>3, ExitTypes
<1>7. CASE UNCHANGED downloadVars
  BY <1>7 DEF downloadVars, DownloadTypeOK
<1>8. QED
  BY <1>1, <1>2, <1>3, <1>4, <1>5, <1>6, <1>7, WriteBlockTypes DEF DownloadNext

(* What a step of one run leaves alone                                     *)

(* After a step of r every other run that has the temporary file to itself *)
(* is at its start or its end, so that TempHasBody and DestHasBody are     *)
(* about r alone.                                                          *)
LEMMA OnlyOneMoves ==
  ASSUME DownloadInv, NEW r \in Downloads, UnderWay(r), UNCHANGED met,
         \A q \in Downloads \ {r} : pc'[q] = pc[q]
  PROVE  /\ OthersMet'
         /\ \A q \in Downloads \ {r} : HadTemp(q)' =>
              pc'[q] \notin {"writing", "written", "opened", "copying",
                             "copied"}
<1>1. \A q \in Downloads : UnderWay(q)' => UnderWay(q)
  BY DEF UnderWay
<1>2. OthersMet'
  BY <1>1 DEF DownloadInv, OthersMet
<1>3. \A q \in Downloads \ {r} : UnderWay(q) => met[q]
  BY DEF DownloadInv, OthersMet
<1>4. QED
  BY <1>2, <1>3 DEF HadTemp, UnderWay, Ends

(* A file that is opened for writing is known by no other name, and no     *)
(* other run gets to write to it under another name.                       *)
LEMMA OpenTruncFile ==
  ASSUME DownloadInv, NEW r \in Downloads, NEW p \in Paths, OpenTrunc(r, p),
         \/ pc'[r] = "writing" /\ p = Temp
         \/ pc'[r] = "copying" /\ p = Dest[r],
         \A q \in Downloads \ {r} : pc'[q] = pc[q]
  PROVE  /\ NamesApart'
         /\ WritesToItsFile'
         /\ dst'[r] = file'[p] /\ file'[p] \in Files
         /\ pos'[r] = 0
         /\ data'[dst'[r]] = <<>>
         /\ \A q \in Paths \ {p} :
              /\ file'[q] = file[q]
              /\ file[q] # NoFile => data'[file[q]] = data[file[q]]
<1>1. PICK f \in Files :
        /\ file[p] = f \/ (file[p] = NoFile /\ ~InUse(f))
        /\ file' = [file EXCEPT ![p] = f]
        /\ dst' = [dst EXCEPT ![r] = f]
        /\ pos' = [pos EXCEPT ![r] = 0]
        /\ data' = [data EXCEPT ![f] = <<>>]
  BY DEF OpenTrunc, Open
<1>2. \A q \in Paths \ {p} : file[q] # f /\ file'[q] = file[q]
  BY <1>1, DownloadAssumption
     DEF DownloadInv, DownloadTypeOK, NamesApart, InUse
<1>3. /\ file'[p] = f /\ dst'[r] = f
      /\ \A q \in Downloads \ {r} : dst'[q] = dst[q]
  BY <1>1 DEF DownloadInv, DownloadTypeOK
<1>4. NamesApart'
  BY <1>2, <1>3 DEF DownloadInv, NamesApart
<1>5. WritesToItsFile'
  <2>1. ASSUME NEW q \in Downloads \ {r}, NEW x \in Paths, file'[x] = dst'[q],
               pc[q] \in {"writing", "copying"}
        PROVE  file[x] = dst[q]
    <3>1. dst[q] \in Files
      BY <2>1 DEF DownloadInv, DownloadTypeOK
    <3>2. CASE x # p
      BY <1>2, <1>3, <2>1, <3>2
    <3>3. CASE x = p
      BY <1>1, <1>3, <2>1, <3>1, <3>3 DEF InUse
    <3>4. QED
      BY <3>2, <3>3
  <2>2. \A x \in Paths : file'[x] = dst'[r] => x = p
    BY <1>2, <1>3
  <2>3. QED
    BY <2>1, <2>2 DEF DownloadInv, WritesToItsFile
<1>6. QED
  BY <1>1, <1>2, <1>3, <1>4, <1>5, DownloadAssumption
     DEF DownloadInv, DownloadTypeOK

(* Where nothing changes at a destination, it stays accounted for.         *)
LEMMA AccountStays ==
  ASSUME DownloadInv, NEW p, Accounted(p),
         file'[p] = file[p],
         file[p] # NoFile => data'[file[p]] = data[file[p]],
         \A q \in Downloads :
           /\ pc[q] # "start" => pc'[q] # "start" /\ body'[q] = body[q]
           /\ pc[q] \in {"copying", "killed"} /\ Dest[q] = p =>
                \/ pc'[q] \in {"copying", "killed"}
                \/ Holds(p, body[q])' \/ met'[q]
           /\ met[q] => met'[q]
  PROVE  Accounted(p)'
BY DEF Accounted, Holds

(* The steps                                                               *)

LEMMA DownloadInvInit == DownloadInit => DownloadInv
<1>. SUFFICES ASSUME DownloadInit PROVE DownloadInv
  OBVIOUS
<1>1. DownloadTypeOK
  BY DownloadAssumption DEF DownloadInit, DownloadTypeOK, Blocks, Ends
<1>2. /\ \A r \in Downloads : pc[r] = "start" /\ ~UnderWay(r)
      /\ \A p \in Paths : file[p] = NoFile
  BY DEF DownloadInit, UnderWay
<1>3. /\ OthersMet /\ NamesApart /\ WritesToItsFile
      /\ TempHasBody /\ DestHasBody
  BY <1>2
     DEF OthersMet, NamesApart, WritesToItsFile, TempHasBody, DestHasBody
<1>4. PartsAccounted
  BY <1>2, DownloadAssumption DEF PartsAccounted, Accounted
<1>5. QED
  BY <1>1, <1>3, <1>4 DEF DownloadInv

LEMMA FetchStep ==
  ASSUME DownloadInv, NEW r \in Downloads, Fetch(r)
  PROVE  DownloadInv'
<1>1. DownloadTypeOK'
  BY DownloadTypeNext DEF DownloadInv, DownloadNext
<1>2. /\ pc[r] = "start" /\ pc'[r] = "fetched"
      /\ \A q \in Downloads \ {r} : pc'[q] = pc[q] /\ body'[q] = body[q]
      /\ UNCHANGED <<version, src, dst, pos, file, data>>
  BY DEF Fetch, Goto, DownloadInv, DownloadTypeOK
<1>3. /\ \A q \in Downloads : met[q] => met'[q]
      /\ \A q \in Downloads \ {r} : UnderWay(q) => met'[q] /\ met'[r]
  BY DEF Fetch
<1>4. ~UnderWay(r)
  BY <1>2 DEF UnderWay
<1>5. OthersMet'
  <2>1. \A q \in Downloads \ {r} : UnderWay(q)' => UnderWay(q)
    BY <1>2 DEF UnderWay
  <2>2. QED
    BY <1>3, <2>1 DEF OthersMet
<1>6. \A q \in Downloads : HadTemp(q)' =>
        pc'[q] \notin {"writing", "written", "opened", "copying", "copied"}
  BY <1>2, <1>3 DEF HadTemp, UnderWay, Ends
<1>7. TempHasBody' /\ DestHasBody'
  BY <1>6 DEF TempHasBody, DestHasBody
<1>8. NamesApart' /\ WritesToItsFile'
  BY <1>2 DEF DownloadInv, NamesApart, WritesToItsFile
<1>9. PartsAccounted'
  <2>1. \A q \in Downloads :
          pc[q] # "start" => pc'[q] = pc[q] /\ body'[q] = body[q]
    BY <1>2
  <2>2. ASSUME NEW p, Accounted(p) PROVE Accounted(p)'
    BY <1>2, <1>3, <2>1, <2>2 DEF Accounted, Holds
  <2>3. QED
    BY <2>2 DEF DownloadInv, PartsAccounted
<1>10. QED
  BY <1>1, <1>5, <1>7, <1>8, <1>9 DEF DownloadInv

LEMMA CreateTempStep ==
  ASSUME DownloadInv, NEW r \in Downloads, CreateTemp(r)
  PROVE  DownloadInv'
<1>1. DownloadTypeOK'
  BY DownloadTypeNext DEF DownloadInv, DownloadNext
<1>2. /\ pc[r] = "fetched" /\ pc'[r] = "writing"
      /\ \A q \in Downloads \ {r} : pc'[q] = pc[q]
      /\ OpenTrunc(r, Temp) /\ Temp \in Paths
      /\ UNCHANGED <<version, body, src, met>>
  BY DownloadAssumption DEF CreateTemp, Goto, DownloadInv, DownloadTypeOK
<1>3. /\ NamesApart' /\ WritesToItsFile'
      /\ dst'[r] = file'[Temp] /\ pos'[r] = 0 /\ data'[dst'[r]] = <<>>
      /\ \A q \in Paths \ {Temp} :
           /\ file'[q] = file[q]
           /\ file[q] # NoFile => data'[file[q]] = data[file[q]]
  BY <1>2, OpenTruncFile
<1>4. FirstBlocks(body'[r], 0) = <<>> /\ 0 <= Len(body'[r])
  BY <1>1 DEF FirstBlocks, DownloadTypeOK
<1>5. /\ OthersMet'
      /\ \A q \in Downloads \ {r} : HadTemp(q)' =>
           pc'[q] \notin {"writing", "written", "opened", "copying", "copied"}
  BY <1>2, OnlyOneMoves DEF UnderWay, Ends
<1>6. TempHasBody' /\ DestHasBody'
  BY <1>2, <1>3, <1>4, <1>5 DEF TempHasBody, DestHasBody
<1>7. PartsAccounted'
  <2>1. ASSUME NEW p \in {Dest[q] : q \in Downloads} \ {Temp}
        PROVE  Accounted(p)'
    <3>1. p \in Paths \ {Temp} /\ Accounted(p)
      BY DownloadAssumption DEF DownloadInv, PartsAccounted
    <3>2. QED
      BY <1>2, <1>3, <3>1, AccountStays
  <2>2. QED
    BY <2>1 DEF PartsAccounted
<1>8. QED
  BY <1>1, <1>3, <1>5, <1>6, <1>7 DEF DownloadInv

LEMMA OpenSourceStep ==
  ASSUME DownloadInv, NEW r \in Downloads, OpenSource(r)
  PROVE  DownloadInv'
<1>1. DownloadTypeOK'
  BY DownloadTypeNext DEF DownloadInv, DownloadNext
<1>2. /\ pc[r] = "written" /\ pc'[r] = "opened"
      /\ \A q \in Downloads \ {r} : pc'[q] = pc[q]
      /\ src'[r] = file[Temp]
      /\ UNCHANGED <<version, body, dst, pos, file, data, met>>
  BY DEF OpenSource, Goto, DownloadInv, DownloadTypeOK
<1>3. /\ OthersMet'
      /\ \A q \in Downloads \ {r} : HadTemp(q)' =>
           pc'[q] \notin {"writing", "written", "opened", "copying", "copied"}
  BY <1>2, OnlyOneMoves DEF UnderWay, Ends
<1>4. TempHasBody' /\ DestHasBody'
  BY <1>2, <1>3 DEF DownloadInv, TempHasBody, DestHasBody, HadTemp, Holds
<1>5. NamesApart' /\ WritesToItsFile'
  BY <1>2 DEF DownloadInv, NamesApart, WritesToItsFile
<1>6. PartsAccounted'
  BY <1>2 DEF DownloadInv, PartsAccounted, Accounted, Holds
<1>7. QED
  BY <1>1, <1>3, <1>4, <1>5, <1>6 DEF DownloadInv

LEMMA OpenDestStep ==
  ASSUME DownloadInv, NEW r \in Downloads, OpenDest(r)
  PROVE  DownloadInv'
<1>1. DownloadTypeOK'
  BY DownloadTypeNext DEF DownloadInv, DownloadNext
<1>2. /\ pc[r] = "opened" /\ pc'[r] = "copying"
      /\ \A q \in Downloads \ {r} : pc'[q] = pc[q]
      /\ OpenTrunc(r, Dest[r]) /\ Dest[r] \in Paths /\ Temp \in Paths
      /\ UNCHANGED <<version, body, src, met>>
  BY DownloadAssumption DEF OpenDest, Goto, DownloadInv, DownloadTypeOK
<1>3. /\ NamesApart' /\ WritesToItsFile'
      /\ dst'[r] = file'[Dest[r]] /\ pos'[r] = 0 /\ data'[dst'[r]] = <<>>
      /\ \A q \in Paths \ {Dest[r]} :
           /\ file'[q] = file[q]
           /\ file[q] # NoFile => data'[file[q]] = data[file[q]]
  BY <1>2, OpenTruncFile
<1>4. FirstBlocks(body'[r], 0) = <<>> /\ 0 <= Len(body'[r])
  BY <1>1 DEF FirstBlocks, DownloadTypeOK
<1>5. /\ OthersMet'
      /\ \A q \in Downloads \ {r} : HadTemp(q)' =>
           pc'[q] \notin {"writing", "written", "opened", "copying", "copied"}
  BY <1>2, OnlyOneMoves DEF UnderWay, Ends
<1>6. HadTemp(r)' => Holds(Temp, body[r])' /\ src'[r] = file'[Temp]
  <2>1. SUFFICES ASSUME HadTemp(r)'
                 PROVE  Holds(Temp, body[r])' /\ src'[r] = file'[Temp]
    OBVIOUS
  <2>2. Temp \in Paths \ {Dest[r]} /\ HadTemp(r)
    BY <1>2, <2>1 DEF HadTemp
  <2>3. Holds(Temp, body[r]) /\ src[r] = file[Temp]
    BY <1>2, <2>2 DEF DownloadInv, TempHasBody
  <2>4. QED
    BY <1>2, <1>3, <2>2, <2>3 DEF Holds
<1>7. TempHasBody' /\ DestHasBody'
  BY <1>2, <1>3, <1>4, <1>5, <1>6 DEF TempHasBody, DestHasBody
<1>8. PartsAccounted'
  <2>1. ASSUME NEW p \in {Dest[q] : q \in Downloads} \ {Temp}
        PROVE  Accounted(p)'
    <3>1. p \in Paths /\ Accounted(p)
      BY DownloadAssumption DEF DownloadInv, PartsAccounted
    <3>2. CASE p = Dest[r]
      BY <1>2, <3>2 DEF Accounted
    <3>3. CASE p # Dest[r]
      BY <1>2, <1>3, <3>1, <3>3, AccountStays
    <3>4. QED
      BY <3>2, <3>3
  <2>2. QED
    BY <2>1 DEF PartsAccounted
<1>9. QED
  BY <1>1, <1>3, <1>5, <1>7, <1>8 DEF DownloadInv

(* Whether a run fills the temporary file or its destination, what it has  *)
(* written so far is the start of its answer.                              *)
LEMMA InputIsBody ==
  ASSUME DownloadInv, NEW r \in Downloads, pc[r] \in {"writing", "copying"},
         HadTemp(r)
  PROVE  /\ Input(r) = body[r]
         /\ body[r] \in Seq(Blocks)
         /\ pos[r] \in Nat /\ pos[r] <= Len(body[r])
         /\ dst[r] \in Files
         /\ data[dst[r]] = FirstBlocks(body[r], pos[r])
         /\ dst[r] = IF pc[r] = "writing" THEN file[Temp] ELSE file[Dest[r]]
<1>1. body[r] \in Seq(Blocks) /\ pos[r] \in Nat /\ dst[r] \in Files
  BY DEF DownloadInv, DownloadTypeOK
<1>2. Input(r) = body[r]
  BY DEF DownloadInv, TempHasBody, Holds, Input
<1>3. /\ pos[r] <= Len(body[r])
      /\ data[dst[r]] = FirstBlocks(body[r], pos[r])
      /\ dst[r] = IF pc[r] = "writing" THEN file[Temp] ELSE file[Dest[r]]
  BY DEF DownloadInv, TempHasBody, DestHasBody
<1>4. QED
  BY <1>1, <1>2, <1>3

LEMMA WriteBlockStep ==
  ASSUME DownloadInv, NEW r \in Downloads, WriteBlock(r)
  PROVE  DownloadInv'
<1>1. DownloadTypeOK'
  BY WriteBlockTypes DEF DownloadInv
<1>2. /\ pc[r] \in {"writing", "copying"}
      /\ data' = [data EXCEPT ![dst[r]] =
                    Written(data[dst[r]], pos[r], Input(r)[pos[r] + 1])]
      /\ pos' = [pos EXCEPT ![r] = pos[r] + 1]
      /\ UNCHANGED <<pc, version, body, src, dst, file, met>>
      /\ dst[r] \in Files
      /\ \A f \in Files \ {dst[r]} : data'[f] = data[f]
  BY DEF WriteBlock, DownloadInv, DownloadTypeOK
<1>3. OthersMet' /\ NamesApart' /\ WritesToItsFile'
  BY <1>2 DEF DownloadInv, OthersMet, NamesApart, WritesToItsFile, UnderWay
<1>4. \A q \in Downloads \ {r} : HadTemp(q)' =>
        pc'[q] \notin {"writing", "written", "opened", "copying", "copied"}
  BY <1>2, OnlyOneMoves DEF UnderWay, Ends
<1>5. HadTemp(r) =>
        /\ pos'[r] <= Len(body[r])
        /\ data'[dst[r]] = FirstBlocks(body[r], pos'[r])
  <2>1. SUFFICES ASSUME HadTemp(r)
                 PROVE  /\ pos'[r] <= Len(body[r])
                        /\ data'[dst[r]] = FirstBlocks(body[r], pos'[r])
    OBVIOUS
  <2>2. /\ Input(r) = body[r]
        /\ body[r] \in Seq(Blocks)
        /\ pos[r] \in Nat
        /\ data[dst[r]] = FirstBlocks(body[r], pos[r])
    BY <1>2, <2>1, InputIsBody
  <2>3. pos[r] < Len(body[r])
    BY <2>2 DEF WriteBlock
  <2>4. pos'[r] = pos[r] + 1
    BY <1>2 DEF DownloadInv, DownloadTypeOK
  <2>5. data'[dst[r]] = Written(data[dst[r]], pos[r], Input(r)[pos[r] + 1])
    BY <1>2 DEF DownloadInv, DownloadTypeOK
  <2>6. data'[dst[r]] = FirstBlocks(body[r], pos[r] + 1)
    BY <2>2, <2>3, <2>5, WrittenNext
  <2>7. QED
    BY <2>2, <2>3, <2>4, <2>6
<1>6. CASE pc[r] = "writing"
  <2>1. \A p \in Paths \ {Temp} :
          file[p] # NoFile => file[p] \in Files \ {dst[r]}
    BY <1>6 DEF DownloadInv, DownloadTypeOK, WritesToItsFile
  <2>2. HadTemp(r) => dst[r] = file[Temp]
    BY <1>6 DEF DownloadInv, TempHasBody
  <2>3. TempHasBody' /\ DestHasBody'
    BY <1>2, <1>4, <1>5, <1>6, <2>2 DEF TempHasBody, DestHasBody, HadTemp
  <2>4. ASSUME NEW p \in {Dest[q] : q \in Downloads} \ {Temp}
        PROVE  Accounted(p)'
    <3>1. p \in Paths \ {Temp} /\ Accounted(p)
      BY DownloadAssumption DEF DownloadInv, PartsAccounted
    <3>2. file[p] # NoFile => data'[file[p]] = data[file[p]]
      BY <1>2, <2>1, <3>1
    <3>3. QED
      BY <1>2, <3>1, <3>2, AccountStays
  <2>5. QED
    BY <1>1, <1>3, <2>3, <2>4 DEF DownloadInv, PartsAccounted
<1>7. CASE pc[r] = "copying"
  <2>1. \A p \in Paths \ {Dest[r]} :
          file[p] # NoFile => file[p] \in Files \ {dst[r]}
    BY <1>7 DEF DownloadInv, DownloadTypeOK, WritesToItsFile
  <2>2. HadTemp(r) => dst[r] = file[Dest[r]]
    BY <1>7 DEF DownloadInv, DestHasBody
  <2>3. HadTemp(r) => Holds(Temp, body[r])' /\ src'[r] = file'[Temp]
    <3>1. SUFFICES ASSUME HadTemp(r)
                   PROVE  Holds(Temp, body[r])' /\ src'[r] = file'[Temp]
      OBVIOUS
    <3>2. Temp \in Paths \ {Dest[r]}
      BY <3>1, DownloadAssumption DEF HadTemp
    <3>3. Holds(Temp, body[r]) /\ src[r] = file[Temp]
      BY <1>7, <3>1 DEF DownloadInv, TempHasBody
    <3>4. QED
      BY <1>2, <2>1, <3>2, <3>3 DEF Holds
  <2>4. TempHasBody' /\ DestHasBody'
    BY <1>2, <1>4, <1>5, <1>7, <2>2, <2>3 DEF TempHasBody, DestHasBody, HadTemp
  <2>5. ASSUME NEW p \in {Dest[q] : q \in Downloads} \ {Temp}
        PROVE  Accounted(p)'
    <3>1. p \in Paths /\ Accounted(p)
      BY DownloadAssumption DEF DownloadInv, PartsAccounted
    <3>2. CASE p = Dest[r]
      BY <1>2, <1>7, <3>2 DEF Accounted
    <3>3. CASE p # Dest[r]
      <4>1. file[p] # NoFile => data'[file[p]] = data[file[p]]
        BY <1>2, <2>1, <3>1, <3>3
      <4>2. QED
        BY <1>2, <3>1, <4>1, AccountStays
    <3>4. QED
      BY <3>2, <3>3
  <2>6. QED
    BY <1>1, <1>3, <2>4, <2>5 DEF DownloadInv, PartsAccounted
<1>8. QED
  BY <1>2, <1>6, <1>7

LEMMA CloseStep ==
  ASSUME DownloadInv, NEW r \in Downloads, Close(r)
  PROVE  DownloadInv'
<1>1. DownloadTypeOK'
  BY DownloadTypeNext DEF DownloadInv, DownloadNext
<1>2. /\ pc[r] \in {"writing", "copying"}
      /\ pc'[r] = IF pc[r] = "writing" THEN "written" ELSE "copied"
      /\ \A q \in Downloads \ {r} : pc'[q] = pc[q] /\ dst'[q] = dst[q]
      /\ UNCHANGED <<version, body, src, pos, file, data, met>>
  BY DEF Close, Goto, DownloadInv, DownloadTypeOK
<1>3. /\ OthersMet'
      /\ \A q \in Downloads \ {r} : HadTemp(q)' =>
           pc'[q] \notin {"writing", "written", "opened", "copying", "copied"}
  BY <1>2, OnlyOneMoves DEF UnderWay, Ends
<1>4. NamesApart' /\ WritesToItsFile'
  BY <1>2 DEF DownloadInv, NamesApart, WritesToItsFile
<1>5. HadTemp(r) => data[dst[r]] = body[r] /\ dst[r] # NoFile
  <2>1. SUFFICES ASSUME HadTemp(r)
                 PROVE  data[dst[r]] = body[r] /\ dst[r] # NoFile
    OBVIOUS
  <2>2. /\ Input(r) = body[r] /\ body[r] \in Seq(Blocks)
        /\ pos[r] \in Nat /\ pos[r] <= Len(body[r])
        /\ dst[r] \in Files
        /\ data[dst[r]] = FirstBlocks(body[r], pos[r])
    BY <1>2, <2>1, InputIsBody
  <2>3. pos[r] >= Len(body[r])
    BY <2>2 DEF Close
  <2>4. pos[r] = Len(body[r])
    BY <2>2, <2>3
  <2>5. QED
    BY <2>2, <2>4, AllBlocks, DownloadAssumption
<1>6. TempHasBody' /\ DestHasBody'
  <2>1. CASE pc[r] = "writing"
    <3>1. HadTemp(r) => Holds(Temp, body[r])
      BY <1>5, <2>1 DEF DownloadInv, TempHasBody, Holds
    <3>2. QED
      BY <1>2, <1>3, <2>1, <3>1 DEF TempHasBody, DestHasBody, HadTemp, Holds
  <2>2. CASE pc[r] = "copying"
    <3>1. HadTemp(r) => /\ Holds(Temp, body[r]) /\ src[r] = file[Temp]
                        /\ Holds(Dest[r], body[r])
      BY <1>5, <2>2 DEF DownloadInv, TempHasBody, DestHasBody, Holds
    <3>2. QED
      BY <1>2, <1>3, <2>2, <3>1 DEF TempHasBody, DestHasBody, HadTemp, Holds
  <2>3. QED
    BY <1>2, <2>1, <2>2
<1>7. ASSUME NEW p \in {Dest[q] : q \in Downloads} \ {Temp}
      PROVE  Accounted(p)'
  <2>1. Accounted(p)
    BY DEF DownloadInv, PartsAccounted
  <2>2. pc[r] = "copying" /\ Dest[r] = p => Holds(p, body[r])' \/ met'[r]
    BY <1>2, <1>5 DEF DownloadInv, DestHasBody, HadTemp, Holds
  <2>3. QED
    BY <1>2, <2>1, <2>2, AccountStays
<1>8. QED
  BY <1>1, <1>3, <1>4, <1>6, <1>7 DEF DownloadInv, PartsAccounted

(* A run that ends leaves the files as they are, but for a name it removes.*)
LEMMA EndChanges ==
  ASSUME DownloadInv, NEW r \in Downloads,
         CopyFails(r) \/ RemoveTemp(r) \/ Fail(r) \/ Kill(r)
  PROVE  /\ pc'[r] \in Ends /\ pc[r] \notin Ends
         /\ \A q \in Downloads \ {r} : pc'[q] = pc[q] /\ dst'[q] = dst[q]
         /\ UNCHANGED <<version, body, pos, data, met>>
         /\ \/ UNCHANGED file
            \/ pc[r] = "copying" /\ Unlink(Dest[r])
            \/ Unlink(Temp)
         /\ pc[r] = "copying" => pc'[r] = "killed" \/ Unlink(Dest[r])
<1>1. PICK end \in Ends :
        /\ Exit(r, end)
        /\ end = "killed" \/ pc[r] # "copying" \/ Unlink(Dest[r])
  BY DEF CopyFails, RemoveTemp, Fail, Kill, Ends
<1>2. /\ pc'[r] = end
      /\ \A q \in Downloads \ {r} : pc'[q] = pc[q] /\ dst'[q] = dst[q]
  BY <1>1 DEF Exit, Goto, DownloadInv, DownloadTypeOK
<1>3. QED
  BY <1>1, <1>2 DEF CopyFails, RemoveTemp, Fail, Kill, Ends

LEMMA EndStep ==
  ASSUME DownloadInv, NEW r \in Downloads,
         CopyFails(r) \/ RemoveTemp(r) \/ Fail(r) \/ Kill(r)
  PROVE  DownloadInv'
<1>1. DownloadTypeOK'
  BY DownloadTypeNext DEF DownloadInv, DownloadNext
<1>2. /\ pc'[r] \in Ends
      /\ \A q \in Downloads \ {r} : pc'[q] = pc[q] /\ dst'[q] = dst[q]
      /\ UNCHANGED <<version, body, pos, data, met>>
  BY EndChanges
<1>3. \A p \in Paths : file'[p] \in {file[p], NoFile}
  BY EndChanges DEF Unlink, DownloadInv, DownloadTypeOK
<1>4. \A q \in Downloads : UnderWay(q)' => UnderWay(q) /\ q # r
  BY <1>2 DEF UnderWay
<1>5. OthersMet' /\ NamesApart'
  BY <1>2, <1>3, <1>4 DEF DownloadInv, OthersMet, NamesApart
<1>6. WritesToItsFile'
  <2>1. ASSUME NEW q \in Downloads, pc'[q] \in {"writing", "copying"}
        PROVE  q # r /\ pc'[q] = pc[q] /\ dst'[q] = dst[q] /\ dst[q] # NoFile
    BY <1>2, <2>1, DownloadAssumption DEF Ends, DownloadInv, DownloadTypeOK
  <2>2. QED
    BY <1>3, <2>1 DEF DownloadInv, WritesToItsFile
<1>7. TempHasBody' /\ DestHasBody'
  <2>1. CASE pc[r] = "start"
    <3>1. UNCHANGED file /\ \A q \in Downloads \ {r} : src'[q] = src[q]
      BY <2>1 DEF CopyFails, RemoveTemp, Fail, Kill, Exit, DownloadInv,
         DownloadTypeOK
    <3>2. QED
      BY <1>2, <3>1 DEF DownloadInv, TempHasBody, DestHasBody, HadTemp, Holds,
         Ends
  <2>2. CASE pc[r] # "start"
    <3>1. UnderWay(r)
      BY <2>2, EndChanges DEF UnderWay
    <3>2. \A q \in Downloads \ {r} : HadTemp(q)' =>
            pc'[q] \notin {"writing", "written", "opened", "copying", "copied"}
      BY <1>2, <3>1, OnlyOneMoves
    <3>3. QED
      BY <1>2, <3>2 DEF TempHasBody, DestHasBody, Ends
  <2>3. QED
    BY <2>1, <2>2
<1>8. ASSUME NEW p \in {Dest[q] : q \in Downloads} \ {Temp}
      PROVE  Accounted(p)'
  <2>1. Accounted(p) /\ p \in Paths
    BY DownloadAssumption DEF DownloadInv, PartsAccounted
  <2>2. CASE file'[p] = NoFile
    BY <2>2 DEF Accounted
  <2>3. CASE file'[p] # NoFile
    <3>1. file'[p] = file[p]
      BY <1>3, <2>1, <2>3
    <3>2. pc[r] = "copying" /\ Dest[r] = p => pc'[r] = "killed"
      BY <2>1, <2>3, EndChanges DEF Unlink, DownloadInv, DownloadTypeOK
    <3>3. QED
      BY <1>2, <2>1, <3>1, <3>2, EndChanges, AccountStays DEF Ends
  <2>4. QED
    BY <2>2, <2>3
<1>9. QED
  BY <1>1, <1>5, <1>6, <1>7, <1>8 DEF DownloadInv, PartsAccounted

LEMMA DownloadInvNext ==
  ASSUME DownloadInv, [DownloadNext]_downloadVars
  PROVE  DownloadInv'
<1>1. CASE UNCHANGED downloadVars
  <2>1. DownloadTypeOK'
    BY DownloadTypeNext DEF DownloadInv
  <2>2. /\ OthersMet' /\ NamesApart' /\ WritesToItsFile'
        /\ TempHasBody' /\ DestHasBody'
    BY <1>1
       DEF downloadVars, DownloadInv, OthersMet, NamesApart, WritesToItsFile,
           TempHasBody, DestHasBody, UnderWay, HadTemp, Holds
  <2>3. PartsAccounted'
    BY <1>1 DEF downloadVars, DownloadInv, PartsAccounted, Accounted, Holds
  <2>4. QED
    BY <2>1, <2>2, <2>3 DEF DownloadInv
<1>2. QED
  BY <1>1, FetchStep, CreateTempStep, OpenSourceStep, OpenDestStep,
     WriteBlockStep, CloseStep, EndStep DEF DownloadNext

(* Theorems                                                                *)

(* The variables keep their types, and a run has files open at the stages  *)
(* that use them and at no other, whatever the answers are and however     *)
(* runs overlap (download.go:148-206).                                     *)
THEOREM DownloadTypeCorrect == DownloadSpec => []DownloadTypeOK
<1>1. DownloadInv => DownloadTypeOK
  BY DEF DownloadInv
<1>2. QED
  BY DownloadInvInit, DownloadInvNext, <1>1, PTL DEF DownloadSpec

(* A run that met no other and was not told to download to the temporary   *)
(* directory says "Download completed" only when its destination holds     *)
(* what it was answered, after any runs before it, each of which may have  *)
(* failed, met others or been killed anywhere (download.go:70-107).        *)
THEOREM CompletedInstallsAlways == DownloadSpec => CompletedInstalls
<1>. DEFINE Installs ==
       \A r \in Downloads :
         /\ pc'[r] = "completed" /\ pc[r] # "completed"
         /\ HadTemp(r)
         => Holds(Dest[r], body[r])'
<1>1. ASSUME DownloadInv, NEW r \in Downloads, RemoveTemp(r), pc[r] = "copied",
             HadTemp(r)
      PROVE  Holds(Dest[r], body[r])'
  <2>1. Holds(Dest[r], body[r])
    BY <1>1 DEF DownloadInv, DestHasBody
  <2>2. /\ UNCHANGED <<body, data>>
        /\ file'[Dest[r]] = file[Dest[r]]
    BY <1>1, DownloadAssumption
       DEF RemoveTemp, Unlink, HadTemp, DownloadInv, DownloadTypeOK
  <2>3. QED
    BY <2>1, <2>2 DEF Holds
<1>2. ASSUME DownloadInv, [DownloadNext]_downloadVars,
             NEW r \in Downloads, pc'[r] = "completed", pc[r] # "completed"
      PROVE  RemoveTemp(r) /\ pc[r] = "copied"
  BY <1>2
     DEF DownloadInv, DownloadTypeOK, Ends, DownloadNext, downloadVars, Fetch,
         CreateTemp, OpenSource, OpenDest, WriteBlock, Close, CopyFails,
         RemoveTemp, Fail, Kill, Exit, Goto
<1>3. DownloadInv /\ [DownloadNext]_downloadVars => [Installs]_downloadVars
  BY <1>1, <1>2
<1>4. QED
  BY DownloadInvInit, DownloadInvNext, <1>3, PTL
     DEF DownloadSpec, CompletedInstalls

(* However runs overlap, and at whatever block one of them fails, between  *)
(* runs a destination is missing or holds all of what a run to it was      *)
(* answered, unless a run to that very destination was killed or met       *)
(* another (download.go:182-192).                                          *)
THEOREM NoPartOfAnswerAlways == DownloadSpec => []NoPartOfAnswer
<1>1. DownloadInv => NoPartOfAnswer
  BY DEF DownloadInv, PartsAccounted, Accounted, NoPartOfAnswer, UnderWay, Ends
<1>2. QED
  BY DownloadInvInit, DownloadInvNext, <1>1, PTL DEF DownloadSpec

=============================================================================
