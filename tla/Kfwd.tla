-------------------------------- MODULE Kfwd --------------------------------
(***************************************************************************)
(* `inletsctl kfwd` (cmd/kfwd.go): several runs on one machine, each with  *)
(* its main goroutine, the goroutine that waits for a signal, and the      *)
(* children they start: kubectl and the inlets-pro server.                 *)
(*                                                                         *)
(* The runs share the temporary directory, the cluster and the machine's   *)
(* ports.  fwdTCP and the HTTP half of runKfwd go through the same steps;  *)
(* the mode is part of the name of the client deployment.                  *)
(*                                                                         *)
(* A manifest is represented by the run that wrote it: the name, the       *)
(* namespace, the token and the address in it are that run's.              *)
(***************************************************************************)
CONSTANTS
  Kfwds,      \* the runs of `inletsctl kfwd`
  Clients,    \* names of client deployments: mode, service and namespace
  Upstreams,  \* the services named before the ":" of --from
  Service,    \* the service in the name of each client deployment
  Nobody      \* no run

ASSUME KfwdAssumption ==
  /\ Service \in [Clients -> Upstreams]
  /\ Nobody \notin Kfwds

VARIABLES
  client,   \* the deployment that the flags of each run name
  main,     \* where the main goroutine of each run is
  handler,  \* where the signal goroutine of each run is
  sig,      \* whether the channel `sig` of each run holds a signal
  server,   \* the inlets-pro server each run has started
  tmpFile,  \* the manifest in the temporary file of each service
  cluster,  \* the manifest each client deployment was made from
  pressed   \* history: where the run was at the first Control+C

kfwdVars == <<client, main, handler, sig, server, tmpFile, cluster, pressed>>

KfwdTypeOK ==
  /\ client \in [Kfwds -> Clients]
  /\ main \in [Kfwds -> {"args", "written", "applied", "listening", "serving",
                         "exited"}]
  /\ handler \in [Kfwds -> {"none", "starting", "waiting", "deleting", "done"}]
  /\ sig \in [Kfwds -> BOOLEAN]
  /\ server \in [Kfwds -> {"none", "up", "dead"}]
  /\ tmpFile \in [Upstreams -> Kfwds \cup {Nobody}]
  /\ cluster \in [Clients -> Kfwds \cup {Nobody}]
  /\ pressed \in [Kfwds -> {"no", "listening", "serving"}]
  /\ \A k \in Kfwds : main[k] \in {"args", "written", "applied"} =>
       handler[k] = "none" /\ server[k] = "none" /\ pressed[k] = "no"

KfwdInit ==
  /\ client \in [Kfwds -> Clients]
  /\ main = [k \in Kfwds |-> "args"]
  /\ handler = [k \in Kfwds |-> "none"]
  /\ sig = [k \in Kfwds |-> FALSE]
  /\ server = [k \in Kfwds |-> "none"]
  /\ tmpFile = [u \in Upstreams |-> Nobody]
  /\ cluster = [t \in Clients |-> Nobody]
  /\ pressed = [k \in Kfwds |-> "no"]

KfwdGoto(k, label) == main' = [main EXCEPT ![k] = label]

(* The process ends and its goroutines with it.  Its children go on: a     *)
(* kubectl delete that was started is not waited for, and not stopped.     *)
KfwdExit(k) ==
  /\ KfwdGoto(k, "exited")
  /\ handler' = [handler EXCEPT ![k] = IF @ = "deleting" THEN @ ELSE "none"]

(* inlets-pro listens on port 8123 in both modes.                          *)
PortFree == \A k \in Kfwds : server[k] # "up"

Upstream(k) == Service[client[k]]

(* Mutant: one temporary file for all services.                            *)
TmpPathForAll(k) == CHOOSE u \in Upstreams : TRUE

(* The temporary file of a run is named after the service alone.           *)
TmpPath(k) == Upstream(k)

(* The run whose manifest kubectl finds in the file of run k.              *)
Manifest(k) == tmpFile[TmpPath(k)]

----------------------------------------------------------------------------
(* The main goroutine                                                      *)

(* A flag is missing, or one of the steps before the server fails.  When   *)
(* kubectl apply fails nothing is removed from the cluster.                *)
KfwdFail(k) ==
  /\ main[k] \in {"args", "written"}
  /\ KfwdExit(k)
  /\ UNCHANGED <<client, sig, server, tmpFile, cluster, pressed>>

(* Mutant: the goroutine is started before kubectl apply.                  *)
WriteFileAndListen(k) ==
  /\ main[k] = "args"
  /\ tmpFile' = [tmpFile EXCEPT ![TmpPath(k)] = k]
  /\ handler' = [handler EXCEPT ![k] = "starting"]
  /\ KfwdGoto(k, "written")
  /\ UNCHANGED <<client, sig, server, cluster, pressed>>

WriteFile(k) ==
  /\ main[k] = "args"
  /\ tmpFile' = [tmpFile EXCEPT ![TmpPath(k)] = k]
  /\ KfwdGoto(k, "written")
  /\ UNCHANGED <<client, handler, sig, server, cluster, pressed>>

(* kubectl apply takes effect, whether or not it then reports success.     *)
KubectlApply(k) ==
  /\ main[k] = "written"
  /\ cluster' = [cluster EXCEPT ![client[Manifest(k)]] = Manifest(k)]
  /\ \/ KfwdGoto(k, "applied") /\ UNCHANGED handler
     \/ KfwdExit(k)
  /\ UNCHANGED <<client, sig, server, tmpFile, pressed>>

(* go func() { ... }, then "Hit Control+C to cancel."                      *)
Listen(k) ==
  /\ main[k] = "applied"
  /\ handler' = [handler EXCEPT ![k] = "starting"]
  /\ KfwdGoto(k, "listening")
  /\ UNCHANGED <<client, sig, server, tmpFile, cluster, pressed>>

StartServer(k) ==
  /\ main[k] = "listening"
  /\ PortFree
  /\ server' = [server EXCEPT ![k] = "up"]
  /\ KfwdGoto(k, "serving")
  /\ UNCHANGED <<client, handler, sig, tmpFile, cluster, pressed>>

(* inlets-pro is not installed, or its port is taken.                      *)
ServerFails(k) ==
  /\ main[k] = "listening"
  /\ KfwdExit(k)
  /\ UNCHANGED <<client, sig, server, tmpFile, cluster, pressed>>

(* The server has ended, and so does the run, with or without an error.    *)
ServerReturns(k) ==
  /\ main[k] = "serving"
  /\ server[k] = "dead"
  /\ KfwdExit(k)
  /\ UNCHANGED <<client, sig, server, tmpFile, cluster, pressed>>

MainStep(k) ==
  \/ KfwdFail(k) \/ WriteFile(k) \/ KubectlApply(k) \/ Listen(k)
  \/ StartServer(k) \/ ServerFails(k) \/ ServerReturns(k)

----------------------------------------------------------------------------
(* The signal goroutine                                                    *)

(* signal.Notify: from here on a signal no longer kills the process.       *)
Notify(k) ==
  /\ handler[k] = "starting"
  /\ handler' = [handler EXCEPT ![k] = "waiting"]
  /\ UNCHANGED <<client, main, sig, server, tmpFile, cluster, pressed>>

(* <-sig, once; kubectl delete is started.                                 *)
Wake(k) ==
  /\ handler[k] = "waiting"
  /\ sig[k]
  /\ sig' = [sig EXCEPT ![k] = FALSE]
  /\ handler' = [handler EXCEPT ![k] = "deleting"]
  /\ UNCHANGED <<client, main, server, tmpFile, cluster, pressed>>

(* kubectl delete removes what the file names by now, or fails.            *)
KubectlDelete(k) ==
  /\ handler[k] = "deleting"
  /\ handler' = [handler EXCEPT ![k] = "done"]
  /\ \/ cluster' = [cluster EXCEPT ![client[Manifest(k)]] = Nobody]
     \/ UNCHANGED cluster
  /\ UNCHANGED <<client, main, sig, server, tmpFile, pressed>>

HandlerStep(k) == Notify(k) \/ Wake(k) \/ KubectlDelete(k)

----------------------------------------------------------------------------
(* Signals and the server                                                  *)

Notified(k) == handler[k] \in {"waiting", "deleting", "done"}

(* What a signal does to inletsctl itself: it is put in the channel, where *)
(* there is room for one, or kills the process while nobody has asked for  *)
(* it.  Once the goroutine has had its signal nothing reads the channel.   *)
Deliver(k) ==
  \/ /\ ~Notified(k)
     /\ KfwdExit(k)
     /\ UNCHANGED sig
  \/ /\ Notified(k)
     /\ sig' = [sig EXCEPT ![k] = TRUE]
     /\ UNCHANGED main

(* Control+C also ends a kubectl delete, and the time of the first one     *)
(* after "Hit Control+C to cancel." is kept.                               *)
CtrlCToInletsctl(k) ==
  /\ main[k] # "exited"
  /\ Deliver(k)
  /\ Notified(k) =>
       handler' = [handler EXCEPT ![k] = IF @ = "deleting" THEN "done" ELSE @]
  /\ pressed' = [pressed EXCEPT ![k] =
       IF @ = "no" /\ main[k] \in {"listening", "serving"} THEN main[k] ELSE @]
  /\ UNCHANGED <<client, tmpFile, cluster>>

(* Mutant: the server is started in a process group of its own.            *)
CtrlCOwnGroup(k) == CtrlCToInletsctl(k) /\ UNCHANGED server

(* Control+C reaches the whole group: inletsctl, its server, its kubectl.  *)
CtrlC(k) ==
  /\ CtrlCToInletsctl(k)
  /\ server' = [server EXCEPT ![k] = IF @ = "up" THEN "dead" ELSE @]

(* SIGTERM reaches inletsctl alone.                                        *)
Terminate(k) ==
  /\ main[k] # "exited"
  /\ Deliver(k)
  /\ Notified(k) => UNCHANGED handler
  /\ UNCHANGED <<client, server, tmpFile, cluster, pressed>>

(* The server ends by itself.                                              *)
ServerDies(k) ==
  /\ server[k] = "up"
  /\ server' = [server EXCEPT ![k] = "dead"]
  /\ UNCHANGED <<client, main, handler, sig, tmpFile, cluster, pressed>>

KfwdNext ==
  \E k \in Kfwds :
    \/ MainStep(k) \/ HandlerStep(k)
    \/ CtrlC(k) \/ Terminate(k) \/ ServerDies(k)

(* Goroutines and children are scheduled, and kubectl answers.  Nothing    *)
(* obliges a server to end or a user to press a key.                       *)
KfwdFairness ==
  \A k \in Kfwds : WF_kfwdVars(MainStep(k)) /\ WF_kfwdVars(HandlerStep(k))

KfwdSpec == KfwdInit /\ [][KfwdNext]_kfwdVars /\ KfwdFairness

----------------------------------------------------------------------------
(* Properties                                                              *)

(* Every other run for a service of that name has yet to start.            *)
Alone(k) ==
  \A j \in Kfwds \ {k} : Upstream(j) = Upstream(k) => main[j] = "args"

(* While a run serves and nobody has asked it to stop, its client is in    *)
(* the cluster, made from its own manifest and so with its own token,      *)
(* until another run forwards a service of the same name: runs that        *)
(* forward others write, replace and clean up only what is theirs          *)
(* (kfwd.go:62-82, 95-99).  After that there is no such promise, for the   *)
(* file is named after the service alone.                                  *)
ServingHasOwnClient ==
  \A k \in Kfwds :
    /\ Alone(k)
    /\ main[k] = "serving"
    /\ handler[k] \in {"starting", "waiting"}
    /\ ~sig[k]
    => cluster[client[k]] = k

(* A run changes only deployments for the service it forwards, when it     *)
(* applies and when it cleans up, even after it has exited itself; which   *)
(* of them, of several modes and namespaces, is up to the run that wrote   *)
(* the file last (kfwd.go:62, 72, 97).                                     *)
TouchesOwnServiceOnly ==
  [][\A t \in Clients : cluster'[t] # cluster[t] =>
       \E j, k \in Kfwds :
         /\ client[j] = t /\ Upstream(j) = Upstream(k)
         /\ main'[k] # main[k] \/ handler'[k] # handler[k]]_kfwdVars

(* "inlets Pro client scheduled inside your cluster." (kfwd.go:82): when   *)
(* that line is printed, the cluster has the client of this run, or one of *)
(* the same name.  It does not hold: another run for a service of the same *)
(* name, in another namespace or mode, may have written over the file.     *)
ScheduledIsInCluster ==
  \A k \in Kfwds : main[k] = "applied" => cluster[client[k]] # Nobody

(* Control+C while the server is running ends the run: the server gets the *)
(* signal too, and main returns when the server does (kfwd.go:116-129).    *)
CancelWhileServingEnds ==
  \A k \in Kfwds : pressed[k] = "serving" ~> main[k] = "exited"

(* "Hit Control+C to cancel." (kfwd.go:116): once that line is out, a      *)
(* Control+C takes the client out of the cluster, unless kubectl fails:    *)
(* the goroutine of kfwd.go:86-110 is there for it.  It does not hold.     *)
CancelRemovesClient ==
  \A k \in Kfwds :
    pressed[k] # "no" ~> cluster[client[k]] # k \/ handler[k] = "done"

=============================================================================
