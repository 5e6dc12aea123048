------------------------------ MODULE Startup ------------------------------
(***************************************************************************)
(* How the server starts: main.go makes the clients of the local and the   *)
(* remote clusters, Run of controller.go starts the service watcher, the   *)
(* informers of kube/client.go and the workers, one step after the other,  *)
(* and remote clusters are watched by goroutines that retry                *)
(* (backoff/retry.go).  Workers read through the clients at any time       *)
(* after, and the process may panic and be restarted.                      *)
(*                                                                         *)
(* A client holds informer factories.  The assignment of a remote client's *)
(* factory is not synchronised with the workers' reads: it is an interface *)
(* of two words, and a reader may see the first of them only.              *)
(***************************************************************************)
EXTENDS ServiceWatcher, Backoff

CONSTANTS
  Local,        \* the local cluster
  Remotes,      \* the remote clusters of the configuration
  Configs,      \* what the file may say: the fields given for each remote
  RetryConfig,  \* the backoff that RetryWatch uses
  MaxAttempts,  \* bound: retries of a watch
  MaxRaces      \* bound: reads of a factory while it is being assigned

ASSUME StartupAssumption ==
  /\ Local \notin Remotes
  /\ Configs \subseteq [Remotes -> SUBSET {"kubeConfigPath", "apiURL", "caURL", "saTokenPath"}]
  /\ RetryConfig.Min \in Nat \ {0} /\ RetryConfig.Max \in Nat
  /\ RetryConfig.Min < RetryConfig.Max /\ RetryConfig.Jitter
  /\ MaxAttempts \in Nat /\ MaxRaces \in Nat

Clusters == {Local} \cup Remotes
Types == {"XdsServices", "Services", "EndpointSlices"}

VARIABLES
  main,       \* where the goroutine of main is
  config,     \* the clusters configuration
  localhost,  \* the flag localhost-endpoints
  reachable,  \* the clusters whose API answers
  stopped,    \* stopCh of Run is closed
  crd,        \* crd[c]: factoryCRD of the client of c
  kube,       \* kube[c]: factoryKube of the client of c
  retry,      \* retry[r]: the goroutine that watches the remote r
  made,       \* made[r]: factories that were made for r
  queues,     \* the goroutines of the queues run
  work,       \* the clusters whose informers' keys are in queues
  races

clientVars == <<crd, kube, retry, made>>
envVars == <<config, localhost, reachable>>
vars == <<svcVars, main, envVars, stopped, clientVars, queues, work, races>>

(* A factory as its readers see it: "torn" while only one word is assigned *)
NilFactory == [ptr |-> "nil", informers |-> {}, started |-> {}, synced |-> {}]
FactoryOf(types) == [ptr |-> "set", informers |-> types, started |-> {}, synced |-> {}]

(* InformerFor and Start of a factory, the first as called by Informer and Lister *)
InformerFor(factory, types) == [factory EXCEPT !.informers = @ \cup types]
StartInformers(factory) == [factory EXCEPT !.started = @ \cup factory.informers]

NoRetry == [pc |-> "none", attempt |-> 0, delay |-> 0]

Init ==
  /\ WatcherInit
  /\ main = "clients"
  /\ stopped = FALSE
  /\ crd = [c \in Clusters |-> NilFactory]
  /\ kube = [c \in Clusters |-> NilFactory]
  /\ retry = [r \in Remotes |-> NoRetry]
  /\ made = [r \in Remotes |-> 0]
  /\ queues = FALSE
  /\ work = {}
  /\ config \in Configs
  /\ localhost \in BOOLEAN
  /\ reachable \in SUBSET Clusters
  /\ races = 0

Running == ~crashed /\ main # "exited"

-----------------------------------------------------------------------------
(* The goroutine of main *)

(* parseConfig: a kubeconfig for each remote, or all of the other fields *)
parseConfig ==
  \A r \in Remotes :
    "kubeConfigPath" \in config[r] \/ {"apiURL", "caURL", "saTokenPath"} \subseteq config[r]

(* createClientsFromConfig: without a client for every cluster, main exits *)
CreateClients ==
  /\ main = "clients"
  /\ \/ main' = "exited"
     \/ parseConfig /\ main' = IF localhost THEN "listen" ELSE "controller"
  /\ UNCHANGED <<svcVars, envVars, stopped, clientVars, queues, work, races>>

(* Run: the service watcher gets a goroutine of its own *)
StartWatcher ==
  /\ main = "controller"
  /\ main' = "waitWatcher"
  /\ RunWatcher
  /\ UNCHANGED <<envVars, stopped, clientVars, queues, work, races>>

(* WaitForNamedCacheSync.  If it fails, Run returns an error that main ignores *)
WaitWatcher ==
  /\ main = "waitWatcher"
  /\ \/ HasSynced /\ main' = "watchAll"
     \/ stopped /\ main' = "listen"
  /\ UNCHANGED <<svcVars, envVars, stopped, clientVars, queues, work, races>>

(* Mutant of WatchAll: the informer of Services is left to the first reader *)
WatchAllWithoutServices ==
  /\ main = "watchAll"
  /\ main' = "waitCRD"
  /\ crd' = [crd EXCEPT ![Local] = StartInformers(FactoryOf({"XdsServices"}))]
  /\ kube' = [kube EXCEPT ![Local] = StartInformers(FactoryOf({"EndpointSlices"}))]
  /\ UNCHANGED <<svcVars, envVars, stopped, retry, made, queues, work, races>>

(* WatchAll: informers are created, and only then the factories started *)
WatchAll ==
  /\ main = "watchAll"
  /\ main' = "waitCRD"
  /\ crd' = [crd EXCEPT ![Local] = StartInformers(FactoryOf({"XdsServices"}))]
  /\ kube' = [kube EXCEPT ![Local] = StartInformers(FactoryOf({"EndpointSlices", "Services"}))]
  /\ UNCHANGED <<svcVars, envVars, stopped, retry, made, queues, work, races>>

(* The informers of a factory that were started have their first list *)
WaitForCacheSync(factory) == factory.started \subseteq factory.synced

(* WatchAll waits for both factories; its error is dropped by Run *)
WaitCRD ==
  /\ main = "waitCRD"
  /\ \/ WaitForCacheSync(crd[Local]) /\ main' = "waitKube"
     \/ stopped /\ main' = "remotes"
  /\ UNCHANGED <<svcVars, envVars, stopped, clientVars, queues, work, races>>

(* Mutant of WaitKube: only the factory of XdsServices is waited for *)
WaitKubeNever ==
  /\ main = "waitKube"
  /\ main' = "remotes"
  /\ UNCHANGED <<svcVars, envVars, stopped, clientVars, queues, work, races>>

WaitKube ==
  /\ main = "waitKube"
  /\ WaitForCacheSync(kube[Local]) \/ stopped
  /\ main' = "remotes"
  /\ UNCHANGED <<svcVars, envVars, stopped, clientVars, queues, work, races>>

(* Mutant of StartRemotes: main waits for the remotes *)
StartRemotesInTurn ==
  /\ main = "remotes"
  /\ retry' = [r \in Remotes |-> IF retry[r].pc = "none" THEN [retry[r] EXCEPT !.pc = "op"] ELSE retry[r]]
  /\ main' = IF \A r \in Remotes : retry[r].pc = "done" THEN "queues" ELSE "remotes"
  /\ UNCHANGED <<svcVars, envVars, stopped, crd, kube, made, queues, work, races>>

(* Mutant of StartRemotes: no goroutine is started *)
StartRemotesNever ==
  /\ main = "remotes"
  /\ main' = "queues"
  /\ UNCHANGED <<svcVars, envVars, stopped, clientVars, queues, work, races>>

(* Each remote is watched by a goroutine of its own (RetryWatch) *)
StartRemotes ==
  /\ main = "remotes"
  /\ main' = "queues"
  /\ retry' = [r \in Remotes |-> [retry[r] EXCEPT !.pc = "op"]]
  /\ UNCHANGED <<svcVars, envVars, stopped, crd, kube, made, queues, work, races>>

StartQueues ==
  /\ main = "queues"
  /\ main' = "listen"
  /\ queues' = TRUE
  /\ UNCHANGED <<svcVars, envVars, stopped, clientVars, work, races>>

(* ListenAndServe returns only when the port is not free; then main ends *)
Listen ==
  /\ main = "listen"
  /\ main' \in {"serving", "exited"}
  /\ UNCHANGED <<svcVars, envVars, stopped, clientVars, queues, work, races>>

MainStep ==
  \/ CreateClients \/ StartWatcher \/ WaitWatcher \/ WatchAll \/ WaitCRD \/ WaitKube
  \/ StartRemotes \/ StartQueues \/ Listen

-----------------------------------------------------------------------------
(* The goroutine of a remote: RetryWithBackoff of WatchEndpointSlices *)

SetRetry(r, pc) == retry' = [retry EXCEPT ![r].pc = pc]

(* A new factory is made, and the first of two words assigned, or the only one that differs *)
MakeFactory(r) ==
  /\ retry[r].pc = "op"
  /\ made' = [made EXCEPT ![r] = @ + 1]
  /\ IF kube[r].ptr = "nil"
     THEN kube' = [kube EXCEPT ![r].ptr = "torn"] /\ SetRetry(r, "assign")
     ELSE kube' = [kube EXCEPT ![r] = FactoryOf({"EndpointSlices"})] /\ SetRetry(r, "start")
  /\ UNCHANGED <<svcVars, main, envVars, stopped, crd, queues, work, races>>

AssignFactory(r) ==
  /\ retry[r].pc = "assign"
  /\ kube' = [kube EXCEPT ![r] = FactoryOf({"EndpointSlices"})]
  /\ SetRetry(r, "start")
  /\ UNCHANGED <<svcVars, main, envVars, stopped, crd, made, queues, work, races>>

StartFactory(r) ==
  /\ retry[r].pc = "start"
  /\ kube' = [kube EXCEPT ![r] = StartInformers(@)]
  /\ SetRetry(r, "wait")
  /\ UNCHANGED <<svcVars, main, envVars, stopped, crd, made, queues, work, races>>

(* Mutant of WatchReturns: the loop goes on after a success *)
WatchReturnsAgain(r) ==
  /\ retry[r].pc = "wait"
  /\ WaitForCacheSync(kube[r]) \/ stopped
  /\ \E d \in ForAttempt(RetryConfig, retry[r].attempt) :
       retry' = [retry EXCEPT ![r] = [pc |-> "sleep", attempt |-> @.attempt + 1, delay |-> d]]
  /\ UNCHANGED <<svcVars, main, envVars, stopped, crd, kube, made, queues, work, races>>

(* The operation succeeds, or fails because of stopCh and is put off *)
WatchReturns(r) ==
  /\ retry[r].pc = "wait"
  /\ \/ WaitForCacheSync(kube[r]) /\ SetRetry(r, "done")
     \/ /\ stopped
        /\ \E d \in ForAttempt(RetryConfig, retry[r].attempt) :
             retry' = [retry EXCEPT ![r] = [pc |-> "sleep", attempt |-> @.attempt + 1, delay |-> d]]
  /\ UNCHANGED <<svcVars, main, envVars, stopped, crd, kube, made, queues, work, races>>

Wake(r) ==
  /\ retry[r].pc = "sleep"
  /\ retry[r].attempt < MaxAttempts
  /\ SetRetry(r, "op")
  /\ UNCHANGED <<svcVars, main, envVars, stopped, crd, kube, made, queues, work, races>>

RetryStep(r) ==
  MakeFactory(r) \/ AssignFactory(r) \/ StartFactory(r) \/ WatchReturns(r) \/ Wake(r)

-----------------------------------------------------------------------------
(* The workers *)

(* A lister makes its informer if there is none, but starts nothing *)
Read(factory, types) ==
  IF factory.ptr = "set" THEN InformerFor(factory, types) ELSE factory

(* Mutant of Unreadable: the factory of a remote is not compared with nil *)
UnreadableNil(c) == kube[c].ptr \in {"nil", "torn"}

(***************************************************************************)
(* A read through the client of c panics: of the local one if it has no    *)
(* factories yet, of a remote one, which compares with nil, if it takes    *)
(* half of an interface for the whole.                                     *)
(***************************************************************************)
Unreadable(c) ==
  IF c = Local THEN crd[c].ptr = "nil" \/ kube[c].ptr = "nil" ELSE kube[c].ptr = "torn"

(***************************************************************************)
(* A reconciliation reads through all clients; through the remote ones,    *)
(* for an XdsService that enables remote endpoints, taken to exist.        *)
(***************************************************************************)
ReadClients ==
  IF \E c \in Clusters : Unreadable(c)
  THEN /\ crashed' = TRUE
       /\ IF \E r \in Remotes : kube[r].ptr = "torn"
          THEN races < MaxRaces /\ races' = races + 1
          ELSE UNCHANGED races
       /\ UNCHANGED <<crd, kube>>
  ELSE /\ crd' = [crd EXCEPT ![Local] = Read(@, {"XdsServices"})]
       /\ kube' = [c \in Clusters |->
                     Read(kube[c], IF c = Local THEN {"Services", "EndpointSlices"} ELSE {"EndpointSlices"})]
       /\ UNCHANGED <<crashed, races>>

(* Mutant of ReconcileService: the worker waits for the remotes' first lists *)
ReconcileServiceWaits(s) ==
  /\ queues
  /\ \A r \in Remotes : "EndpointSlices" \in kube[r].synced
  /\ ListStore(s)
  /\ ReadClients
  /\ UNCHANGED <<api, watcherVars, changes, breaks, main, envVars, stopped, retry, made, queues, work>>

(* The worker of the service queue lists the labelled Services, too *)
ReconcileService(s) ==
  /\ queues
  /\ ListStore(s)
  /\ ReadClients
  /\ UNCHANGED <<api, watcherVars, changes, breaks, main, envVars, stopped, retry, made, queues, work>>

(* The worker of the queue that holds keys of the cluster q *)
Reconcile(q) ==
  /\ queues
  /\ q \in work
  /\ work' = work \ {q}
  /\ ReadClients
  /\ UNCHANGED <<api, watcherVars, owed, seen, changes, breaks, main, envVars, stopped, retry, made, queues>>

-----------------------------------------------------------------------------
(* The clusters, the informers and the platform *)

Reach(c) ==
  /\ c \notin reachable
  /\ reachable' = reachable \cup {c}
  /\ UNCHANGED <<svcVars, main, config, localhost, stopped, clientVars, queues, work, races>>

(* No code closes stopCh; but much of it has a branch for that *)
CloseStopCh ==
  /\ main \notin {"clients", "controller"}
  /\ ~localhost
  /\ ~stopped
  /\ stopped' = TRUE
  /\ UNCHANGED <<svcVars, main, envVars, clientVars, queues, work, races>>

(* A started informer gets its first list, and its handler adds keys *)
SyncCRD ==
  /\ Local \in reachable /\ ~stopped
  /\ crd[Local].started # crd[Local].synced
  /\ crd' = [crd EXCEPT ![Local].synced = crd[Local].started]
  /\ work' = work \cup {Local}
  /\ UNCHANGED <<svcVars, main, envVars, stopped, kube, retry, made, queues, races>>

SyncKube(c, type) ==
  /\ c \in reachable /\ ~stopped
  /\ type \in kube[c].started \ kube[c].synced
  /\ kube' = [kube EXCEPT ![c].synced = @ \cup {type}]
  /\ work' = IF type = "Services" THEN work ELSE work \cup {c}
  /\ UNCHANGED <<svcVars, main, envVars, stopped, crd, retry, made, queues, races>>

WatcherStep ==
  /\ watch = "list" => Local \in reachable
  /\ InformerStep
  /\ UNCHANGED <<main, envVars, stopped, clientVars, queues, work, races>>

ClusterStep ==
  /\ WatchBreaks \/ \E s \in Svcs, v \in Values \cup {Absent} : ApiChange(s, v)
  /\ UNCHANGED <<main, envVars, stopped, clientVars, queues, work, races>>

(* Kubernetes starts the container again *)
Restart ==
  /\ ~Running
  /\ WatcherRestart
  /\ main' = "clients"
  /\ stopped' = FALSE
  /\ crd' = [c \in Clusters |-> NilFactory]
  /\ kube' = [c \in Clusters |-> NilFactory]
  /\ retry' = [r \in Remotes |-> NoRetry]
  /\ made' = [r \in Remotes |-> 0]
  /\ queues' = FALSE
  /\ work' = {}
  /\ UNCHANGED <<envVars, races>>

Next ==
  \/ Running /\ \/ MainStep
                \/ \E r \in Remotes : RetryStep(r)
                \/ \E s \in Svcs : ReconcileService(s)
                \/ \E q \in work : Reconcile(q)
                \/ \E c \in Clusters : Reach(c) \/ \E type \in Types : SyncKube(c, type)
                \/ CloseStopCh
                \/ SyncCRD
                \/ WatcherStep
                \/ ClusterStep
  \/ Restart

Spec == Init /\ [][Next]_vars

(***************************************************************************)
(* Main, the goroutines of remotes, of the service watcher and of its      *)
(* queue go on, as the Go scheduler sees to, and informers of a cluster    *)
(* that answers get their lists.  That a cluster becomes reachable, that   *)
(* watches break or objects change is never assumed.                       *)
(***************************************************************************)
Fairness ==
  /\ WF_vars(Running /\ MainStep)
  /\ \A r \in Remotes : WF_vars(Running /\ RetryStep(r))
  /\ \A s \in Svcs : WF_vars(Running /\ ReconcileService(s))
  /\ WF_vars(Running /\ SyncCRD)
  /\ \A c \in Clusters : WF_vars(Running /\ \E type \in Types : SyncKube(c, type))
  /\ WF_vars(Running /\ WatcherStep)
  /\ WF_vars(Restart)

FairSpec == Spec /\ Fairness

-----------------------------------------------------------------------------
(* Properties *)

(***************************************************************************)
(* Reads through the clients and the handler of the service watcher panic  *)
(* for two reasons only: over the tombstone of a labelled Service, for     *)
(* which a watch must have been broken, and over a remote's factory that   *)
(* is just being assigned.  In particular no worker reads through the      *)
(* local client before WatchAll has set its factories, on none of the      *)
(* paths by which Run and WatchAll give up early.  Panics elsewhere, over  *)
(* nil pointers of a slice (endpoints.go) or a delta request of a type     *)
(* that has no linear cache (snapshotter.go), are not in this module.      *)
(***************************************************************************)
PanicsAreTheKnownOnes == crashed => breaks > 0 \/ races > 0

(***************************************************************************)
(* No reader gets a lister whose informer was made after its factory had   *)
(* been started, and that stays empty for ever (InformerFor and Start).    *)
(***************************************************************************)
ListersAreFed ==
  /\ queues => /\ crd[Local].informers = crd[Local].started
               /\ kube[Local].informers = kube[Local].started
  /\ \A r \in Remotes :
       retry[r].pc \in {"wait", "done", "sleep"} => kube[r].informers = kube[r].started

(***************************************************************************)
(* The server listens only after the service watcher and all informers of  *)
(* the local cluster have had their first list, and with the workers       *)
(* running, so that it does not replace the clients' configuration by an   *)
(* empty one; localhost mode and a closed stopCh are the exceptions.       *)
(***************************************************************************)
ServesAfterFirstLists ==
  main \in {"listen", "serving"} /\ ~localhost /\ ~stopped =>
    /\ queues /\ HasSynced
    /\ crd[Local].synced = {"XdsServices"}
    /\ kube[Local].synced = {"Services", "EndpointSlices"}

(***************************************************************************)
(* A remote cluster has one factory, unless stopCh is closed: each further *)
(* one would leave the informers of the one before running, with handlers  *)
(* on the same queue (RetryWithBackoff, WatchEndpointSlices).              *)
(***************************************************************************)
OneFactoryPerRemote == ~stopped => \A r \in Remotes : made[r] <= 1

(* Sleeps between retries are within the bounds given (ForAttempt). *)
DelaysInBounds ==
  \A r \in Remotes : retry[r].pc = "sleep" => retry[r].delay \in RetryConfig.Min..RetryConfig.Max

(***************************************************************************)
(* A remote cluster that does not answer keeps nothing waiting: if the     *)
(* local one answers, the server listens or main gives up its port ("Do    *)
(* not block if a remote client is not able to start watching              *)
(* EndpointSlices", Run).                                                  *)
(***************************************************************************)
RemotesDoNotBlock ==
  main = "controller" /\ Local \in reachable ~> main \in {"serving", "exited"} \/ crashed

(***************************************************************************)
(* A remote cluster that answers is watched in the end, however late it    *)
(* begins to, if the process lives and stopCh is open (RetryWatch).        *)
(***************************************************************************)
RemotesAreWatched ==
  \A r \in Remotes :
    main = "serving" /\ ~localhost /\ r \in reachable ~>
      "EndpointSlices" \in kube[r].synced \/ stopped \/ crashed

(***************************************************************************)
(* If the process is at last left to serve, the last reconciliation has    *)
(* listed the labelled Services as they are in the cluster, in spite of    *)
(* broken watches, missed deletions, panics and restarts before.           *)
(***************************************************************************)
WatcherCatchesUp ==
  ~localhost /\ []~stopped /\ <>[](main = "serving") => <>[](seen = api)

=============================================================================
