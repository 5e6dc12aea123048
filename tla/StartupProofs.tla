--------------------------- MODULE StartupProofs ----------------------------
(***************************************************************************)
(* The inductive invariant of Startup, that every goroutine keeps it, and  *)
(* what follows from it, for any Services, remote clusters and number of   *)
(* changes, broken watches, retries, panics and restarts.                  *)
(***************************************************************************)
EXTENDS Startup, TLAPS

(* Most leaves are first-order; those with arithmetic or nested EXCEPT cite SMT. *)
USE ZenonT(30), SMTT(30)

-----------------------------------------------------------------------------
(* The service watcher and main *)

(* Events of a watch; tombstones come from a list *)
Live == {e \in Event : e.type # "tombstone"}

WatcherType ==
  /\ watch \in {"off", "list", "watching", "broken"}
  /\ events \in Seq(Live)
  /\ fifo \in Seq(Event)
  /\ handling \in Event \cup {Absent}
  /\ api \in [Svcs -> Values \cup {Absent}]
  /\ store \in [Svcs -> Values \cup {Absent}]
  /\ seen \in [Svcs -> Values \cup {Absent}]
  /\ breaks \in Nat

(***************************************************************************)
(* Until a watch has been broken there is one list only, before which      *)
(* nothing is known, so that nothing can be missing on it.                 *)
(***************************************************************************)
FirstListInv ==
  /\ watch = "broken" => breaks > 0
  /\ breaks = 0 =>
       /\ fifo \in Seq(Live)
       /\ handling \in Live \cup {Absent}
       /\ watch \in {"off", "list"} => fifo = <<>> /\ store = NoServices

WatcherInv ==
  WatcherType /\ FirstListInv /\ GaugeCountsTheStore /\ EveryStoreChangeIsQueued

Factory == [ptr : {"nil", "torn", "set"}, informers : SUBSET Types,
            started : SUBSET Types, synced : SUBSET Types]

RetryState == [pc : {"none", "op", "assign", "start", "wait", "done", "sleep"},
               attempt : Nat, delay : 0..RetryConfig.Max]

(* The places in main before the remote watches, after WatchAll, ... *)
BeforeRemotes == {"clients", "controller", "waitWatcher", "watchAll", "waitCRD", "waitKube", "remotes"}
AfterWatchAll == {"waitCRD", "waitKube", "remotes", "queues"}
(* ... and after each of the three waits, if it was not given up *)
AfterWatcher == AfterWatchAll \cup {"watchAll", "listen", "serving"}
AfterCRD == AfterWatcher \ {"watchAll", "waitCRD"}
AfterKube == AfterCRD \ {"waitKube"}

ClientType ==
  /\ main \in BeforeRemotes \cup {"queues", "listen", "serving", "exited"}
  /\ crd \in [Clusters -> Factory]
  /\ kube \in [Clusters -> Factory]
  /\ retry \in [Remotes -> RetryState]
  /\ made \in [Remotes -> Nat]
  /\ races \in Nat

(* The local factories have their informers, all started *)
LocalInv ==
  main \in AfterWatchAll \/ queues =>
    /\ crd[Local].ptr = "set" /\ kube[Local].ptr = "set"
    /\ crd[Local].informers = {"XdsServices"} /\ crd[Local].started = {"XdsServices"}
    /\ kube[Local].informers = {"Services", "EndpointSlices"}
    /\ kube[Local].started = {"Services", "EndpointSlices"}
    /\ crd[Local].synced \subseteq crd[Local].started
    /\ kube[Local].synced \subseteq kube[Local].started

(* What main has waited for stays so *)
FirstListsInv ==
  ~localhost /\ ~stopped =>
    /\ main \in AfterWatcher => HasSynced
    /\ main \in AfterCRD => crd[Local].synced = {"XdsServices"}
    /\ main \in AfterKube => kube[Local].synced = {"Services", "EndpointSlices"}
    /\ main \in {"listen", "serving"} => queues

(* The goroutine of a remote and its factory *)
RemoteOK(r) ==
  /\ main \in BeforeRemotes => retry[r].pc = "none" /\ made[r] = 0
  /\ kube[r].ptr = "set" => kube[r].informers = {"EndpointSlices"} /\ kube[r].started \subseteq {"EndpointSlices"}
  /\ retry[r].pc \in {"start", "wait", "done", "sleep"} => kube[r].ptr = "set"
  /\ retry[r].pc \in {"wait", "done", "sleep"} => kube[r].informers = kube[r].started
  /\ retry[r].pc = "sleep" => retry[r].delay >= RetryConfig.Min
  /\ ~stopped => /\ retry[r].pc # "sleep"
                 /\ made[r] = IF retry[r].pc \in {"none", "op"} THEN 0 ELSE 1

RemoteInv == \A r \in Remotes : RemoteOK(r)

ClientInv == ClientType /\ LocalInv /\ FirstListsInv /\ RemoteInv

StartupInv == WatcherInv /\ ClientInv /\ PanicsAreTheKnownOnes

-----------------------------------------------------------------------------
(* The service watcher *)

(* Nothing is counted as nothing. *)
LEMMA CountEmpty == Cardinality({}) = 0
<1>. DEFINE Counts(f) == f = [T \in SUBSET {} |-> IF T = {} THEN 0 ELSE 1 + f[T \ {CHOOSE x : x \in T}]]
            CS == CHOOSE f : Counts(f)
<1>1. Cardinality({}) = CS[{}]
  BY DEF Cardinality
<1>2. Counts([T \in SUBSET {} |-> 0])
  OBVIOUS
<1>3. Counts(CS)
  BY <1>2
<1>. QED  BY <1>1, <1>3

(* A list in any order is a sequence of events of its Services. *)
LEMMA OrdersFact ==
  ASSUME NEW S \in SUBSET Svcs, NEW order \in Orders(S), NEW type \in {"set", "tombstone"},
         api \in [Svcs -> Values \cup {Absent}]
  PROVE  /\ EventsOf(type, order) \in Seq(Event)
         /\ type = "set" => EventsOf(type, order) \in Seq(Live)
         /\ S = {} => EventsOf(type, order) = <<>>
<1>1. PICK n \in Nat : order \in [1..n -> S]
  BY SMTT(30) DEF Orders
<1>2. S = {} => n = 0
  BY <1>1, SMTT(30)
<1>3. DOMAIN EventsOf(type, order) = 1..n
  BY <1>1 DEF EventsOf
<1>4. \A i \in 1..n : EventsOf(type, order)[i] \in Event
  BY <1>1 DEF EventsOf, Event
<1>5. \A i \in 1..n : EventsOf(type, order)[i].type = type
  BY <1>1 DEF EventsOf
<1>6. EventsOf(type, order) \in [1..n -> Event]
  BY <1>3, <1>4 DEF EventsOf
<1>7. type = "set" => EventsOf(type, order) \in [1..n -> Live]
  BY <1>3, <1>4, <1>5 DEF EventsOf, Live
<1>8. S = {} => EventsOf(type, order) = <<>>
  BY <1>2, <1>3, <1>6, SMTT(30)
<1>. QED  BY <1>1, <1>6, <1>7, <1>8, SMTT(30)

(* A list of the API server puts what changed into the queue of events. *)
LEMMA ListInv ==
  ASSUME WatcherInv, List
  PROVE  WatcherInv'
<1>. USE DEF WatcherInv
<1>1. /\ watch = "list" /\ watch' = "watching" /\ handling = Absent /\ events' = <<>>
      /\ UNCHANGED <<api, store, handling, gauge, owed, seen, breaks>>
  BY DEF List
<1>2. PICK listed \in Orders(Known(api)), gone \in Orders(Missed) :
        fifo' = fifo \o EventsOf("set", listed) \o EventsOf("tombstone", gone)
  BY DEF List
<1>3. Known(api) \in SUBSET Svcs /\ Missed \in SUBSET Svcs
  BY DEF Known, Missed
<1>4. /\ EventsOf("set", listed) \in Seq(Event) /\ EventsOf("set", listed) \in Seq(Live)
      /\ EventsOf("tombstone", gone) \in Seq(Event)
      /\ Missed = {} => EventsOf("tombstone", gone) = <<>>
  BY <1>3, OrdersFact DEF WatcherType
<1>5. fifo' \in Seq(Event)
  BY <1>2, <1>4, SMTT(30) DEF WatcherType
<1>6. breaks = 0 => Missed = {}
  <2>. SUFFICES ASSUME breaks = 0, NEW s \in Svcs  PROVE Latest(s) = Absent
    BY DEF Missed
  <2>1. fifo = <<>> /\ store[s] = Absent
    BY <1>1 DEF FirstListInv, NoServices
  <2>. QED  BY <2>1, SMTT(30) DEF Latest
<1>7. breaks = 0 => fifo' \in Seq(Live)
  BY <1>2, <1>4, <1>6, SMTT(30) DEF FirstListInv
<1>8. WatcherType' /\ FirstListInv'
  BY <1>1, <1>5, <1>7, SMTT(30) DEF WatcherType, FirstListInv
<1>. QED  BY <1>1, <1>8 DEF GaugeCountsTheStore, EveryStoreChangeIsQueued, Known

(* The informer takes an event into its store, and has yet to call the handler. *)
LEMMA PopInv ==
  ASSUME WatcherInv, Pop
  PROVE  WatcherInv'
<1>. USE DEF WatcherInv
<1>1. /\ watch # "off" /\ handling = Absent /\ fifo # <<>>
      /\ store' = [store EXCEPT ![Head(fifo).svc] = Head(fifo).value]
      /\ handling' = Head(fifo) /\ fifo' = Tail(fifo)
      /\ UNCHANGED <<api, watch, events, gauge, owed, seen, breaks>>
  BY DEF Pop
<1>2. Head(fifo) \in Event /\ Tail(fifo) \in Seq(Event)
  BY <1>1, SMTT(30) DEF WatcherType
<1>3. Head(fifo).svc \in Svcs /\ Head(fifo).value \in Values \cup {Absent}
  BY <1>2 DEF Event
<1>4. handling' # Absent
  BY <1>1, <1>2, WatcherAssumption
<1>5. breaks = 0 => Head(fifo) \in Live /\ Tail(fifo) \in Seq(Live) /\ watch \notin {"off", "list"}
  BY <1>1, SMTT(30) DEF FirstListInv
<1>6. WatcherType'
  BY <1>1, <1>2, <1>3 DEF WatcherType
<1>7. FirstListInv'
  BY <1>1, <1>5 DEF FirstListInv
<1>8. EveryStoreChangeIsQueued'
  BY <1>1, <1>3, <1>4 DEF EveryStoreChangeIsQueued, WatcherType
<1>. QED  BY <1>4, <1>6, <1>7, <1>8 DEF GaugeCountsTheStore

(***************************************************************************)
(* The handler counts the event and puts its key into the queue; it panics *)
(* only on a tombstone, which takes a watch that broke.                    *)
(***************************************************************************)
LEMMA HandleEventInv ==
  ASSUME WatcherInv, HandleEvent
  PROVE  WatcherInv' /\ (crashed' => crashed \/ breaks' > 0)
<1>. USE DEF WatcherInv
<1>1. handling # Absent /\ UNCHANGED <<api, watch, events, fifo, store, seen, breaks>>
  BY DEF HandleEvent
<1>2. CASE handling.type = "tombstone"
  <2>1. UNCHANGED <<handling, gauge, owed>> /\ breaks # 0
    BY <1>1, <1>2 DEF HandleEvent, FirstListInv, Live
  <2>. QED  BY <1>1, <2>1, SMTT(30)
            DEF WatcherType, FirstListInv, GaugeCountsTheStore, EveryStoreChangeIsQueued, Known
<1>3. CASE handling.type # "tombstone"
  <2>1. /\ gauge' = Cardinality(Known(store)) /\ owed' = owed \cup {handling.svc}
        /\ handling' = Absent /\ crashed' = crashed
    BY <1>1, <1>3 DEF HandleEvent, metricSetKubeWatcherObjects
  <2>2. WatcherType' /\ FirstListInv'
    BY <1>1, <2>1 DEF WatcherType, FirstListInv
  <2>3. GaugeCountsTheStore' /\ EveryStoreChangeIsQueued'
    BY <1>1, <2>1 DEF GaugeCountsTheStore, EveryStoreChangeIsQueued, Known
  <2>. QED  BY <2>1, <2>2, <2>3
<1>. QED  BY <1>2, <1>3

(* Steps that change neither the store nor what is derived from it. *)
LEMMA ReceiveInv ==
  ASSUME WatcherInv, Receive \/ WatchAgain \/ WatchBreaks \/ RunWatcher
  PROVE  WatcherInv'
<1>. USE DEF WatcherInv
<1>1. UNCHANGED <<api, store, handling, gauge, owed, seen>>
  BY DEF Receive, WatchAgain, WatchBreaks, RunWatcher
<1>2. GaugeCountsTheStore' /\ EveryStoreChangeIsQueued'
  BY <1>1 DEF GaugeCountsTheStore, EveryStoreChangeIsQueued, Known
<1>3. CASE Receive
  <2>1. Head(events) \in Live /\ Tail(events) \in Seq(Live) /\ Head(events) \in Event
    BY <1>3, SMTT(30) DEF Receive, WatcherType, Live
  <2>2. fifo' \in Seq(Event) /\ (fifo \in Seq(Live) => fifo' \in Seq(Live))
    BY <1>3, <2>1, SMTT(30) DEF Receive, WatcherType
  <2>. QED  BY <1>2, <1>3, <2>1, <2>2 DEF Receive, WatcherType, FirstListInv
<1>4. CASE WatchAgain \/ WatchBreaks \/ RunWatcher
  BY <1>2, <1>4, SMTT(30) DEF WatchAgain, WatchBreaks, RunWatcher, WatcherType, FirstListInv
<1>. QED  BY <1>3, <1>4

(* A change of the API server is sent while the watch is up. *)
LEMMA ApiChangeInv ==
  ASSUME WatcherInv, NEW s \in Svcs, NEW v \in Values \cup {Absent}, ApiChange(s, v)
  PROVE  WatcherInv'
<1>. DEFINE e == [type |-> IF v = Absent THEN "deleted" ELSE "set", svc |-> s, value |-> v]
<1>. USE DEF WatcherInv
<1>1. /\ UNCHANGED <<watch, fifo, store, handling, gauge, owed, seen, breaks>>
      /\ api' = [api EXCEPT ![s] = v]
      /\ events' \in {events, Append(events, e)}
  BY DEF ApiChange
<1>2. e \in Live
  BY DEF Live, Event
<1>3. Append(events, e) \in Seq(Live)
  BY <1>2, SMTT(30) DEF WatcherType
<1>. QED  BY <1>1, <1>3 DEF WatcherType, FirstListInv, GaugeCountsTheStore,
                            EveryStoreChangeIsQueued, Known

(* A reconciliation sees the store as it is. *)
LEMMA ListStoreInv ==
  ASSUME WatcherInv, UNCHANGED <<api, watcherVars, breaks>>,
         UNCHANGED <<owed, seen>> \/ \E s \in Svcs : ListStore(s)
  PROVE  WatcherInv'
BY DEF WatcherInv, watcherVars, ListStore, WatcherType, FirstListInv, GaugeCountsTheStore,
       EveryStoreChangeIsQueued, Known

(* A process that holds nothing satisfies the invariant. *)
LEMMA FreshWatcherInv ==
  /\ WatcherInit => WatcherInv
  /\ WatcherInv /\ WatcherRestart => WatcherInv'
<1>1. Cardinality({s \in Svcs : NoServices[s] # Absent}) = 0
  <2>1. {s \in Svcs : NoServices[s] # Absent} = {}
    BY DEF NoServices
  <2>. QED  BY <2>1, CountEmpty
<1>2. NoServices \in [Svcs -> Values \cup {Absent}]
  BY DEF NoServices
<1>3. <<>> \in Seq(Live) /\ <<>> \in Seq(Event)
  BY SMTT(30)
<1>4. WatcherInit => WatcherInv
  BY <1>1, <1>2, <1>3, SMTT(30) DEF WatcherInit, WatcherInv, WatcherType, FirstListInv,
     GaugeCountsTheStore, EveryStoreChangeIsQueued, Known
<1>5. WatcherInv /\ WatcherRestart => WatcherInv'
  BY <1>1, <1>2, <1>3 DEF WatcherRestart, WatcherInv, WatcherType, FirstListInv,
     GaugeCountsTheStore, EveryStoreChangeIsQueued, Known
<1>. QED  BY <1>4, <1>5

-----------------------------------------------------------------------------
(* Starting the clients *)

(* Steps after which main, the clients, stopCh and the queues are as before. *)
LEMMA ClientUnchanged ==
  ASSUME ClientInv, UNCHANGED <<main, localhost, stopped, clientVars, queues>>,
         races' \in Nat, HasSynced => HasSynced'
  PROVE  ClientInv'
<1>1. ClientType' /\ LocalInv'
  BY DEF ClientInv, clientVars, ClientType, LocalInv
<1>2. FirstListsInv'
  BY DEF ClientInv, clientVars, FirstListsInv
<1>3. RemoteInv'
  BY DEF ClientInv, clientVars, RemoteInv, RemoteOK
<1>. QED  BY <1>1, <1>2, <1>3 DEF ClientInv

(* Steps of the watcher and of the cluster never take back HasSynced. *)
LEMMA WatcherStepFact ==
  ASSUME WatcherInv, WatcherStep \/ ClusterStep
  PROVE  /\ WatcherInv' /\ (HasSynced => HasSynced')
         /\ breaks' >= breaks
         /\ crashed' => crashed \/ breaks' > 0
<1>1. CASE ClusterStep
  <2>1. WatcherInv'
    <3>1. CASE WatchBreaks
      BY <3>1, ReceiveInv
    <3>2. ASSUME NEW s \in Svcs, NEW v \in Values \cup {Absent}, ApiChange(s, v)  PROVE WatcherInv'
      BY <3>2, ApiChangeInv
    <3>. QED  BY <1>1, <3>1, <3>2 DEF ClusterStep
  <2>2. UNCHANGED <<initial, crashed>> /\ breaks' >= breaks
    <3>1. WatchBreaks => UNCHANGED <<initial, crashed>> /\ breaks' = breaks + 1
      BY DEF WatchBreaks
    <3>2. \A s, v : ApiChange(s, v) => UNCHANGED <<initial, crashed, breaks>>
      BY DEF ApiChange
    <3>. QED  BY <1>1, <3>1, <3>2, SMTT(30) DEF ClusterStep, WatcherInv, WatcherType
  <2>. QED  BY <2>1, <2>2 DEF HasSynced
<1>2. CASE WatcherStep
  <2>1. WatcherInv' /\ (crashed' => crashed \/ breaks' > 0)
    <3>1. CASE HandleEvent
      BY <3>1, HandleEventInv
    <3>2. CASE List \/ WatchAgain \/ Receive \/ Pop
      <4>1. WatcherInv'
        BY <3>2, ListInv, ReceiveInv, PopInv
      <4>. QED  BY <3>2, <4>1, SMTT(30) DEF List, WatchAgain, Receive, Pop
    <3>. QED  BY <1>2, <3>1, <3>2 DEF WatcherStep, InformerStep
  <2>2. UNCHANGED breaks /\ (initial = 0 => initial' = 0)
    <3>1. HandleEvent => UNCHANGED breaks /\ (initial = 0 => initial' = 0)
      BY SMTT(30) DEF HandleEvent, CountDown
    <3>2. List \/ WatchAgain => UNCHANGED breaks /\ (initial = 0 => initial' = 0)
      BY SMTT(30) DEF List, WatchAgain
    <3>3. Receive \/ Pop => UNCHANGED breaks /\ (initial = 0 => initial' = 0)
      BY DEF Receive, Pop, CountDown
    <3>. QED  BY <1>2, <3>1, <3>2, <3>3 DEF WatcherStep, InformerStep
  <2>3. breaks \in Nat
    BY DEF WatcherInv, WatcherType
  <2>. QED  BY <2>1, <2>2, <2>3, SMTT(30) DEF HasSynced
<1>. QED  BY <1>1, <1>2

(* A factory started with all of its informers. *)
LEMMA StartedFactory ==
  ASSUME NEW T \in SUBSET Types
  PROVE  StartInformers(FactoryOf(T)) = [ptr |-> "set", informers |-> T, started |-> T, synced |-> {}]
<1>. DEFINE F == [ptr |-> "set", informers |-> T, started |-> {}, synced |-> {}]
<1>1. FactoryOf(T) = F
  BY DEF FactoryOf
<1>2. StartInformers(F) = [F EXCEPT !.started = T]
  BY DEF StartInformers
<1>. QED  BY <1>1, <1>2

(* A step of main that leaves the clients and the watcher alone. *)
LEMMA MainMoves ==
  ASSUME ClientInv, UNCHANGED <<localhost, stopped, clientVars, initial, races>>,
         main' \in BeforeRemotes \cup {"queues", "listen", "serving", "exited"},
         main' \in BeforeRemotes => main \in BeforeRemotes,
         main' \in AfterWatchAll \/ queues' => main \in AfterWatchAll \/ queues,
         FirstListsInv'
  PROVE  ClientInv'
<1>1. ClientType' /\ LocalInv'
  BY DEF ClientInv, ClientType, LocalInv, clientVars
<1>2. RemoteInv'
  BY DEF ClientInv, RemoteInv, RemoteOK, clientVars
<1>. QED  BY <1>1, <1>2 DEF ClientInv

(* WatchAll leaves the local factories with all of their informers started. *)
LEMMA WatchAllInv ==
  ASSUME ClientInv, WatchAll
  PROVE  ClientInv'
<1>1. /\ main = "watchAll" /\ main' = "waitCRD"
      /\ crd' = [crd EXCEPT ![Local] = StartInformers(FactoryOf({"XdsServices"}))]
      /\ kube' = [kube EXCEPT ![Local] = StartInformers(FactoryOf({"EndpointSlices", "Services"}))]
      /\ UNCHANGED <<localhost, initial, stopped, retry, made, queues, races>>
  BY DEF WatchAll, envVars, svcVars, watcherVars
<1>2. {"XdsServices"} \in SUBSET Types /\ {"EndpointSlices", "Services"} \in SUBSET Types
  BY DEF Types
<1>3. /\ crd \in [Clusters -> Factory] /\ kube \in [Clusters -> Factory]
      /\ Local \in Clusters /\ \A r \in Remotes : r \in Clusters /\ r # Local
  BY StartupAssumption DEF Clusters, ClientInv, ClientType
<1>4. /\ crd'[Local] = [ptr |-> "set", informers |-> {"XdsServices"},
                        started |-> {"XdsServices"}, synced |-> {}]
      /\ kube'[Local] = [ptr |-> "set", informers |-> {"EndpointSlices", "Services"},
                         started |-> {"EndpointSlices", "Services"}, synced |-> {}]
  BY <1>1, <1>2, <1>3, StartedFactory
<1>5. ClientType'
  <2>1. \A T \in SUBSET Types :
          [ptr |-> "set", informers |-> T, started |-> T, synced |-> {}] \in Factory
    BY DEF Factory
  <2>2. crd'[Local] \in Factory /\ kube'[Local] \in Factory
    BY <1>2, <1>4, <2>1
  <2>3. crd' \in [Clusters -> Factory] /\ kube' \in [Clusters -> Factory]
    BY <1>1, <1>3, <2>2
  <2>. QED  BY <1>1, <2>3 DEF ClientInv, ClientType, BeforeRemotes
<1>6. LocalInv'
  BY <1>4, SMTT(30) DEF LocalInv
<1>7. FirstListsInv'
  BY <1>1 DEF ClientInv, FirstListsInv, HasSynced, AfterWatcher, AfterWatchAll, AfterCRD, AfterKube
<1>8. RemoteInv'
  <2>1. \A r \in Remotes : kube'[r] = kube[r]
    BY <1>1, <1>3
  <2>2. main \in BeforeRemotes /\ main' \in BeforeRemotes
    BY <1>1 DEF BeforeRemotes
  <2>3. ASSUME NEW r \in Remotes  PROVE RemoteOK(r)'
    <3>1. RemoteOK(r)
      BY DEF ClientInv, RemoteInv
    <3>. QED  BY <1>1, <2>1, <2>2, <3>1 DEF RemoteOK
  <2>. QED  BY <2>3 DEF RemoteInv
<1>. QED  BY <1>5, <1>6, <1>7, <1>8 DEF ClientInv

(* The steps of main, each after what it has waited for. *)
LEMMA MainStepInv ==
  ASSUME ClientInv, MainStep
  PROVE  ClientInv'
<1>. DEFINE Quiet == UNCHANGED <<localhost, stopped, clientVars, initial, races>>
<1>. USE DEF BeforeRemotes, AfterWatchAll
<1>1. CASE CreateClients
  <2>1. /\ Quiet /\ UNCHANGED queues /\ main = "clients"
        /\ main' = "exited" \/ main' = "controller" \/ (localhost /\ main' = "listen")
    BY <1>1 DEF CreateClients, envVars, svcVars, watcherVars
  <2>2. FirstListsInv'
    BY <2>1 DEF FirstListsInv, AfterWatcher, AfterCRD, AfterKube
  <2>. QED  BY <2>1, <2>2, MainMoves
<1>2. CASE StartWatcher \/ WaitWatcher
  <2>1. /\ Quiet /\ UNCHANGED queues /\ main \in {"controller", "waitWatcher"}
        /\ \/ main' = "waitWatcher" \/ (stopped /\ main' = "listen")
           \/ (HasSynced /\ main' = "watchAll")
    BY <1>2 DEF StartWatcher, WaitWatcher, RunWatcher, envVars, svcVars, watcherVars
  <2>2. FirstListsInv'
    BY <2>1 DEF FirstListsInv, AfterWatcher, AfterCRD, AfterKube, HasSynced
  <2>. QED  BY <2>1, <2>2, MainMoves
<1>3. CASE WatchAll
  BY <1>3, WatchAllInv
<1>4. CASE WaitCRD \/ WaitKube
  <2>1. /\ Quiet /\ UNCHANGED queues /\ main \in {"waitCRD", "waitKube"}
        /\ main' \in {"waitKube", "remotes"}
        /\ ~stopped => \/ main = "waitCRD" /\ main' = "waitKube" /\ crd[Local].started \subseteq crd[Local].synced
                       \/ main = "waitKube" /\ main' = "remotes" /\ kube[Local].started \subseteq kube[Local].synced
    BY <1>4 DEF WaitCRD, WaitKube, WaitForCacheSync, envVars, svcVars, watcherVars
  <2>2. FirstListsInv'
    BY <2>1 DEF ClientInv, LocalInv, FirstListsInv, AfterWatcher, AfterCRD, AfterKube, HasSynced, clientVars
  <2>. QED  BY <2>1, <2>2, MainMoves
<1>5. CASE StartRemotes
  <2>1. /\ UNCHANGED <<localhost, stopped, crd, kube, made, initial, races, queues>>
        /\ main = "remotes" /\ main' = "queues"
        /\ retry' = [r \in Remotes |-> [retry[r] EXCEPT !.pc = "op"]]
    BY <1>5 DEF StartRemotes, envVars, svcVars, watcherVars
  <2>2. \A r \in Remotes : retry'[r] \in RetryState /\ retry'[r].pc = "op"
    BY <2>1 DEF ClientInv, ClientType, RetryState
  <2>3. ClientType'
    BY <2>1, <2>2 DEF ClientInv, ClientType
  <2>4. LocalInv' /\ FirstListsInv'
    BY <2>1 DEF ClientInv, LocalInv, FirstListsInv, AfterWatcher, AfterCRD, AfterKube, HasSynced
  <2>5. RemoteInv'
    BY <2>1, <2>2 DEF ClientInv, RemoteInv, RemoteOK
  <2>. QED  BY <2>3, <2>4, <2>5 DEF ClientInv
<1>6. CASE StartQueues \/ Listen
  <2>1. /\ Quiet /\ main \in {"queues", "listen"}
        /\ \/ main = "queues" /\ main' = "listen" /\ queues'
           \/ main = "listen" /\ main' \in {"serving", "exited"} /\ UNCHANGED queues
    BY <1>6 DEF StartQueues, Listen, envVars, svcVars, watcherVars
  <2>2. FirstListsInv'
    BY <2>1, SMTT(30) DEF ClientInv, FirstListsInv, AfterWatcher, AfterCRD, AfterKube, HasSynced, clientVars
  <2>. QED  BY <2>1, <2>2, MainMoves, SMTT(30)
<1>. QED  BY <1>1, <1>2, <1>3, <1>4, <1>5, <1>6 DEF MainStep

-----------------------------------------------------------------------------
(* The goroutines of the remotes, the workers, the clusters and restarts *)

(* A delay is within the bounds that the goroutine was given. *)
LEMMA DelayFact ==
  ASSUME NEW a, NEW d \in ForAttempt(RetryConfig, a)
  PROVE  d \in RetryConfig.Min..RetryConfig.Max /\ d \in 0..RetryConfig.Max
<1>1. /\ RetryConfig.Min \in Nat /\ RetryConfig.Max \in Nat
      /\ 0 < RetryConfig.Min /\ RetryConfig.Min < RetryConfig.Max /\ RetryConfig.Jitter
  BY StartupAssumption, SMTT(30)
<1>2. /\ OrDefault(RetryConfig.Min, DefaultMin) = RetryConfig.Min
      /\ OrDefault(RetryConfig.Max, DefaultMax) = RetryConfig.Max
  BY <1>1, SMTT(30) DEF OrDefault
<1>3. ~(RetryConfig.Min >= RetryConfig.Max)
  BY <1>1, SMTT(30)
<1>4. \E top : d \in {Bounded(i, RetryConfig.Min, RetryConfig.Max) : i \in RetryConfig.Min..top}
  BY <1>1, <1>2, <1>3 DEF ForAttempt
<1>5. PICK i \in Int : d = Bounded(i, RetryConfig.Min, RetryConfig.Max)
  BY <1>4, SMTT(30)
<1>. QED  BY <1>1, <1>5, SMTT(30) DEF Bounded

(* The steps of the goroutine of a remote; the local factories are not touched. *)
LEMMA RetryStepInv ==
  ASSUME ClientInv, NEW r \in Remotes, RetryStep(r)
  PROVE  ClientInv'
<1>1. UNCHANGED <<main, localhost, stopped, crd, queues, initial, races>> /\ retry[r].pc # "none"
  BY DEF RetryStep, MakeFactory, AssignFactory, StartFactory, WatchReturns, Wake,
         svcVars, watcherVars, envVars
<1>2. /\ RemoteOK(r) /\ r \in Clusters /\ r # Local /\ Local \in Clusters
      /\ \A q \in Remotes : q \in Clusters
  BY StartupAssumption DEF Clusters, ClientInv, RemoteInv
<1>3. main \notin BeforeRemotes
  BY <1>1, <1>2 DEF RemoteOK
<1>4. /\ kube \in [Clusters -> Factory] /\ made \in [Remotes -> Nat]
      /\ retry \in [Remotes -> RetryState]
  BY DEF ClientInv, ClientType
<1>. DEFINE NewState ==
        \E k \in Factory, t \in RetryState, m \in Nat :
          /\ kube' = [kube EXCEPT ![r] = k]
          /\ retry' = [retry EXCEPT ![r] = t]
          /\ made' = [made EXCEPT ![r] = m]
          /\ k.ptr = "set" => k.informers = {"EndpointSlices"} /\ k.started \subseteq {"EndpointSlices"}
          /\ t.pc \in {"start", "wait", "done", "sleep"} => k.ptr = "set"
          /\ t.pc \in {"wait", "done", "sleep"} => k.informers = k.started
          /\ t.pc = "sleep" => t.delay >= RetryConfig.Min
          /\ ~stopped => t.pc # "sleep" /\ m = IF t.pc \in {"none", "op"} THEN 0 ELSE 1
<1>5. NewState
  <2>. DEFINE new == FactoryOf({"EndpointSlices"})
              pc(p) == [retry[r] EXCEPT !.pc = p]
  <2>1. new \in Factory /\ new.ptr = "set" /\ new.informers = {"EndpointSlices"} /\ new.started = {}
    BY DEF FactoryOf, Factory, Types
  <2>2. \A p \in {"op", "assign", "start", "wait", "done"} : pc(p) \in RetryState /\ pc(p).pc = p
    BY <1>4 DEF RetryState
  <2>3. \A p : retry' = [retry EXCEPT ![r].pc = p] => retry' = [retry EXCEPT ![r] = pc(p)]
    BY <1>4
  <2>4. kube = [kube EXCEPT ![r] = kube[r]] /\ made = [made EXCEPT ![r] = made[r]] /\ made[r] \in Nat
    BY <1>2, <1>4
  <2>5. kube[r] \in Factory
    BY <1>2, <1>4
  <2>. HIDE DEF new, pc
  <2>6. CASE MakeFactory(r)
    <3>1. /\ made' = [made EXCEPT ![r] = made[r] + 1] /\ retry[r].pc = "op"
          /\ \/ /\ kube' = [kube EXCEPT ![r].ptr = "torn"]
                /\ retry' = [retry EXCEPT ![r].pc = "assign"]
             \/ kube' = [kube EXCEPT ![r] = new] /\ retry' = [retry EXCEPT ![r].pc = "start"]
      BY <1>4, <2>6 DEF MakeFactory, SetRetry, new
    <3>2. made[r] + 1 \in Nat /\ (~stopped => made[r] + 1 = 1)
      BY <1>2, <2>4, <3>1, SMTT(30) DEF RemoteOK
    <3>3. /\ [kube[r] EXCEPT !.ptr = "torn"] \in Factory
          /\ [kube[r] EXCEPT !.ptr = "torn"].ptr = "torn"
      BY <2>5 DEF Factory
    <3>4. kube' = [kube EXCEPT ![r].ptr = "torn"] => kube' = [kube EXCEPT ![r] = [kube[r] EXCEPT !.ptr = "torn"]]
      BY <1>2, <1>4
    <3>5. CASE kube' = [kube EXCEPT ![r].ptr = "torn"] /\ retry' = [retry EXCEPT ![r].pc = "assign"]
      <4>1. pc("assign") \in RetryState /\ pc("assign").pc = "assign" /\ retry' = [retry EXCEPT ![r] = pc("assign")]
        BY <2>2, <2>3, <3>5
      <4>. QED  BY <3>1, <3>2, <3>3, <3>4, <3>5, <4>1
    <3>6. CASE kube' = [kube EXCEPT ![r] = new] /\ retry' = [retry EXCEPT ![r].pc = "start"]
      <4>1. pc("start") \in RetryState /\ pc("start").pc = "start" /\ retry' = [retry EXCEPT ![r] = pc("start")]
        BY <2>2, <2>3, <3>6
      <4>. QED  BY <2>1, <3>1, <3>2, <3>6, <4>1
    <3>. QED  BY <3>1, <3>5, <3>6
  <2>7. CASE AssignFactory(r)
    <3>1. /\ kube' = [kube EXCEPT ![r] = new] /\ retry[r].pc = "assign" /\ UNCHANGED made
          /\ retry' = [retry EXCEPT ![r] = pc("start")] /\ pc("start") \in RetryState /\ pc("start").pc = "start"
      BY <2>2, <2>3, <2>7 DEF AssignFactory, SetRetry, new
    <3>2. ~stopped => made[r] = 1
      BY <1>2, <3>1 DEF RemoteOK
    <3>. QED  BY <2>1, <2>4, <3>1, <3>2
  <2>8. CASE StartFactory(r)
    <3>1. /\ kube' = [kube EXCEPT ![r] = StartInformers(kube[r])] /\ retry[r].pc = "start" /\ UNCHANGED made
          /\ retry' = [retry EXCEPT ![r] = pc("wait")] /\ pc("wait") \in RetryState /\ pc("wait").pc = "wait"
      BY <1>2, <1>4, <2>2, <2>3, <2>8 DEF StartFactory, SetRetry
    <3>2. /\ kube[r].ptr = "set" /\ kube[r].informers = {"EndpointSlices"}
          /\ kube[r].started \subseteq {"EndpointSlices"} /\ (~stopped => made[r] = 1)
      BY <1>2, <3>1 DEF RemoteOK
    <3>3. /\ StartInformers(kube[r]) \in Factory
          /\ StartInformers(kube[r]).ptr = "set"
          /\ StartInformers(kube[r]).informers = {"EndpointSlices"}
          /\ StartInformers(kube[r]).started = {"EndpointSlices"}
      BY <2>5, <3>2 DEF StartInformers, Factory
    <3>. QED  BY <2>4, <3>1, <3>2, <3>3
  <2>9. CASE WatchReturns(r)
    <3>1. retry[r].pc = "wait" /\ UNCHANGED <<kube, made>>
      BY <2>9 DEF WatchReturns
    <3>2. /\ kube[r].ptr = "set" /\ kube[r].informers = {"EndpointSlices"}
          /\ kube[r].informers = kube[r].started /\ (~stopped => made[r] = 1)
      BY <1>2, <3>1 DEF RemoteOK
    <3>3. CASE retry' = [retry EXCEPT ![r].pc = "done"]
      <4>1. pc("done") \in RetryState /\ pc("done").pc = "done" /\ retry' = [retry EXCEPT ![r] = pc("done")]
        BY <2>2, <2>3, <3>3
      <4>. QED  BY <2>4, <2>5, <3>1, <3>2, <4>1
    <3>4. ASSUME stopped, NEW d \in ForAttempt(RetryConfig, retry[r].attempt), NEW t,
                 t = [pc |-> "sleep", attempt |-> retry[r].attempt + 1, delay |-> d],
                 retry' = [retry EXCEPT ![r] = t]
          PROVE  t \in RetryState /\ t.pc = "sleep" /\ t.delay >= RetryConfig.Min
      BY <1>4, <3>4, DelayFact, StartupAssumption, SMTT(30) DEF RetryState
    <3>5. \/ retry' = [retry EXCEPT ![r].pc = "done"]
          \/ stopped /\ \E t \in RetryState :
               retry' = [retry EXCEPT ![r] = t] /\ t.pc = "sleep" /\ t.delay >= RetryConfig.Min
      BY <2>9, <3>4 DEF WatchReturns, SetRetry
    <3>6. ASSUME NEW t \in RetryState, stopped,
                 retry' = [retry EXCEPT ![r] = t], t.pc = "sleep", t.delay >= RetryConfig.Min
          PROVE  NewState
      BY <2>4, <2>5, <3>1, <3>2, <3>6
    <3>. QED  BY <3>3, <3>5, <3>6
  <2>10. CASE Wake(r)
    <3>1. /\ retry[r].pc = "sleep" /\ UNCHANGED <<kube, made>>
          /\ retry' = [retry EXCEPT ![r] = pc("op")] /\ pc("op") \in RetryState /\ pc("op").pc = "op"
      BY <2>2, <2>3, <2>10 DEF Wake, SetRetry
    <3>2. /\ stopped
          /\ kube[r].ptr = "set" => kube[r].informers = {"EndpointSlices"} /\ kube[r].started \subseteq {"EndpointSlices"}
      BY <1>2, <3>1 DEF RemoteOK
    <3>. QED  BY <2>4, <2>5, <3>1, <3>2
  <2>. QED  BY <2>6, <2>7, <2>8, <2>9, <2>10 DEF RetryStep
<1>6. PICK k \in Factory, t \in RetryState, m \in Nat :
        /\ kube' = [kube EXCEPT ![r] = k]
        /\ retry' = [retry EXCEPT ![r] = t]
        /\ made' = [made EXCEPT ![r] = m]
        /\ k.ptr = "set" => k.informers = {"EndpointSlices"} /\ k.started \subseteq {"EndpointSlices"}
        /\ t.pc \in {"start", "wait", "done", "sleep"} => k.ptr = "set"
        /\ t.pc \in {"wait", "done", "sleep"} => k.informers = k.started
        /\ t.pc = "sleep" => t.delay >= RetryConfig.Min
        /\ ~stopped => t.pc # "sleep" /\ m = IF t.pc \in {"none", "op"} THEN 0 ELSE 1
  BY <1>5
<1>7. ClientType'
  BY <1>1, <1>2, <1>4, <1>6 DEF ClientInv, ClientType
<1>8. LocalInv' /\ FirstListsInv'
  <2>1. kube'[Local] = kube[Local]
    BY <1>2, <1>4, <1>6
  <2>. QED  BY <1>1, <2>1 DEF ClientInv, LocalInv, FirstListsInv, HasSynced
<1>9. \A q \in Remotes : RemoteOK(q)'
  <2>1. RemoteOK(r)'
    <3>1. kube'[r] = k /\ retry'[r] = t /\ made'[r] = m
      BY <1>2, <1>4, <1>6
    <3>. QED  BY <1>1, <1>3, <1>6, <3>1 DEF RemoteOK
  <2>2. ASSUME NEW q \in Remotes, q # r  PROVE RemoteOK(q)'
    <3>1. kube'[q] = kube[q] /\ retry'[q] = retry[q] /\ made'[q] = made[q] /\ RemoteOK(q)
      BY <1>2, <1>4, <1>6, <2>2 DEF ClientInv, RemoteInv
    <3>. QED  BY <1>1, <3>1 DEF RemoteOK
  <2>. QED  BY <2>1, <2>2
<1>. QED  BY <1>7, <1>8, <1>9 DEF ClientInv, RemoteInv

(* A reconciliation finds every informer made, and so makes none; or it panics over a race. *)
LEMMA ReadClientsFact ==
  ASSUME ClientInv, queues, ReadClients
  PROVE  UNCHANGED <<crd, kube>> /\ races' \in Nat /\ races' >= races /\ (crashed' => crashed \/ races' > 0)
<1>1. races \in Nat /\ crd \in [Clusters -> Factory] /\ kube \in [Clusters -> Factory]
  BY DEF ClientInv, ClientType
<1>2. /\ crd[Local].ptr = "set" /\ crd[Local].informers = {"XdsServices"}
      /\ kube[Local].ptr = "set" /\ kube[Local].informers = {"Services", "EndpointSlices"}
  BY DEF ClientInv, LocalInv
<1>3. \A r \in Remotes : kube[r].ptr = "set" => kube[r].informers = {"EndpointSlices"}
  BY DEF ClientInv, RemoteInv, RemoteOK
<1>4. CASE \E c \in Clusters : Unreadable(c)
  <2>1. \E r \in Remotes : kube[r].ptr = "torn"
    BY <1>2, <1>4 DEF Unreadable, Clusters
  <2>2. races' = races + 1 /\ UNCHANGED <<crd, kube>>
    BY <1>4, <2>1 DEF ReadClients
  <2>. QED  BY <1>1, <2>2, SMTT(30)
<1>5. CASE ~\E c \in Clusters : Unreadable(c)
  <2>1. /\ crd' = [crd EXCEPT ![Local] = Read(crd[Local], {"XdsServices"})]
        /\ kube' = [c \in Clusters |->
             Read(kube[c], IF c = Local THEN {"Services", "EndpointSlices"} ELSE {"EndpointSlices"})]
        /\ UNCHANGED <<crashed, races>>
    BY <1>5 DEF ReadClients
  <2>2. ASSUME NEW f \in Factory, NEW T, f.ptr = "set" => f.informers = T
        PROVE  Read(f, T) = f
    BY <2>2 DEF Read, InformerFor, Factory
  <2>3. crd[Local] \in Factory /\ \A c \in Clusters : kube[c] \in Factory
    BY <1>1 DEF Clusters
  <2>4. Read(crd[Local], {"XdsServices"}) = crd[Local]
    BY <1>2, <2>2, <2>3
  <2>5. \A c \in Clusters :
          Read(kube[c], IF c = Local THEN {"Services", "EndpointSlices"} ELSE {"EndpointSlices"}) = kube[c]
    BY <1>2, <1>3, <2>2, <2>3 DEF Clusters
  <2>6. crd' = crd /\ kube' = kube
    BY <1>1, <2>1, <2>4, <2>5, SMTT(30)
  <2>. QED  BY <1>1, <2>1, <2>6, SMTT(30)
<1>. QED  BY <1>4, <1>5

(* The first list of an informer. *)
LEMMA SyncInv ==
  ASSUME ClientInv, SyncCRD \/ \E c \in Clusters, type \in Types : SyncKube(c, type)
  PROVE  ClientInv'
<1>1. /\ crd \in [Clusters -> Factory] /\ kube \in [Clusters -> Factory] /\ Local \in Clusters
      /\ UNCHANGED <<main, localhost, stopped, retry, made, queues, initial, races>>
  BY DEF ClientInv, ClientType, SyncCRD, SyncKube, Clusters, envVars, svcVars, watcherVars
<1>2. CASE SyncCRD
  <2>1. crd' = [crd EXCEPT ![Local] = [crd[Local] EXCEPT !.synced = crd[Local].started]] /\ UNCHANGED kube
    BY <1>1, <1>2 DEF SyncCRD
  <2>2. crd' \in [Clusters -> Factory]
    BY <1>1, <2>1, SMTT(30) DEF Factory
  <2>3. /\ crd'[Local].synced = crd[Local].started /\ crd'[Local].started = crd[Local].started
        /\ crd'[Local].informers = crd[Local].informers /\ crd'[Local].ptr = crd[Local].ptr
    BY <1>1, <2>1 DEF Factory
  <2>4. LocalInv'
    BY <1>1, <2>1, <2>3 DEF ClientInv, LocalInv
  <2>5. FirstListsInv'
    BY <1>1, <2>1, <2>3 DEF ClientInv, FirstListsInv, LocalInv, HasSynced,
       AfterWatchAll, AfterWatcher, AfterCRD, AfterKube
  <2>6. ClientType' /\ RemoteInv'
    BY <1>1, <2>1, <2>2 DEF ClientInv, ClientType, RemoteInv, RemoteOK
  <2>. QED  BY <2>4, <2>5, <2>6 DEF ClientInv
<1>3. ASSUME NEW c \in Clusters, NEW type \in Types, SyncKube(c, type)  PROVE ClientInv'
  <2>1. /\ kube' = [kube EXCEPT ![c] = [kube[c] EXCEPT !.synced = kube[c].synced \cup {type}]]
        /\ UNCHANGED crd /\ type \in kube[c].started
    BY <1>1, <1>3 DEF SyncKube
  <2>2. kube' \in [Clusters -> Factory]
    <3>1. [kube[c] EXCEPT !.synced = kube[c].synced \cup {type}] \in Factory
      BY <1>1 DEF Factory
    <3>. QED  BY <1>1, <2>1, <3>1
  <2>3. \A d \in Clusters :
          /\ kube'[d].started = kube[d].started /\ kube'[d].informers = kube[d].informers
          /\ kube'[d].ptr = kube[d].ptr
          /\ kube[d].synced \subseteq kube'[d].synced /\ kube'[d].synced \subseteq kube[d].synced \cup kube[d].started
    BY <1>1, <2>1 DEF Factory
  <2>4. LocalInv'
    BY <1>1, <2>1, <2>3 DEF ClientInv, LocalInv
  <2>5. FirstListsInv'
    <3>1. main \in AfterKube => main \in AfterWatchAll \/ main \in {"listen", "serving"}
      BY DEF AfterKube, AfterCRD, AfterWatcher
    <3>. QED  BY <1>1, <2>1, <2>3, <2>4, <3>1 DEF ClientInv, FirstListsInv, LocalInv, HasSynced
  <2>6. ClientType'
    <3>1. ClientType
      BY DEF ClientInv
    <3>. QED  BY <1>1, <2>1, <2>2, <3>1 DEF ClientType
  <2>7. RemoteInv'
    BY <1>1, <2>3, SMTT(30) DEF ClientInv, RemoteInv, RemoteOK, Clusters
  <2>. QED  BY <2>4, <2>5, <2>6, <2>7 DEF ClientInv
<1>. QED  BY <1>2, <1>3

(* A process that was just started satisfies the invariant. *)
LEMMA FreshClientInv ==
  /\ Init => ClientInv
  /\ ClientInv /\ Restart => ClientInv'
<1>1. NilFactory \in Factory /\ NilFactory.ptr = "nil"
  BY DEF NilFactory, Factory
<1>2. NoRetry \in RetryState /\ NoRetry.pc = "none"
  BY StartupAssumption, SMTT(30) DEF NoRetry, RetryState
<1>3. "clients" \in BeforeRemotes /\ "clients" \notin AfterWatchAll /\ "clients" \notin AfterWatcher
  BY DEF BeforeRemotes, AfterWatchAll, AfterWatcher
<1>4. "clients" \notin AfterCRD /\ "clients" \notin AfterKube
  BY <1>3 DEF AfterCRD, AfterKube
<1>5. \A r \in Remotes : r \in Clusters
  BY DEF Clusters
<1>6. Init => ClientInv
  <2>. SUFFICES ASSUME Init  PROVE ClientInv
    OBVIOUS
  <2>1. ClientType
    BY <1>1, <1>2, <1>3 DEF Init, ClientType
  <2>2. LocalInv /\ FirstListsInv
    BY <1>3, <1>4 DEF Init, LocalInv, FirstListsInv
  <2>3. RemoteInv
    BY <1>1, <1>2, <1>5 DEF Init, RemoteInv, RemoteOK
  <2>. QED  BY <2>1, <2>2, <2>3 DEF ClientInv
<1>7. ClientInv /\ Restart => ClientInv'
  <2>. SUFFICES ASSUME ClientInv, Restart  PROVE ClientInv'
    OBVIOUS
  <2>1. ClientType'
    BY <1>1, <1>2, <1>3 DEF Restart, ClientInv, ClientType
  <2>2. LocalInv' /\ FirstListsInv'
    BY <1>3, <1>4 DEF Restart, LocalInv, FirstListsInv
  <2>3. RemoteInv'
    BY <1>1, <1>2, <1>5 DEF Restart, RemoteInv, RemoteOK
  <2>. QED  BY <2>1, <2>2, <2>3 DEF ClientInv
<1>. QED  BY <1>6, <1>7

-----------------------------------------------------------------------------
(* The invariant, and what follows from it *)

(* The steps of main keep the invariant. *)
LEMMA MainStepKept ==
  ASSUME StartupInv, MainStep
  PROVE  StartupInv'
<1>1. UNCHANGED <<crashed, breaks, races>> /\ (UNCHANGED svcVars \/ RunWatcher)
  BY DEF MainStep, CreateClients, StartWatcher, WaitWatcher, WatchAll, WaitCRD, WaitKube, StartRemotes,
         StartQueues, Listen, RunWatcher, svcVars
<1>2. WatcherInv'
  BY <1>1, ReceiveInv, ListStoreInv DEF StartupInv, svcVars
<1>3. ClientInv' /\ PanicsAreTheKnownOnes'
  BY <1>1, MainStepInv DEF StartupInv, PanicsAreTheKnownOnes
<1>. QED  BY <1>2, <1>3 DEF StartupInv

(* The workers of the queues keep the invariant, and panic only after a race on the clients. *)
LEMMA ReconcileKept ==
  ASSUME StartupInv, (\E s \in Svcs : ReconcileService(s)) \/ (\E q \in work : Reconcile(q))
  PROVE  StartupInv'
<1>1. /\ queues /\ ReadClients
      /\ UNCHANGED <<api, watcherVars, breaks, main, localhost, stopped, retry, made, queues>>
      /\ UNCHANGED <<owed, seen>> \/ \E s \in Svcs : ListStore(s)
  BY DEF ReconcileService, Reconcile, envVars
<1>2. UNCHANGED <<crd, kube>> /\ races' \in Nat /\ races' >= races /\ (crashed' => crashed \/ races' > 0)
  BY <1>1, ReadClientsFact DEF StartupInv
<1>3. WatcherInv'
  BY <1>1, ListStoreInv DEF StartupInv
<1>4. HasSynced => HasSynced'
  BY <1>1 DEF HasSynced, watcherVars
<1>5. ClientInv'
  BY <1>1, <1>2, <1>4, ClientUnchanged DEF StartupInv, clientVars
<1>6. PanicsAreTheKnownOnes'
  BY <1>1, <1>2, SMTT(30) DEF StartupInv, PanicsAreTheKnownOnes, ClientInv, ClientType
<1>. QED  BY <1>3, <1>5, <1>6 DEF StartupInv

(* What the platform does keeps the invariant. *)
LEMMA PlatformKept ==
  ASSUME StartupInv, (\E c \in Clusters : Reach(c)) \/ CloseStopCh \/ UNCHANGED vars
  PROVE  StartupInv'
<1>1. UNCHANGED <<svcVars, main, localhost, clientVars, queues, races>> /\ (stopped' = TRUE \/ UNCHANGED stopped)
  BY DEF Reach, CloseStopCh, vars, envVars
<1>2. WatcherInv'
  BY <1>1, ListStoreInv DEF StartupInv, svcVars
<1>3. ClientType' /\ LocalInv'
  BY <1>1 DEF StartupInv, ClientInv, ClientType, LocalInv, clientVars
<1>4. FirstListsInv'
  BY <1>1 DEF StartupInv, ClientInv, FirstListsInv, HasSynced, clientVars, svcVars, watcherVars
<1>5. RemoteInv'
  BY <1>1, SMTT(30) DEF StartupInv, ClientInv, RemoteInv, RemoteOK, clientVars
<1>6. PanicsAreTheKnownOnes'
  BY <1>1 DEF StartupInv, PanicsAreTheKnownOnes, svcVars
<1>. QED  BY <1>2, <1>3, <1>4, <1>5, <1>6 DEF StartupInv, ClientInv

(* Every step keeps the invariant. *)
LEMMA NextKept ==
  ASSUME StartupInv, [Next]_vars
  PROVE  StartupInv'
<1>1. CASE MainStep
  BY <1>1, MainStepKept
<1>2. ASSUME NEW r \in Remotes, RetryStep(r)  PROVE StartupInv'
  <2>1. UNCHANGED <<svcVars, races>>
    BY <1>2 DEF RetryStep, MakeFactory, AssignFactory, StartFactory, WatchReturns, Wake
  <2>2. WatcherInv' /\ PanicsAreTheKnownOnes'
    BY <2>1, ListStoreInv DEF StartupInv, PanicsAreTheKnownOnes, svcVars
  <2>. QED  BY <1>2, <2>2, RetryStepInv DEF StartupInv
<1>3. CASE (\E s \in Svcs : ReconcileService(s)) \/ (\E q \in work : Reconcile(q))
  BY <1>3, ReconcileKept
<1>4. CASE (\E c \in Clusters : Reach(c)) \/ CloseStopCh \/ UNCHANGED vars
  BY <1>4, PlatformKept
<1>5. CASE SyncCRD \/ \E c \in Clusters, type \in Types : SyncKube(c, type)
  <2>1. UNCHANGED <<svcVars, races>>
    BY <1>5 DEF SyncCRD, SyncKube
  <2>2. WatcherInv' /\ PanicsAreTheKnownOnes'
    BY <2>1, ListStoreInv DEF StartupInv, PanicsAreTheKnownOnes, svcVars
  <2>. QED  BY <1>5, <2>2, SyncInv DEF StartupInv
<1>6. CASE WatcherStep \/ ClusterStep
  <2>1. UNCHANGED <<main, localhost, stopped, clientVars, queues, races>>
    BY <1>6 DEF WatcherStep, ClusterStep, envVars
  <2>2. /\ WatcherInv' /\ (HasSynced => HasSynced') /\ breaks' >= breaks
        /\ crashed' => crashed \/ breaks' > 0
    BY <1>6, WatcherStepFact DEF StartupInv
  <2>3. ClientInv'
    BY <2>1, <2>2, ClientUnchanged DEF StartupInv, ClientInv, ClientType
  <2>4. PanicsAreTheKnownOnes'
    BY <2>1, <2>2, SMTT(30) DEF StartupInv, PanicsAreTheKnownOnes, WatcherInv, WatcherType
  <2>. QED  BY <2>2, <2>3, <2>4 DEF StartupInv
<1>7. CASE Restart
  <2>1. WatcherInv' /\ ClientInv'
    BY <1>7, FreshWatcherInv, FreshClientInv DEF StartupInv, Restart
  <2>2. PanicsAreTheKnownOnes'
    BY <1>7 DEF Restart, WatcherRestart, PanicsAreTheKnownOnes
  <2>. QED  BY <2>1, <2>2 DEF StartupInv
<1>. QED  BY <1>1, <1>2, <1>3, <1>4, <1>5, <1>6, <1>7 DEF Next

(* The inductive invariant holds throughout start, service, panics and restarts. *)
THEOREM StartupInvariance == Spec => []StartupInv
<1>1. Init => StartupInv
  BY FreshWatcherInv, FreshClientInv DEF Init, WatcherInit, StartupInv, PanicsAreTheKnownOnes
<1>2. StartupInv /\ [Next]_vars => StartupInv'
  BY NextKept
<1>. QED  BY <1>1, <1>2, PTL DEF Spec

(***************************************************************************)
(* A panic in the service watcher's handler or in a read through a client  *)
(* is always over a tombstone or over a remote client's half assigned      *)
(* factory.                                                                *)
(***************************************************************************)
THEOREM Panics == Spec => []PanicsAreTheKnownOnes
<1>1. StartupInv => PanicsAreTheKnownOnes
  BY DEF StartupInv
<1>. QED  BY <1>1, StartupInvariance, PTL

(***************************************************************************)
(* No worker holds a lister that nothing fills: the informers it reads     *)
(* exist before WatchAll or WatchEndpointSlices starts the factory.        *)
(***************************************************************************)
THEOREM Listers == Spec => []ListersAreFed
<1>1. StartupInv => ListersAreFed
  BY DEF StartupInv, ClientInv, LocalInv, RemoteInv, RemoteOK, ListersAreFed
<1>. QED  BY <1>1, StartupInvariance, PTL

(* The server does not listen before the local cluster's first lists (Run, main). *)
THEOREM FirstLists == Spec => []ServesAfterFirstLists
<1>1. StartupInv => ServesAfterFirstLists
  BY DEF StartupInv, ClientInv, FirstListsInv, ServesAfterFirstLists, AfterWatchAll, AfterWatcher,
         AfterCRD, AfterKube
<1>. QED  BY <1>1, StartupInvariance, PTL

(***************************************************************************)
(* RetryWithBackoff makes one factory per remote cluster, and after a      *)
(* failure sleeps no less than Min and no more than Max, at any attempt.   *)
(***************************************************************************)
THEOREM OneFactory == Spec => [](OneFactoryPerRemote /\ DelaysInBounds)
<1>1. StartupInv => OneFactoryPerRemote
  BY SMTT(30) DEF StartupInv, ClientInv, RemoteInv, RemoteOK, OneFactoryPerRemote
<1>2. StartupInv => DelaysInBounds
  BY StartupAssumption, SMTT(30)
  DEF StartupInv, ClientInv, ClientType, RetryState, RemoteInv, RemoteOK, DelaysInBounds
<1>. QED  BY <1>1, <1>2, StartupInvariance, PTL

(***************************************************************************)
(* The gauge of watched Services counts the store but for the change whose *)
(* handler still runs, and every change of the store that a reconciliation *)
(* has not listed is in the queue or about to be put there.                *)
(***************************************************************************)
THEOREM StoreQueued == Spec => [](GaugeCountsTheStore /\ EveryStoreChangeIsQueued)
<1>1. StartupInv => GaugeCountsTheStore /\ EveryStoreChangeIsQueued
  BY DEF StartupInv, WatcherInv
<1>. QED  BY <1>1, StartupInvariance, PTL

-----------------------------------------------------------------------------
(* Remotes are not given up *)

(* A goroutine that has ended has its first list, and no remote is left without one *)
Watched(r) ==
  /\ retry[r].pc = "done" => "EndpointSlices" \in kube[r].synced
  /\ main \in {"queues", "listen", "serving"} /\ ~localhost /\ ~stopped => retry[r].pc # "none"

WatchedInv == \A r \in Remotes : Watched(r)

(* Steps after which all remotes have what they had. *)
LEMMA WatchedSame ==
  ASSUME WatchedInv, UNCHANGED <<main, localhost, retry>>, ~stopped' => ~stopped,
         \A r \in Remotes : kube[r].synced \subseteq kube'[r].synced
  PROVE  WatchedInv'
BY DEF WatchedInv, Watched

(* Main starts a goroutine for every remote before it goes on to the queues. *)
LEMMA MainWatched ==
  ASSUME StartupInv, WatchedInv, MainStep
  PROVE  WatchedInv'
<1>1. UNCHANGED <<localhost, stopped>>
  BY DEF MainStep, CreateClients, StartWatcher, WaitWatcher, WatchAll, WaitCRD, WaitKube, StartRemotes,
         StartQueues, Listen, envVars
<1>2. CASE StartRemotes
  <2>1. retry' = [r \in Remotes |-> [retry[r] EXCEPT !.pc = "op"]] /\ retry \in [Remotes -> RetryState]
    BY <1>2 DEF StartRemotes, StartupInv, ClientInv, ClientType
  <2>2. \A r \in Remotes : retry'[r].pc = "op"
    BY <2>1 DEF RetryState
  <2>. QED  BY <2>2 DEF WatchedInv, Watched
<1>3. CASE WatchAll
  <2>1. \A r \in Remotes : kube'[r] = kube[r]
    BY <1>3, StartupAssumption DEF WatchAll, StartupInv, ClientInv, ClientType, Clusters
  <2>. QED  BY <1>3, <2>1 DEF WatchAll, WatchedInv, Watched
<1>4. CASE CreateClients \/ StartWatcher \/ WaitWatcher
  <2>1. /\ UNCHANGED <<kube, retry>>
        /\ main' \in {"queues", "listen", "serving"} => localhost \/ stopped
    BY <1>4 DEF CreateClients, StartWatcher, WaitWatcher, clientVars
  <2>. QED  BY <1>1, <2>1 DEF WatchedInv, Watched
<1>5. CASE WaitCRD \/ WaitKube \/ StartQueues \/ Listen
  <2>1. /\ UNCHANGED <<kube, retry>>
        /\ main' \in {"queues", "listen", "serving"} => main \in {"queues", "listen", "serving"}
    BY <1>5 DEF WaitCRD, WaitKube, StartQueues, Listen, clientVars
  <2>. QED  BY <1>1, <2>1 DEF WatchedInv, Watched
<1>. QED  BY <1>2, <1>3, <1>4, <1>5 DEF MainStep

(* The goroutine of a remote ends with the first list, and otherwise retries. *)
LEMMA RetryWatched ==
  ASSUME StartupInv, WatchedInv, NEW r \in Remotes, RetryStep(r)
  PROVE  WatchedInv'
<1>1. /\ UNCHANGED <<main, localhost, stopped>> /\ RemoteOK(r)
      /\ retry \in [Remotes -> RetryState] /\ kube \in [Clusters -> Factory]
      /\ \A q \in Remotes : q \in Clusters
  BY DEF StartupInv, ClientInv, ClientType, RemoteInv, Clusters, envVars,
         RetryStep, MakeFactory, AssignFactory, StartFactory, WatchReturns, Wake
<1>2. ASSUME NEW q \in Remotes, q # r  PROVE kube'[q] = kube[q] /\ retry'[q] = retry[q]
  BY <1>1, <1>2 DEF RetryStep, MakeFactory, AssignFactory, StartFactory, WatchReturns, Wake, SetRetry
<1>3. Watched(r)'
  <2>1. CASE MakeFactory(r) \/ AssignFactory(r) \/ StartFactory(r) \/ Wake(r)
    <3>1. PICK p \in {"op", "assign", "start", "wait"} : retry' = [retry EXCEPT ![r].pc = p]
      BY <2>1 DEF MakeFactory, AssignFactory, StartFactory, Wake, SetRetry
    <3>2. retry'[r].pc = p
      BY <1>1, <3>1 DEF RetryState
    <3>. QED  BY <3>2 DEF Watched
  <2>2. CASE WatchReturns(r)
    <3>1. retry[r].pc = "wait" /\ UNCHANGED kube
      BY <2>2 DEF WatchReturns
    <3>2. kube[r].started = {"EndpointSlices"}
      BY <1>1, <3>1 DEF RemoteOK
    <3>3. CASE WaitForCacheSync(kube[r]) /\ SetRetry(r, "done")
      <4>1. retry'[r].pc = "done"
        BY <1>1, <3>3 DEF SetRetry, RetryState
      <4>. QED  BY <3>1, <3>2, <3>3, <4>1 DEF Watched, WaitForCacheSync
    <3>4. ASSUME NEW d, retry' = [retry EXCEPT ![r] = [pc |-> "sleep", attempt |-> @.attempt + 1, delay |-> d]]
          PROVE  retry'[r].pc = "sleep"
      BY <1>1, <3>4
    <3>. QED  BY <2>2, <3>3, <3>4 DEF WatchReturns, Watched
  <2>. QED  BY <2>1, <2>2 DEF RetryStep
<1>. QED  BY <1>1, <1>2, <1>3 DEF WatchedInv, Watched

(***************************************************************************)
(* While the server serves and stopCh is open, every remote cluster of the *)
(* configuration has its EndpointSlices listed or a goroutine still at it: *)
(* RetryWithBackoff never returns without, and none is forgotten (Run).    *)
(***************************************************************************)
THEOREM NoRemoteIsGivenUp ==
  Spec => [](main = "serving" /\ ~localhost /\ ~stopped =>
               \A r \in Remotes : \/ "EndpointSlices" \in kube[r].synced
                                  \/ retry[r].pc \in {"op", "assign", "start", "wait"})
<1>1. Init => WatchedInv
  BY SMTT(30) DEF Init, NoRetry, WatchedInv, Watched
<1>2. ASSUME StartupInv, WatchedInv, [Next]_vars  PROVE WatchedInv'
  <2>1. CASE MainStep
    BY <1>2, <2>1, MainWatched
  <2>2. ASSUME NEW r \in Remotes, RetryStep(r)  PROVE WatchedInv'
    BY <1>2, <2>2, RetryWatched
  <2>3. CASE (\E s \in Svcs : ReconcileService(s)) \/ (\E q \in work : Reconcile(q))
    <3>1. queues /\ ReadClients /\ UNCHANGED <<main, localhost, stopped, retry>>
      BY <2>3 DEF ReconcileService, Reconcile, envVars
    <3>2. UNCHANGED kube
      BY <1>2, <3>1, ReadClientsFact DEF StartupInv
    <3>. QED  BY <1>2, <3>1, <3>2, WatchedSame
  <2>4. CASE (\E c \in Clusters : Reach(c)) \/ CloseStopCh \/ UNCHANGED vars \/ WatcherStep \/ ClusterStep
    <3>1. UNCHANGED <<main, localhost, retry, kube>> /\ (~stopped' => ~stopped)
      BY <2>4, SMTT(30) DEF Reach, CloseStopCh, vars, envVars, clientVars, WatcherStep, ClusterStep
    <3>. QED  BY <1>2, <3>1, WatchedSame
  <2>5. CASE SyncCRD \/ \E c \in Clusters, type \in Types : SyncKube(c, type)
    <3>1. UNCHANGED <<main, localhost, stopped, retry>> /\ kube \in [Clusters -> Factory]
      BY <1>2, <2>5 DEF SyncCRD, SyncKube, envVars, StartupInv, ClientInv, ClientType
    <3>2. ASSUME NEW c \in Clusters, NEW type \in Types, SyncKube(c, type)
          PROVE  \A d \in Clusters : kube[d].synced \subseteq kube'[d].synced
      BY <3>1, <3>2 DEF SyncKube, Factory
    <3>3. \A r \in Remotes : kube[r].synced \subseteq kube'[r].synced
      BY <2>5, <3>2 DEF SyncCRD, Clusters
    <3>. QED  BY <1>2, <3>1, <3>3, WatchedSame
  <2>6. CASE Restart
    BY <2>6 DEF Restart, NoRetry, WatchedInv, Watched
  <2>. QED  BY <1>2, <2>1, <2>2, <2>3, <2>4, <2>5, <2>6 DEF Next
<1>3. StartupInv /\ WatchedInv =>
        (main = "serving" /\ ~localhost /\ ~stopped =>
           \A r \in Remotes : \/ "EndpointSlices" \in kube[r].synced
                              \/ retry[r].pc \in {"op", "assign", "start", "wait"})
  <2>. SUFFICES ASSUME StartupInv, WatchedInv, main = "serving", ~localhost, ~stopped, NEW r \in Remotes,
                       retry[r].pc \notin {"op", "assign", "start", "wait"}
                PROVE  "EndpointSlices" \in kube[r].synced
    OBVIOUS
  <2>1. retry[r] \in RetryState /\ RemoteOK(r) /\ Watched(r)
    BY DEF StartupInv, ClientInv, ClientType, RemoteInv, WatchedInv
  <2>. QED  BY <2>1 DEF RetryState, RemoteOK, Watched
<1>. QED  BY <1>1, <1>2, <1>3, StartupInvariance, PTL DEF Spec

-----------------------------------------------------------------------------
(* The watcher and the cluster *)

(* When the events of q are handled, and d was known of s before, then v is known *)
Tells(q, d, s, v) ==
  \/ (\A i \in DOMAIN q : q[i].svc # s) /\ v = d
  \/ \E i \in DOMAIN q :
       /\ q[i].svc = s /\ q[i].value = v
       /\ \A j \in DOMAIN q : q[j].svc = s => j <= i

(***************************************************************************)
(* What was received says one thing of every Service, which is what a list *)
(* is compared with; and with what is still to be received, while there is *)
(* a watch, it says what the cluster does.                                 *)
(***************************************************************************)
TellsInv ==
  \A s \in Svcs :
    /\ \E v : Tells(fifo, store[s], s, v)
    /\ watch \in {"watching", "broken"} => Tells(fifo \o events, store[s], s, api[s])

(* An event that comes last tells of its Service, and nothing of others. *)
LEMMA TellsLast ==
  ASSUME NEW q \in Seq(Event), NEW e \in Event, NEW d, NEW s, NEW v,
         e.svc = s => v = e.value,
         e.svc # s => Tells(q, d, s, v)
  PROVE  Tells(Append(q, e), d, s, v)
<1>. DEFINE a == Append(q, e)
<1>1. /\ Len(q) \in Nat /\ DOMAIN q = 1..Len(q) /\ DOMAIN a = 1..(Len(q) + 1)
      /\ a[Len(q) + 1] = e /\ \A i \in 1..Len(q) : a[i] = q[i]
  BY SMTT(30)
<1>. HIDE DEF a
<1>2. CASE e.svc = s
  BY <1>1, <1>2, SMTT(30) DEF Tells
<1>3. CASE e.svc # s
  BY <1>1, <1>3, SMTT(30) DEF Tells
<1>. QED  BY <1>2, <1>3 DEF a

(* An event that is handled becomes what was known before. *)
LEMMA TellsRest ==
  ASSUME NEW q \in Seq(Event), q # <<>>, NEW d, NEW d2, NEW s, NEW v, Tells(q, d, s, v),
         d2 = IF Head(q).svc = s THEN Head(q).value ELSE d
  PROVE  Tells(Tail(q), d2, s, v)
<1>. DEFINE t == Tail(q)
<1>1. /\ Len(q) \in Nat /\ Len(q) >= 1 /\ DOMAIN q = 1..Len(q) /\ DOMAIN t = 1..(Len(q) - 1)
      /\ Head(q) = q[1] /\ \A i \in 1..(Len(q) - 1) : t[i] = q[i + 1]
  BY SMTT(30)
<1>. HIDE DEF t
<1>2. CASE (\A i \in DOMAIN q : q[i].svc # s) /\ v = d
  BY <1>1, <1>2, SMTT(30) DEF Tells
<1>3. ASSUME NEW i \in DOMAIN q, q[i].svc = s, q[i].value = v, \A j \in DOMAIN q : q[j].svc = s => j <= i
      PROVE  Tells(t, d2, s, v)
  <2>1. CASE i = 1
    <3>1. \A j \in DOMAIN t : t[j].svc # s
      BY <1>1, <1>3, <2>1, SMTT(30)
    <3>. QED  BY <1>1, <1>3, <2>1, <3>1 DEF Tells
  <2>2. CASE i # 1
    <3>1. i - 1 \in DOMAIN t /\ t[i - 1] = q[i]
      BY <1>1, <2>2, SMTT(30)
    <3>2. \A j \in DOMAIN t : t[j].svc = s => j <= i - 1
      BY <1>1, <1>3, SMTT(30)
    <3>. QED  BY <1>3, <3>1, <3>2 DEF Tells
  <2>. QED  BY <2>1, <2>2
<1>. QED  BY <1>2, <1>3 DEF Tells, t

(* Events of a list that come after others tell of their Services, and nothing of others. *)
LEMMA TellsMore ==
  ASSUME NEW q \in Seq(Event), NEW b \in Seq(Event), NEW d, NEW s, NEW v,
         \/ Tells(q, d, s, v) /\ \A i \in DOMAIN b : b[i].svc # s
         \/ \E i \in DOMAIN b : b[i].svc = s /\ b[i].value = v /\ \A j \in DOMAIN b : b[j].svc = s => j = i
  PROVE  Tells(q \o b, d, s, v)
<1>. DEFINE c == q \o b
<1>1. /\ Len(q) \in Nat /\ Len(b) \in Nat /\ DOMAIN q = 1..Len(q) /\ DOMAIN b = 1..Len(b)
      /\ DOMAIN c = 1..(Len(q) + Len(b))
      /\ \A i \in 1..Len(q) : c[i] = q[i]
      /\ \A i \in 1..Len(b) : c[Len(q) + i] = b[i]
  BY SMTT(30)
<1>. HIDE DEF c
<1>2. \A k \in DOMAIN c : k > Len(q) => k - Len(q) \in DOMAIN b /\ c[k] = b[k - Len(q)]
  <2>. SUFFICES ASSUME NEW k \in DOMAIN c, k > Len(q)  PROVE k - Len(q) \in DOMAIN b /\ c[k] = b[k - Len(q)]
    OBVIOUS
  <2>1. k \in Int /\ k - Len(q) \in 1..Len(b) /\ k = Len(q) + (k - Len(q))
    BY <1>1, SMTT(30)
  <2>. QED  BY <1>1, <2>1
<1>3. ASSUME Tells(q, d, s, v), \A i \in DOMAIN b : b[i].svc # s
      PROVE  Tells(c, d, s, v)
  <2>1. \A k \in DOMAIN c : c[k].svc = s => k \in DOMAIN q /\ c[k] = q[k]
    BY <1>1, <1>2, <1>3, SMTT(30)
  <2>2. \A k \in DOMAIN q : k \in DOMAIN c /\ c[k] = q[k]
    BY <1>1, SMTT(30)
  <2>3. CASE (\A i \in DOMAIN q : q[i].svc # s) /\ v = d
    BY <2>1, <2>3 DEF Tells
  <2>4. ASSUME NEW i \in DOMAIN q, q[i].svc = s, q[i].value = v, \A j \in DOMAIN q : q[j].svc = s => j <= i
        PROVE  Tells(c, d, s, v)
    <3>1. i \in DOMAIN c /\ c[i].svc = s /\ c[i].value = v
      BY <2>2, <2>4
    <3>2. \A j \in DOMAIN c : c[j].svc = s => j <= i
      BY <2>1, <2>4
    <3>. QED  BY <3>1, <3>2 DEF Tells
  <2>5. \/ (\A i \in DOMAIN q : q[i].svc # s) /\ v = d
        \/ \E i \in DOMAIN q : q[i].svc = s /\ q[i].value = v /\ \A j \in DOMAIN q : q[j].svc = s => j <= i
    BY <1>3 DEF Tells
  <2>. QED  BY <2>3, <2>4, <2>5
<1>4. ASSUME NEW i \in DOMAIN b, b[i].svc = s, b[i].value = v, \A j \in DOMAIN b : b[j].svc = s => j = i
      PROVE  Tells(c, d, s, v)
  <2>1. Len(q) + i \in DOMAIN c /\ c[Len(q) + i] = b[i]
    BY <1>1, SMTT(30)
  <2>2. \A k \in DOMAIN c : c[k].svc = s => k <= Len(q) + i
    BY <1>1, <1>2, <1>4, SMTT(30)
  <2>. QED  BY <1>4, <2>1, <2>2 DEF Tells
<1>. QED  BY <1>3, <1>4 DEF c

(* The store and the queue of events, compared with a list, give what they tell. *)
LEMMA LatestFact ==
  ASSUME NEW s \in Svcs, NEW v, fifo \in Seq(Event), Tells(fifo, store[s], s, v)
  PROVE  Latest(s) = v
<1>. DEFINE of == {i \in DOMAIN fifo : fifo[i].svc = s}
<1>1. CASE (\A i \in DOMAIN fifo : fifo[i].svc # s) /\ v = store[s]
  BY <1>1 DEF Latest
<1>2. ASSUME NEW i \in DOMAIN fifo, fifo[i].svc = s, fifo[i].value = v,
             \A j \in DOMAIN fifo : fifo[j].svc = s => j <= i
      PROVE  Latest(s) = v
  <2>. DEFINE m == CHOOSE k \in of : \A j \in of : j <= k
  <2>1. i \in of /\ \A j \in of : j <= i
    BY <1>2
  <2>2. m \in of /\ \A j \in of : j <= m
    BY <2>1
  <2>3. m = i
    <3>1. DOMAIN fifo = 1..Len(fifo) /\ Len(fifo) \in Nat
      BY SMTT(30)
    <3>2. i \in Int /\ m \in Int
      <4>. HIDE DEF m
      <4>. QED  BY <2>1, <2>2, <3>1, SMTT(30)
    <3>3. i <= m /\ m <= i
      BY <2>1, <2>2
    <3>. HIDE DEF m
    <3>. QED  BY <3>2, <3>3, SMTT(30)
  <2>4. of # {}
    BY <2>1
  <2>5. Latest(s) = fifo[m].value
    BY <2>4 DEF Latest
  <2>. QED  BY <1>2, <2>3, <2>5
<1>. QED  BY <1>1, <1>2 DEF Tells

(* A list names each of its Services once, with what the cluster says of it. *)
LEMMA ListedOnce ==
  ASSUME NEW S \in SUBSET Svcs, NEW order \in Orders(S), NEW type, NEW s \in Svcs
  PROVE  LET b == EventsOf(type, order)
         IN  /\ s \notin S => \A i \in DOMAIN b : b[i].svc # s
             /\ s \in S => \E i \in DOMAIN b : /\ b[i].svc = s /\ b[i].value = api[s]
                                               /\ \A j \in DOMAIN b : b[j].svc = s => j = i
<1>. DEFINE b == EventsOf(type, order)
<1>1. /\ {order[i] : i \in DOMAIN order} = S
      /\ \A i, j \in DOMAIN order : order[i] = order[j] => i = j
  BY DEF Orders
<1>2. /\ DOMAIN b = DOMAIN order
      /\ \A i \in DOMAIN order : b[i].svc = order[i] /\ b[i].value = api[order[i]]
  BY DEF EventsOf
<1>3. (s \in S) <=> \E i \in DOMAIN order : order[i] = s
  BY <1>1, SMTT(30)
<1>. HIDE DEF b
<1>4. s \notin S => \A i \in DOMAIN b : b[i].svc # s
  BY <1>2, <1>3
<1>5. ASSUME s \in S
      PROVE  \E i \in DOMAIN b : /\ b[i].svc = s /\ b[i].value = api[s]
                                 /\ \A j \in DOMAIN b : b[j].svc = s => j = i
  <2>1. PICK i \in DOMAIN order : order[i] = s
    BY <1>3, <1>5
  <2>2. \A j \in DOMAIN order : order[j] = s => j = i
    BY <1>1, <2>1
  <2>. QED  BY <1>2, <2>1, <2>2
<1>. QED  BY <1>4, <1>5 DEF b

(* After a list, the queue of events tells what the cluster does. *)
LEMMA ListTells ==
  ASSUME WatcherInv, TellsInv, List
  PROVE  TellsInv'
<1>1. /\ UNCHANGED <<api, store>> /\ events' = <<>>
      /\ fifo \in Seq(Event) /\ api \in [Svcs -> Values \cup {Absent}]
  BY DEF List, WatcherInv, WatcherType
<1>2. PICK listed \in Orders(Known(api)), gone \in Orders(Missed) :
        fifo' = fifo \o EventsOf("set", listed) \o EventsOf("tombstone", gone)
  BY DEF List
<1>. DEFINE a == EventsOf("set", listed)
            b == EventsOf("tombstone", gone)
<1>3. Known(api) \in SUBSET Svcs /\ Missed \in SUBSET Svcs
  BY DEF Known, Missed
<1>4. a \in Seq(Event) /\ b \in Seq(Event)
  BY <1>1, <1>3, OrdersFact
<1>5. ASSUME NEW s \in Svcs  PROVE Tells(fifo', store[s], s, api[s])
  <2>1. /\ s \notin Known(api) => \A i \in DOMAIN a : a[i].svc # s
        /\ s \in Known(api) => \E i \in DOMAIN a : /\ a[i].svc = s /\ a[i].value = api[s]
                                                   /\ \A j \in DOMAIN a : a[j].svc = s => j = i
    BY <1>3, ListedOnce, SMTT(30)
  <2>2. /\ s \notin Missed => \A i \in DOMAIN b : b[i].svc # s
        /\ s \in Missed => \E i \in DOMAIN b : /\ b[i].svc = s /\ b[i].value = api[s]
                                               /\ \A j \in DOMAIN b : b[j].svc = s => j = i
    BY <1>3, ListedOnce, SMTT(30)
  <2>. HIDE DEF a, b
  <2>3. fifo \o a \in Seq(Event) /\ fifo' = (fifo \o a) \o b
    BY <1>1, <1>2, <1>4, SMTT(30) DEF a, b
  <2>4. CASE s \in Known(api)
    <3>1. Tells(fifo \o a, store[s], s, api[s])
      BY <1>1, <1>4, <2>1, <2>4, TellsMore
    <3>2. s \notin Missed
      BY <2>4 DEF Known, Missed
    <3>. QED  BY <1>4, <2>2, <2>3, <3>1, <3>2, TellsMore
  <2>5. CASE s \in Missed
    BY <1>4, <2>2, <2>3, <2>5, TellsMore
  <2>6. CASE s \notin Known(api) /\ s \notin Missed
    <3>1. PICK v : Tells(fifo, store[s], s, v)
      BY DEF TellsInv
    <3>2. v = api[s]
      BY <1>1, <2>6, <3>1, LatestFact DEF Known, Missed
    <3>3. Tells(fifo \o a, store[s], s, api[s])
      BY <1>1, <1>4, <2>1, <2>6, <3>1, <3>2, TellsMore
    <3>. QED  BY <1>4, <2>2, <2>3, <2>6, <3>3, TellsMore
  <2>. QED  BY <2>4, <2>5, <2>6
<1>6. fifo' \o events' = fifo'
  <2>1. fifo' \in Seq(Event)
    BY <1>1, <1>2, <1>4, SMTT(30)
  <2>. QED  BY <1>1, <2>1, SMTT(30)
<1>. QED  BY <1>1, <1>5, <1>6 DEF TellsInv

(* Receiving and handling events, in order, loses none of what they tell. *)
LEMMA InformerTells ==
  ASSUME WatcherInv, TellsInv, Receive \/ Pop \/ HandleEvent \/ WatchAgain \/ WatchBreaks \/ RunWatcher
  PROVE  TellsInv'
<1>1. fifo \in Seq(Event) /\ events \in Seq(Event) /\ store \in [Svcs -> Values \cup {Absent}]
  <2>1. events \in Seq(Live) /\ Live \subseteq Event
    BY DEF WatcherInv, WatcherType, Live
  <2>. QED  BY <2>1, SMTT(30) DEF WatcherInv, WatcherType
<1>2. CASE Receive
  <2>1. /\ UNCHANGED <<api, watch, store>> /\ watch = "watching" /\ events # <<>>
        /\ fifo' = Append(fifo, Head(events)) /\ events' = Tail(events)
    BY <1>2 DEF Receive
  <2>2. Head(events) \in Event /\ Append(fifo, Head(events)) \o Tail(events) = fifo \o events
    BY <1>1, <2>1, SMTT(30)
  <2>3. ASSUME NEW s \in Svcs  PROVE \E v : Tells(fifo', store[s], s, v)
    <3>1. PICK v : Tells(fifo, store[s], s, v)
      BY DEF TellsInv
    <3>2. Tells(Append(fifo, Head(events)), store[s], s, IF Head(events).svc = s THEN Head(events).value ELSE v)
      BY <1>1, <2>2, <3>1, TellsLast
    <3>. QED  BY <2>1, <3>2
  <2>. QED  BY <2>1, <2>2, <2>3 DEF TellsInv
<1>3. CASE Pop
  <2>1. /\ UNCHANGED <<api, watch, events>> /\ fifo # <<>> /\ fifo' = Tail(fifo)
        /\ store' = [store EXCEPT ![Head(fifo).svc] = Head(fifo).value]
    BY <1>3 DEF Pop
  <2>2. /\ fifo \o events \in Seq(Event) /\ fifo \o events # <<>>
        /\ Head(fifo \o events) = Head(fifo) /\ Tail(fifo \o events) = Tail(fifo) \o events
    BY <1>1, <2>1, SMTT(30)
  <2>3. \A s \in Svcs : store'[s] = IF Head(fifo).svc = s THEN Head(fifo).value ELSE store[s]
    BY <1>1, <2>1
  <2>4. ASSUME NEW s \in Svcs, NEW v, Tells(fifo, store[s], s, v)  PROVE Tells(fifo', store'[s], s, v)
    BY <1>1, <2>1, <2>3, <2>4, TellsRest
  <2>5. ASSUME NEW s \in Svcs, NEW v, Tells(fifo \o events, store[s], s, v)
        PROVE  Tells(fifo' \o events', store'[s], s, v)
    <3>1. Tells(Tail(fifo \o events), store'[s], s, v)
      BY <2>2, <2>3, <2>5, TellsRest
    <3>. QED  BY <2>1, <2>2, <3>1
  <2>. QED  BY <2>1, <2>4, <2>5 DEF TellsInv
<1>4. CASE HandleEvent \/ WatchAgain \/ WatchBreaks \/ RunWatcher
  <2>1. /\ UNCHANGED <<api, events, fifo, store>>
        /\ watch' \in {"watching", "broken"} => watch \in {"watching", "broken"}
    BY <1>4 DEF HandleEvent, WatchAgain, WatchBreaks, RunWatcher
  <2>. QED  BY <2>1 DEF TellsInv
<1>. QED  BY <1>2, <1>3, <1>4

(* A change of the cluster comes last in the watch. *)
LEMMA ApiChangeTells ==
  ASSUME WatcherInv, TellsInv, NEW s \in Svcs, NEW v \in Values \cup {Absent}, ApiChange(s, v)
  PROVE  TellsInv'
<1>. DEFINE e == [type |-> IF v = Absent THEN "deleted" ELSE "set", svc |-> s, value |-> v]
<1>1. /\ UNCHANGED <<watch, fifo, store>> /\ api' = [api EXCEPT ![s] = v]
      /\ watch \in {"watching", "broken"} => events' = Append(events, e)
  BY DEF ApiChange
<1>2. fifo \in Seq(Event) /\ events \in Seq(Event) /\ api \in [Svcs -> Values \cup {Absent}]
  <2>1. events \in Seq(Live) /\ Live \subseteq Event
    BY DEF WatcherInv, WatcherType, Live
  <2>. QED  BY <2>1, SMTT(30) DEF WatcherInv, WatcherType
<1>3. e \in Event /\ e.svc = s /\ e.value = v
  BY DEF Event
<1>. HIDE DEF e
<1>4. fifo \o events \in Seq(Event) /\ fifo \o Append(events, e) = Append(fifo \o events, e)
  BY <1>2, <1>3, SMTT(30)
<1>5. ASSUME NEW t \in Svcs, watch \in {"watching", "broken"}
      PROVE  Tells(fifo' \o events', store[t], t, api'[t])
  <2>1. (t = s => api'[t] = e.value) /\ (t # s => api'[t] = api[t])
    BY <1>1, <1>2, <1>3
  <2>2. Tells(fifo \o events, store[t], t, api[t])
    BY <1>5 DEF TellsInv
  <2>3. Tells(Append(fifo \o events, e), store[t], t, api'[t])
    BY <1>3, <1>4, <2>1, <2>2, TellsLast
  <2>. QED  BY <1>1, <1>4, <1>5, <2>3
<1>. QED  BY <1>1, <1>5 DEF TellsInv

(***************************************************************************)
(* When the watch is up and everything it sent is handled and reconciled,  *)
(* the last reconciliation has listed the labelled Services as they are in *)
(* the cluster, whatever watches broke, deletions were missed, or          *)
(* processes panicked before (Init and handleEvent of the service watcher, *)
(* serviceEventHandler): nothing that happened is left out for good.       *)
(***************************************************************************)
THEOREM SeesTheCluster ==
  Spec => [](/\ watch = "watching" /\ events = <<>> /\ fifo = <<>>
             /\ handling = Absent /\ owed = {}
             => seen = api)
<1>1. Init => TellsInv
  BY SMTT(30) DEF Init, WatcherInit, TellsInv, Tells
<1>2. ASSUME StartupInv, TellsInv, [Next]_vars  PROVE TellsInv'
  <2>1. WatcherInv
    BY <1>2 DEF StartupInv
  <2>2. CASE UNCHANGED <<api, watch, events, fifo, store>>
    BY <1>2, <2>2 DEF TellsInv
  <2>3. CASE MainStep
    <3>1. UNCHANGED svcVars \/ RunWatcher
      BY <2>3 DEF MainStep, CreateClients, StartWatcher, WaitWatcher, WatchAll, WaitCRD, WaitKube,
                  StartRemotes, StartQueues, Listen
    <3>. QED  BY <1>2, <2>1, <2>2, <3>1, InformerTells DEF svcVars, watcherVars
  <2>4. CASE \/ \E r \in Remotes : RetryStep(r)
             \/ \E c \in Clusters : Reach(c) \/ \E type \in Types : SyncKube(c, type)
             \/ CloseStopCh \/ SyncCRD \/ UNCHANGED vars
    <3>1. UNCHANGED svcVars
      BY <2>4 DEF RetryStep, MakeFactory, AssignFactory, StartFactory, WatchReturns, Wake,
                  Reach, SyncKube, CloseStopCh, SyncCRD, vars
    <3>. QED  BY <2>2, <3>1 DEF svcVars, watcherVars
  <2>5. CASE (\E s \in Svcs : ReconcileService(s)) \/ (\E q \in work : Reconcile(q))
    BY <2>2, <2>5 DEF ReconcileService, Reconcile, watcherVars
  <2>6. CASE WatcherStep \/ ClusterStep
    BY <1>2, <2>1, <2>6, ListTells, InformerTells, ApiChangeTells DEF WatcherStep, InformerStep, ClusterStep
  <2>7. CASE Restart
    BY <2>7, SMTT(30) DEF Restart, WatcherRestart, TellsInv, Tells
  <2>. QED  BY <1>2, <2>3, <2>4, <2>5, <2>6, <2>7 DEF Next
<1>3. ASSUME StartupInv, TellsInv, watch = "watching", events = <<>>, fifo = <<>>, handling = Absent, owed = {}
      PROVE  seen = api
  <2>1. \A s \in Svcs : store[s] = api[s]
    <3>1. fifo \o events = <<>>
      BY <1>3, SMTT(30)
    <3>2. \A s \in Svcs : Tells(<<>>, store[s], s, api[s])
      BY <1>3, <3>1 DEF TellsInv
    <3>. QED  BY <3>2, SMTT(30) DEF Tells
  <2>2. \A s \in Svcs : store[s] = seen[s]
    BY <1>3 DEF StartupInv, WatcherInv, EveryStoreChangeIsQueued
  <2>3. api \in [Svcs -> Values \cup {Absent}] /\ seen \in [Svcs -> Values \cup {Absent}]
    BY <1>3 DEF StartupInv, WatcherInv, WatcherType
  <2>. QED  BY <2>1, <2>2, <2>3, SMTT(30)
<1>. QED  BY <1>1, <1>2, <1>3, StartupInvariance, PTL DEF Spec

=============================================================================
