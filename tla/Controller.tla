----------------------------- MODULE Controller -----------------------------
(***************************************************************************)
(* The controller of controller/controller.go: informers keep caches of    *)
(* the objects of the local and the remote clusters and add the keys of    *)
(* changed ones to four queues; the goroutine of each queue reconciles,    *)
(* which means that it reads the caches and publishes all services and all *)
(* endpoints anew through the snapshotter.                                 *)
(*                                                                         *)
(* A queue is what ReconcileSpec says: keys that are owed a                *)
(* reconciliation, and the one that runs.  A publication is the step of    *)
(* SnapServices or SnapEndpoints that replaces the full snapshot; module   *)
(* Snapshotter says what follows from it.                                  *)
(***************************************************************************)
EXTENDS EndpointStore, Functions

CONSTANTS
  Services,      \* namespace and name of Services
  XdsNames,      \* namespace and name of XdsServices
  SliceNames,    \* namespace and name of EndpointSlices
  Local,         \* the local cluster
  Remotes,       \* the remote clusters
  Objects,       \* what the spec of a Service says
  SliceValues,   \* what an EndpointSlice says, see EndpointStore; its label
                 \* names the Service in the field service, or it has none
  Settings,      \* what the spec of an XdsService says besides the Service
  Absent,
  Kinds,         \* bound: the kinds of objects that change
  MaxChanges,    \* bound: changes of objects
  MaxFailures    \* bound: reconciliations that fail

ASSUME ControllerAssumption ==
  /\ Local \notin Remotes
  /\ Absent \notin Objects /\ Absent \notin SliceValues
  /\ \A value \in SliceValues : value.service \in Services \cup {Absent}
  /\ Settings \subseteq [EnableRemoteEndpoints : BOOLEAN, PrioritizeLocalEndpoints : BOOLEAN]
  /\ MaxChanges \in Nat /\ MaxFailures \in Nat

Queues == {"service", "crd", "local", "remote"}
Clusters == {Local} \cup Remotes

(* The queue for the slices of a cluster, and the clusters that its worker searches *)
QueueOf(c) == IF c = Local THEN "local" ELSE "remote"
Searched(q) == IF q = "local" THEN {Local} ELSE Remotes

XdsService == [service : Services, settings : Settings]

(* Services that are selected by their label have no settings of their own *)
LabelSettings == [EnableRemoteEndpoints |-> FALSE, PrioritizeLocalEndpoints |-> FALSE]

Entry == [object : Objects, settings : Settings \cup {LabelSettings}]
ServiceStore == [Services -> Entry \cup {Absent}]
EndpointsStore ==
  [Services -> SUBSET [slice : SliceValues, priority : 0..1]]

(* The things that a reconciliation reads, for the history variables *)
SliceObjects == {<<"slice", c, e>> : c \in Clusters, e \in SliceNames}
LabelledObjects == {<<"labelled", s>> : s \in Services}
XdsObjects == {<<"xds", x>> : x \in XdsNames}
ServiceObjects == {<<"service", s>> : s \in Services}

VARIABLES
  labelled,      \* cache of the service watcher (label selector)
  services,      \* cache of the Services informer
  xdsServices,   \* cache of the XdsServices informer
  slices,        \* slices[c]: cache of the EndpointSlices informer of cluster c
  owed,          \* owed[q]: keys that queue q has still to hand out
  worker,        \* worker[q]: where the goroutine of queue q is
  pubServices,   \* what the last SnapServices published
  pubEndpoints,  \* what the last SnapEndpoints published
  pending,       \* history: changed objects that no publication has included
  labels,        \* history: labels[q][e]: the Services that slices named e had in
                 \* their label, in the clusters that queue q is for
  changes,       \* changes of objects
  failures       \* reconciliations that failed

caches == <<labelled, services, xdsServices, slices>>
published == <<pubServices, pubEndpoints>>
vars == <<caches, owed, worker, published, pending, labels, changes, failures>>

NoServices == [s \in Services |-> Absent]
NoEndpoints == [s \in Services |-> {}]

IdleWorker ==
  [pc |-> "idle", key |-> Absent, mode |-> "all", parent |-> Absent, labelled |-> NoServices,
   store |-> NoServices, endpoints |-> NoEndpoints, fresh |-> {}]

(* The caches are filled before the workers start; only these have no handler *)
Init ==
  /\ labelled = NoServices
  /\ services \in [Services -> Objects \cup {Absent}]
  /\ xdsServices = [x \in XdsNames |-> Absent]
  /\ slices = [c \in Clusters |-> [e \in SliceNames |-> Absent]]
  /\ owed = [q \in Queues |-> {}]
  /\ worker = [q \in Queues |-> IdleWorker]
  /\ pubServices = NoServices
  /\ pubEndpoints = NoEndpoints
  /\ pending = {}
  /\ labels = [q \in {"local", "remote"} |-> [e \in SliceNames |-> {}]]
  /\ changes = 0
  /\ failures = 0

-----------------------------------------------------------------------------
(* Informers *)

(***************************************************************************)
(* The cache is updated before the handler adds the key.  What a worker    *)
(* has read of the object before is not fresh any more.                    *)
(***************************************************************************)
Changed(kind, object) ==
  /\ kind \in Kinds
  /\ changes < MaxChanges
  /\ changes' = changes + 1
  /\ pending' = pending \cup {object}
  /\ worker' = [q \in Queues |-> [worker[q] EXCEPT !.fresh = @ \ {object}]]
  /\ UNCHANGED <<published, failures>>

Enqueue(q, k) == owed' = [owed EXCEPT ![q] = @ \cup {k}]

(* newEventHandlerFunc: a resync, without a new resource version, is ignored *)
EndpointSliceEvent(c, e, value) ==
  /\ value # slices[c][e]
  /\ Changed("slice", <<"slice", c, e>>)
  /\ slices' = [slices EXCEPT ![c][e] = value]
  /\ labels' = IF value = Absent THEN labels
               ELSE [labels EXCEPT ![QueueOf(c)][e] = @ \cup {value.service}]
  /\ Enqueue(QueueOf(c), e)
  /\ UNCHANGED <<labelled, services, xdsServices>>

(* Mutant of XdsServiceEvent: the deletion of an XdsService adds nothing *)
XdsServiceEventUnlessDeleted(x, value) ==
  /\ value # xdsServices[x]
  /\ Changed("xds", <<"xds", x>>)
  /\ xdsServices' = [xdsServices EXCEPT ![x] = value]
  /\ IF value = Absent THEN UNCHANGED owed ELSE Enqueue("crd", x)
  /\ UNCHANGED <<labelled, services, slices, labels>>

XdsServiceEvent(x, value) ==
  /\ value # xdsServices[x]
  /\ Changed("xds", <<"xds", x>>)
  /\ xdsServices' = [xdsServices EXCEPT ![x] = value]
  /\ Enqueue("crd", x)
  /\ UNCHANGED <<labelled, services, slices, labels>>

(* serviceEventHandler *)
LabelledServiceEvent(s, value) ==
  /\ value # labelled[s]
  /\ Changed("labelled", <<"labelled", s>>)
  /\ labelled' = [labelled EXCEPT ![s] = value]
  /\ Enqueue("service", s)
  /\ UNCHANGED <<services, xdsServices, slices, labels>>

(* WatchAll gives the informer of all Services no event handler *)
ServiceEvent(s, value) ==
  /\ value # services[s]
  /\ Changed("service", <<"service", s>>)
  /\ services' = [services EXCEPT ![s] = value]
  /\ UNCHANGED <<labelled, xdsServices, slices, labels, owed>>

-----------------------------------------------------------------------------
(* Reconciling *)

(* The XdsServices that select a Service *)
Selecting(xds, s) == {x \in XdsNames : xds[x] # Absent /\ xds[x].service = s}

(* Mutant of Entries: an XdsService whose Service is not found is not skipped *)
EntriesWithoutService(lab, xds, svc, s) ==
  IF Selecting(xds, s) # {}
  THEN {[object |-> svc[s], settings |-> xds[x].settings] : x \in Selecting(xds, s)}
  ELSE IF lab[s] # Absent THEN {[object |-> lab[s], settings |-> LabelSettings]}
       ELSE {Absent}

(***************************************************************************)
(* What servicesToXdsServiceStore may store for a Service: XdsServices     *)
(* come last and overwrite, in the order in which the cache lists them; an *)
(* XdsService whose Service is not in the cache is skipped.                *)
(***************************************************************************)
Entries(lab, xds, svc, s) ==
  IF svc[s] # Absent /\ Selecting(xds, s) # {}
  THEN {[object |-> svc[s], settings |-> xds[x].settings] : x \in Selecting(xds, s)}
  ELSE IF lab[s] # Absent THEN {[object |-> lab[s], settings |-> LabelSettings]}
       ELSE {Absent}

(* endpointsStoreForXdsServiceStore *)
EndpointsFor(store, sl) ==
  LET of(c, s) == {sl[c][e] : e \in {e \in SliceNames : sl[c][e] # Absent /\ sl[c][e].service = s}}
  IN  [s \in Services |->
         IF store[s] = Absent THEN {}
         ELSE endpointsStore(store[s].settings, of(Local, s),
                             UNION {of(c, s) : c \in Remotes})]

(* The queue hands out a key *)
Take(q, k) ==
  /\ worker[q].pc = "idle"
  /\ k \in owed[q]
  /\ owed' = [owed EXCEPT ![q] = @ \ {k}]
  /\ worker' = [worker EXCEPT ![q].pc = IF q \in {"service", "crd"} THEN "labelled" ELSE "lookup",
                              ![q].key = k]
  /\ UNCHANGED <<caches, published, pending, labels, changes, failures>>

(* Mutant of Lookup: a slice that is not found is ignored *)
LookupIgnoresDeleted(q) ==
  LET k == worker[q].key
      found == {c \in Searched(q) : slices[c][k] # Absent}
      read == {<<"slice", c, k>> : c \in Searched(q)}
  IN  /\ worker[q].pc = "lookup"
      /\ \/ /\ found = {}
            /\ worker' = [worker EXCEPT ![q] = IdleWorker]
         \/ \E c \in found :
              worker' = [worker EXCEPT ![q].pc = "labelled", ![q].mode = "slice",
                                       ![q].parent = slices[c][k].service, ![q].fresh = read]
      /\ UNCHANGED <<caches, owed, published, pending, labels, changes, failures>>

(***************************************************************************)
(* reconcileLocalEndpointSlice and reconcileRemoteEndpointSlice: a slice   *)
(* that is found, in the first cluster that has one of the name, leads to  *)
(* reconcileEndpointSlice, which goes by its label; otherwise only the     *)
(* endpoints are published (snapEndpoints).  The order of the clusters is  *)
(* that of the configuration, here any.                                    *)
(***************************************************************************)
Lookup(q) ==
  LET k == worker[q].key
      found == {c \in Searched(q) : slices[c][k] # Absent}
      read == {<<"slice", c, k>> : c \in Searched(q)}
  IN  /\ worker[q].pc = "lookup"
      /\ \/ /\ found = {}
            /\ worker' = [worker EXCEPT ![q].pc = "labelled", ![q].mode = "endpoints",
                                        ![q].fresh = read]
         \/ \E c \in found :
              worker' = [worker EXCEPT ![q].pc = "labelled", ![q].mode = "slice",
                                       ![q].parent = slices[c][k].service, ![q].fresh = read]
      /\ UNCHANGED <<caches, owed, published, pending, labels, changes, failures>>

(* servicesToXdsServiceStore, first the labelled Services *)
ListLabelled(q) ==
  /\ worker[q].pc = "labelled"
  /\ worker' = [worker EXCEPT ![q].pc = "xds",
                              ![q].labelled = labelled,
                              ![q].fresh = @ \cup LabelledObjects]
  /\ UNCHANGED <<caches, owed, published, pending, labels, changes, failures>>

(* The label names a Service of the store *)
needToReconcileEndpointSlice(parent, store) == parent \in Services /\ store[parent] # Absent

(* The names whose slices have not all had the same label *)
Relabelled(q) == {e \in SliceNames : \E a, b \in labels[q][e] : a # b}

(***************************************************************************)
(* Then the XdsServices.  needToReconcileEndpointSlice ends the            *)
(* reconciliation of a slice whose label names no Service of the store.    *)
(* The change is then of no concern if slices of this name never had       *)
(* another label; otherwise it remains pending, because endpoints that     *)
(* were published under the other label stay.                              *)
(***************************************************************************)
ListXdsServices(q) ==
  LET w == worker[q]
      entries == [s \in Services |-> Entries(w.labelled, xdsServices, services, s)]
  IN  /\ w.pc = "xds"
      /\ \E store \in [Services -> UNION Range(entries)] :
           /\ \A s \in Services : store[s] \in entries[s]
           /\ IF w.mode = "slice" /\ ~needToReconcileEndpointSlice(w.parent, store)
              THEN /\ worker' = [worker EXCEPT ![q] = IdleWorker]
                   /\ pending' = IF w.key \in Relabelled(q) THEN pending
                                 ELSE pending \ (w.fresh \cap SliceObjects)
              ELSE /\ worker' = [worker EXCEPT
                        ![q].pc = IF w.mode = "endpoints" THEN "slices" ELSE "snapServices",
                        ![q].labelled = NoServices,
                        ![q].store = store,
                        ![q].fresh = @ \cup XdsObjects \cup ServiceObjects]
                   /\ UNCHANGED pending
      /\ UNCHANGED <<caches, owed, published, labels, changes, failures>>

(* snapAll: first the services *)
SnapServices(q) ==
  /\ worker[q].pc = "snapServices"
  /\ pubServices' = worker[q].store
  /\ worker' = [worker EXCEPT ![q].pc = "slices"]
  /\ UNCHANGED <<caches, owed, pubEndpoints, pending, labels, changes, failures>>

(* The endpoints are read after the services were published *)
ListEndpointSlices(q) ==
  /\ worker[q].pc = "slices"
  /\ worker' = [worker EXCEPT ![q].pc = "snapEndpoints",
                              ![q].endpoints = EndpointsFor(worker[q].store, slices),
                              ![q].fresh = @ \cup SliceObjects]
  /\ UNCHANGED <<caches, owed, published, pending, labels, changes, failures>>

SnapEndpoints(q) ==
  LET w == worker[q]
  IN  /\ w.pc = "snapEndpoints"
      /\ pubEndpoints' = w.endpoints
      /\ pending' = pending \ (IF w.mode = "endpoints" THEN w.fresh \cap SliceObjects
                                                       ELSE w.fresh)
      /\ worker' = [worker EXCEPT ![q] = IdleWorker]
      /\ UNCHANGED <<caches, owed, pubServices, labels, changes, failures>>

(* Mutant of ReconcileError: the key is not requeued *)
ReconcileErrorForgets(q) ==
  /\ worker[q].pc # "idle"
  /\ failures < MaxFailures
  /\ failures' = failures + 1
  /\ worker' = [worker EXCEPT ![q] = IdleWorker]
  /\ UNCHANGED <<caches, owed, published, pending, labels, changes>>

(***************************************************************************)
(* One of the reads or publications returns an error, and the key is       *)
(* requeued.  (A remote slice that cannot be read counts as not found.)    *)
(***************************************************************************)
ReconcileError(q) ==
  /\ worker[q].pc # "idle"
  /\ q = "remote" => worker[q].pc # "lookup"
  /\ failures < MaxFailures
  /\ failures' = failures + 1
  /\ owed' = [owed EXCEPT ![q] = @ \cup {worker[q].key}]
  /\ worker' = [worker EXCEPT ![q] = IdleWorker]
  /\ UNCHANGED <<caches, published, pending, labels, changes>>

-----------------------------------------------------------------------------
Event ==
  \/ \E c \in Clusters, e \in SliceNames, value \in SliceValues \cup {Absent} :
       EndpointSliceEvent(c, e, value)
  \/ \E x \in XdsNames, value \in XdsService \cup {Absent} : XdsServiceEvent(x, value)
  \/ \E s \in Services, value \in Objects \cup {Absent} : LabelledServiceEvent(s, value)
  \/ \E s \in Services, value \in Objects \cup {Absent} : ServiceEvent(s, value)

WorkerStep(q) ==
  \/ \E k \in owed[q] : Take(q, k)
  \/ Lookup(q)
  \/ ListLabelled(q)
  \/ ListXdsServices(q)
  \/ SnapServices(q)
  \/ ListEndpointSlices(q)
  \/ SnapEndpoints(q)
  \/ ReconcileError(q)

Next == Event \/ \E q \in Queues : WorkerStep(q)

Spec == Init /\ [][Next]_vars

(* The goroutine of every queue keeps running; nothing makes objects change *)
Fairness == \A q \in Queues : WF_vars(WorkerStep(q))

FairSpec == Spec /\ Fairness

-----------------------------------------------------------------------------
(* Properties *)

WorkerState ==
  [pc : {"idle", "lookup", "labelled", "xds", "snapServices", "slices", "snapEndpoints"},
   key : Services \cup XdsNames \cup SliceNames \cup {Absent},
   mode : {"all", "slice", "endpoints"},
   parent : Services \cup {Absent},
   labelled : [Services -> Objects \cup {Absent}],
   store : ServiceStore,
   endpoints : EndpointsStore,
   fresh : SUBSET (SliceObjects \cup LabelledObjects \cup XdsObjects \cup ServiceObjects)]

(* Every variable has its type. *)
TypeOK ==
  /\ labelled \in [Services -> Objects \cup {Absent}]
  /\ services \in [Services -> Objects \cup {Absent}]
  /\ xdsServices \in [XdsNames -> XdsService \cup {Absent}]
  /\ slices \in [Clusters -> [SliceNames -> SliceValues \cup {Absent}]]
  /\ owed \in [Queues -> SUBSET (Services \cup XdsNames \cup SliceNames)]
  /\ worker \in [Queues -> WorkerState]
  /\ pubServices \in ServiceStore
  /\ pubEndpoints \in EndpointsStore
  /\ pending \subseteq SliceObjects \cup LabelledObjects \cup XdsObjects \cup ServiceObjects
  /\ labels \in [{"local", "remote"} -> [SliceNames -> SUBSET (Services \cup {Absent})]]
  /\ changes \in Nat
  /\ failures \in Nat

(* Objects whose changes are handled by an event handler *)
HandledObjects == SliceObjects \cup LabelledObjects \cup XdsObjects

(***************************************************************************)
(* A slice of a name that does not keep its label: needToReconcile-        *)
(* EndpointSlice goes by the label of the one it finds, and knows nothing  *)
(* of the labels before, or of slices of the name in other clusters.       *)
(***************************************************************************)
RelabelledObjects == UNION {{<<"slice", c, e>> : e \in Relabelled(QueueOf(c))} : c \in Clusters}

AtRest == \A q \in Queues : worker[q].pc = "idle" /\ owed[q] = {}

(***************************************************************************)
(* When the queues are empty and the workers idle, every change of an      *)
(* XdsService, a labelled Service or an EndpointSlice has been part of a   *)
(* publication, or was of no concern to it: no event is swallowed by a     *)
(* reconciliation that had read its object too early, by the filter of     *)
(* needToReconcileEndpointSlice, or by an error.  Slices of a name that    *)
(* does not keep its label are excepted.                                   *)
(***************************************************************************)
NothingPendingAtRest == AtRest => pending \cap HandledObjects \subseteq RelabelledObjects

(***************************************************************************)
(* The same as progress: no such change is pending for ever, but published *)
(* in the end, though other workers publish at the same time and           *)
(* reconciliations fail.                                                   *)
(***************************************************************************)
EveryChangeIsPublished ==
  \A o \in HandledObjects : []<>(o \in pending => o \in RelabelledObjects)

(***************************************************************************)
(* Changes of Services are published in the end, too, for a Service that   *)
(* an XdsService selects.                                                  *)
(***************************************************************************)
EveryServiceChangeIsPublished ==
  \A s \in Services :
    <<"service", s>> \in pending ~>
      <<"service", s>> \notin pending \/ Selecting(xdsServices, s) = {}

(* What is published agrees with the caches *)
UpToDate ==
  /\ \A s \in Services : pubServices[s] \in Entries(labelled, xdsServices, services, s)
  /\ pubEndpoints = EndpointsFor(pubServices, slices)

(* Two workers are reconciling at the same time *)
Overlap == \E q1, q2 \in Queues : q1 # q2 /\ worker[q1].pc # "idle" /\ worker[q2].pc # "idle"

(***************************************************************************)
(* XdsServices that select the same Service have the same settings, so     *)
(* that the order in which the cache lists them does not matter.  Where    *)
(* they differ, snapEndpoints makes a store of its own after the deletion  *)
(* of a slice, and may prefer another XdsService than SnapServices did.    *)
(***************************************************************************)
Unambiguous ==
  \A x, y \in XdsNames :
    /\ xdsServices[x] # Absent /\ xdsServices[y] # Absent
    /\ xdsServices[x].service = xdsServices[y].service
    => xdsServices[x].settings = xdsServices[y].settings

(* Changes that may stay pending: no handler or no reconciliation takes them up *)
Excused == ServiceObjects \cup RelabelledObjects

(***************************************************************************)
(* As long as no two workers reconcile at the same time, and XdsServices   *)
(* of a Service agree, what is published becomes and stays what the caches *)
(* say once the objects stop changing, though a reconciliation may fail    *)
(* between its two publications, and though needToReconcileEndpointSlice   *)
(* ends reconciliations early.  The changes of Services, that no handler   *)
(* sees, and of slices that do not keep their label are excepted, until a  *)
(* later publication takes them up.                                        *)
(***************************************************************************)
UpToDateWithoutOverlap ==
  [](~Overlap /\ Unambiguous) => <>[](pending \cap Excused = {} => UpToDate)

(***************************************************************************)
(* After an EndpointSlice is deleted, the endpoints that are published     *)
(* become up to date: once the objects stop changing, every endpoint that  *)
(* is published is one of a slice that exists.                             *)
(***************************************************************************)
DeletedSlicesAreDropped ==
  <>[](\A s \in Services : \A entry \in pubEndpoints[s] :
         \E c \in Clusters, e \in SliceNames : slices[c][e] = entry.slice)

=============================================================================
